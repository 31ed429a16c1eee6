------------------------------- MODULE Paged -------------------------------
(***************************************************************************)
(* Sessions that read a result page by page over HTTP: Trino's nextUri     *)
(* chain with its shared browser login (daemon/src/providers/trino.ts) and *)
(* Elasticsearch's SQL cursor (elasticsearch.ts).  A walk is one query's   *)
(* generator, pulled by the daemon's query loop; `engine` is chosen in     *)
(* Init.  What the engine keeps for a walk is in `kept`.                   *)
(***************************************************************************)
EXTENDS Naturals, FiniteSets

CONSTANTS Engines,    \* "trino", "elastic"
          Walks, NoWalk,
          MaxPages,   \* bound: pages an engine makes for one query
          PageRows,   \* bound: rows in a page
          RowLimits

ASSUME PagedAssumption ==
    /\ Engines \subseteq {"trino", "elastic"} /\ NoWalk \notin Walks
    /\ MaxPages \in Nat \ {0} /\ PageRows \in Nat /\ RowLimits \subseteq Nat

VARIABLES
    engine,
    alive,    \* close has not been called
    token,    \* "none", "stale" or "good": the token the session holds
    login,    \* login[w]: the browser login that query w drives
    current,  \* this.login: whose login a 401 joins, or NoWalk
    walk,     \* walk[w]: the generator
    kept      \* kept[w]: what the engine still holds for the query

pagedVars == <<engine, alive, token, login, current, walk, kept>>

Fresh == [stage |-> "idle", limit |-> 0, with |-> "none", retried |-> FALSE, on |-> NoWalk, more |-> FALSE,
          form |-> "sql", taken |-> 0, missed |-> FALSE, truncated |-> FALSE, stop |-> "no", lost |-> FALSE,
          code |-> "none"]

PagedTypeOK ==
    /\ engine \in Engines /\ alive \in BOOLEAN /\ token \in {"none", "stale", "good"}
    /\ login \in [Walks -> {"none", "asking", "polling"}] /\ current \in Walks \cup {NoWalk}
    /\ walk \in [Walks ->
          [stage : {"idle", "sent", "login", "page", "closing", "done", "forgotten"}, limit : RowLimits \cup {0},
           with : {"none", "stale", "good"}, retried : BOOLEAN, on : Walks \cup {NoWalk}, more : BOOLEAN,
           form : {"sql", "search", "uncounted"},
           taken : 0..(MaxPages * PageRows), missed : BOOLEAN, truncated : BOOLEAN,
           stop : {"no", "user", "timer"}, lost : BOOLEAN,
           code : {"none", "ok", "sql", "auth", "network", "internal", "cancelled", "timeout"}]]
    /\ kept \in [Walks -> [pages : 0..MaxPages, state : {"none", "open", "over", "dropped", "unheard"}]]
    /\ current # NoWalk => login[current] # "none" /\ walk[current].stage = "login"
    /\ \A w \in Walks : walk[w].stage = "login" <=> walk[w].on # NoWalk

(* start: whatever token the vault has; none is not an error.              *)
PagedInit ==
    /\ engine \in Engines /\ alive = TRUE
    /\ token \in (IF engine = "trino" THEN {"none", "stale", "good"} ELSE {"good"})
    /\ login = [w \in Walks |-> "none"] /\ current = NoWalk
    /\ walk = [w \in Walks |-> Fresh]
    /\ kept = [w \in Walks |-> [pages |-> 0, state |-> "none"]]

Becomes(w, r) == walk' = [walk EXCEPT ![w] = r]
(* A walk that is over keeps only what it reported.                        *)
Over(r) ==
    IF r.stage # "done" THEN r
    ELSE [r EXCEPT !.on = NoWalk, !.with = "none", !.retried = FALSE, !.more = FALSE,
                   !.form = IF @ = "search" THEN "sql" ELSE @]
EndsWith(w, code) == Over([walk[w] EXCEPT !.stage = "done", !.code = code])

(* Ended on a hop that was refused: nobody sends a DELETE for it.          *)
Refused(w, code) == [EndsWith(w, code) EXCEPT !.lost = TRUE]

(* A deadline and a stop both arrive as an abort; the timer leaves a note. *)
Stopped(w) == IF walk[w].stop = "timer" THEN "timeout" ELSE "cancelled"

(* The request is made with the headers of now.                            *)
Sent(w) == [walk[w] EXCEPT !.stage = "sent", !.with = token, !.on = NoWalk]

StartWalk(w, limit) ==
    /\ alive /\ walk[w].stage = "idle" /\ limit \in RowLimits
    /\ Becomes(w, [Sent(w) EXCEPT !.limit = limit])
    /\ UNCHANGED <<engine, alive, token, login, current, kept>>

(* A Query DSL body is one request, and says its own size; one that is not *)
(* JSON is not sent.                                                       *)
Search(w, limit, parses) ==
    /\ engine = "elastic" /\ alive /\ walk[w].stage = "idle" /\ limit \in RowLimits
    /\ Becomes(w, IF parses THEN [Sent(w) EXCEPT !.limit = limit, !.form = "search"] ELSE EndsWith(w, "sql"))
    /\ UNCHANGED <<engine, alive, token, login, current, kept>>

(* What an error leaves to do: an Elasticsearch walk that has had a page   *)
(* with a cursor closes that cursor first.                                 *)
Unwound(w, code, lost) ==
    Over([walk[w] EXCEPT !.code = code, !.lost = @ \/ lost,
                         !.stage = IF engine = "elastic" /\ walk[w].more THEN "closing" ELSE "done"])

(* Mutant of Waiters: only the query that ran the login resumes.           *)
WaitersAlone(w) == {w}

Waiters(w) == {v \in Walks : walk[v].on = w}

(* Whoever awaits the login of w resumes: token' is the one it brought, or *)
(* every one of them fails with the error of the one that ran it.          *)
Resumed(w, outcome) ==
    walk' = [v \in Walks |-> IF v \in Waiters(w) THEN outcome[v] ELSE walk[v]]

LoginOver(w) ==
    /\ login' = [login EXCEPT ![w] = "none"]
    /\ current' = IF current = w THEN NoWalk ELSE current

LoginAborted(w) ==
    Resumed(w, [v \in Walks |-> Refused(v, Stopped(v))]) /\ LoginOver(w)

(* Aborting destroys the request in flight, and the poll of a login if it  *)
(* is this query that runs it.  Between pages it is only noticed later.    *)
AbortWalk(w, why) ==
    /\ walk[w].stage \in {"sent", "login", "page"} /\ walk[w].stop = "no"
    /\ why \in {"user"} \cup (IF engine = "trino" THEN {"timer"} ELSE {})
    /\ LET noted == [walk[w] EXCEPT !.stop = why]
           code == IF why = "timer" THEN "timeout" ELSE "cancelled"
       IN  \/ /\ walk[w].stage = "sent"
              /\ Becomes(w, [Unwound(w, code, TRUE) EXCEPT !.stop = why])
              /\ UNCHANGED <<login, current>>
           \/ /\ walk[w].stage = "page" \/ login[w] # "polling"
              /\ walk[w].stage # "sent"
              /\ Becomes(w, noted)
              /\ UNCHANGED <<login, current>>
           \/ /\ walk[w].stage = "login" /\ login[w] = "polling"
              /\ walk' = [v \in Walks |-> IF v = w THEN [Refused(w, code) EXCEPT !.stop = why]
                                          ELSE IF walk[v].on = w THEN Refused(v, Stopped(v)) ELSE walk[v]]
              /\ LoginOver(w)
    /\ UNCHANGED <<engine, alive, token, kept>>

(* Mutant of Joined: every 401 opens a browser of its own.                 *)
JoinedNever(w) == w

(* reauthenticate: this.login, if there is one, else a login of its own.   *)
Joined(w) == IF current # NoWalk THEN current ELSE w

Unauthorised(w) ==
    /\ engine = "trino" /\ walk[w].stage = "sent" /\ walk[w].with # "good"
    /\ IF walk[w].retried
       THEN Becomes(w, Refused(w, "auth")) /\ UNCHANGED <<login, current>>
       ELSE /\ Becomes(w, [walk[w] EXCEPT !.stage = "login", !.on = Joined(w)])
            /\ current' = Joined(w)
            /\ login' = IF Joined(w) = w THEN [login EXCEPT ![w] = "asking"] ELSE login
    /\ UNCHANGED <<engine, alive, token, kept>>

(* The human went to the page; or declined, or the broker's timer ran out. *)
Asked(w, opened) ==
    /\ login[w] = "asking"
    /\ \/ opened /\ walk[w].stop = "no" /\ login' = [login EXCEPT ![w] = "polling"] /\ UNCHANGED <<current, walk>>
       \/ opened /\ walk[w].stop # "no" /\ LoginAborted(w)
       \/ ~opened /\ LoginOver(w) /\ Resumed(w, [v \in Walks |-> Refused(v, "auth")])
    /\ UNCHANGED <<engine, alive, token, kept>>

(* pollToken has the token, and it is remembered; every waiter retries     *)
(* once.  Or the login failed, or ran out of attempts.                     *)
Polled(w, granted) ==
    /\ login[w] = "polling" /\ LoginOver(w)
    /\ token' = IF granted THEN "good" ELSE token
    /\ LET Retried(v) == IF walk[v].stop = "no" THEN [walk[v] EXCEPT !.stage = "sent", !.with = "good", !.on = NoWalk, !.retried = TRUE]
                         ELSE Refused(v, Stopped(v))
       IN  Resumed(w, [v \in Walks |-> IF granted THEN Retried(v) ELSE Refused(v, "auth")])
    /\ UNCHANGED <<engine, alive, kept>>

TokenExpires == engine = "trino" /\ token = "good" /\ token' = "stale" /\ UNCHANGED <<engine, alive, login, current, walk, kept>>

(* takeRows, and the slice by room: at most the rows the limit still allows*)
Taken(w, rows) ==
    LET room == walk[w].limit - walk[w].taken IN IF rows <= room THEN rows ELSE room

(* A page arrives: its rows are yielded, up to the limit.                  *)
PageArrives(w, rows, more) ==
    /\ walk[w].stage = "sent" /\ walk[w].with = "good" /\ walk[w].form = "sql"
    /\ kept[w].pages < MaxPages /\ (more => kept[w].pages + 1 < MaxPages)
    /\ kept' = [kept EXCEPT ![w] = [pages |-> @.pages + 1, state |-> IF more THEN "open" ELSE "over"]]
    /\ Becomes(w, [walk[w] EXCEPT !.stage = "page", !.more = more, !.taken = @ + Taken(w, rows),
                                  !.retried = FALSE, !.truncated = @ \/ Taken(w, rows) < rows,
                                  !.missed = @ \/ Taken(w, rows) < rows])
    /\ UNCHANGED <<engine, alive, token, login, current>>

(* hits.total: how many documents match.  A cluster that stopped counting, *)
(* or was told not to count, names no more than it has sent.               *)
TotalOf(hits, matching, counted) == IF counted THEN matching ELSE hits

HitsArrive(w, hits, matching, counted) ==
    /\ walk[w].stage = "sent" /\ walk[w].form = "search" /\ hits <= matching
    /\ kept' = [kept EXCEPT ![w] = [pages |-> 1, state |-> "over"]]
    /\ Becomes(w, [walk[w] EXCEPT !.stage = "page", !.taken = Taken(w, hits), !.form = IF counted THEN @ ELSE "uncounted",
                                  !.truncated = Taken(w, hits) < TotalOf(hits, matching, counted),
                                  !.missed = Taken(w, hits) < matching])
    /\ UNCHANGED <<engine, alive, token, login, current>>

(* Trino: the page holds an error, or the coordinator answered with one.   *)
PageFailed(w) ==
    /\ engine = "trino" /\ walk[w].stage = "sent" /\ walk[w].with = "good"
    /\ kept' = [kept EXCEPT ![w].state = "over"]
    /\ Becomes(w, Unwound(w, "sql", FALSE))
    /\ UNCHANGED <<engine, alive, token, login, current>>

(* elasticError: what the status says.                                     *)
ClusterRefuses(w, code) ==
    /\ engine = "elastic" /\ walk[w].stage = "sent" /\ code \in {"sql", "auth", "network", "timeout"}
    /\ kept' = [kept EXCEPT ![w].state = IF kept[w].pages = 0 THEN "over" ELSE @]
    /\ Becomes(w, Unwound(w, code, FALSE))
    /\ UNCHANGED <<engine, alive, token, login, current>>

(* No answer came; the engine may have started on the query all the same.  *)
Unanswered(w, started) ==
    /\ walk[w].stage = "sent"
    /\ kept' = IF started /\ kept[w].pages = 0 THEN [kept EXCEPT ![w].state = "open"] ELSE kept
    /\ Becomes(w, Unwound(w, "network", TRUE))
    /\ UNCHANGED <<engine, alive, token, login, current>>

(* The connection broke, or one hop took too long.                         *)
RequestLost(w, started) == engine = "trino" /\ Unanswered(w, started)

(* fetch failed; a search leaves nothing open.                             *)
SendFails(w, started) ==
    engine = "elastic" /\ (started => walk[w].form = "sql") /\ Unanswered(w, started)

(* Mutant of Owed: reaching the limit leaves the engine at work.           *)
OwedUnlessLimited(w) == walk[w].more /\ walk[w].stop # "no"

(* Between two pages: must the engine be told that the rest is not wanted? *)
Owed(w) == walk[w].more /\ (walk[w].stop # "no" \/ walk[w].taken >= walk[w].limit)

(* Trino: no next page, a stop, the limit, or the next request.  The DELETE*)
(* is sent and forgotten.                                                  *)
NextTrino(w, reached) ==
    /\ engine = "trino" /\ walk[w].stage = "page"
    /\ LET stopped == walk[w].more /\ walk[w].stop # "no"
           full == walk[w].more /\ ~stopped /\ walk[w].taken >= walk[w].limit
           over == [EndsWith(w, IF stopped THEN Stopped(w) ELSE "ok") EXCEPT !.truncated = @ \/ full]
       IN  /\ Becomes(w, IF walk[w].more /\ ~stopped /\ ~full THEN Sent(w) ELSE over)
           /\ kept' = IF Owed(w) THEN [kept EXCEPT ![w].state = IF reached THEN "dropped" ELSE "unheard"] ELSE kept
    /\ UNCHANGED <<engine, alive, token, login, current>>

(* The finally of the cursor walk: the cursor of the last page, if any.    *)
ClosesAfter(w) == walk[w].more

NextElastic(w) ==
    /\ engine = "elastic" /\ walk[w].stage = "page"
    /\ LET full == walk[w].taken >= walk[w].limit
           ended == ~walk[w].more \/ full
           code == IF ended THEN "ok" ELSE IF ~alive THEN "internal" ELSE "cancelled"
       IN  Becomes(w, IF ended \/ ~alive \/ walk[w].stop # "no"
                      THEN Over([walk[w] EXCEPT !.stage = IF ClosesAfter(w) THEN "closing" ELSE "done", !.code = code,
                                                !.truncated = @ \/ (full /\ walk[w].more)])
                      ELSE Sent(w))
    /\ UNCHANGED <<engine, alive, token, login, current, kept>>

(* closeCursor: on a closed session it throws before it sends; whatever    *)
(* fails is only logged.                                                   *)
CursorClosed(w, reached) ==
    /\ walk[w].stage = "closing" /\ (reached => alive)
    /\ kept' = [kept EXCEPT ![w].state = IF reached THEN "dropped" ELSE IF alive THEN "unheard" ELSE @]
    /\ Becomes(w, EndsWith(w, walk[w].code))
    /\ UNCHANGED <<engine, alive, token, login, current>>

(* The daemon failed to write the chunk and never pulls again.             *)
Abandoned(w) ==
    /\ walk[w].stage = "page" /\ Becomes(w, [walk[w] EXCEPT !.stage = "forgotten"])
    /\ UNCHANGED <<engine, alive, token, login, current, kept>>

CloseFeed ==
    /\ alive /\ alive' = FALSE
    /\ token' = IF engine = "trino" THEN "none" ELSE token
    /\ UNCHANGED <<engine, login, current, walk, kept>>

Answered(w) ==
    /\ walk[w].stage = "sent"
    /\ \/ Unauthorised(w) \/ PageFailed(w)
       \/ \E rows \in 0..PageRows, more \in BOOLEAN : PageArrives(w, rows, more)
       \/ \E hits, matching \in 0..PageRows, counted \in BOOLEAN : HitsArrive(w, hits, matching, counted)
       \/ \E code \in {"sql", "auth", "network", "timeout"} : ClusterRefuses(w, code)
       \/ \E started \in BOOLEAN : RequestLost(w, started) \/ SendFails(w, started)
LoginMoves(w) == login[w] # "none" /\ \E b \in BOOLEAN : Asked(w, b) \/ Polled(w, b)
Pulled(w) ==
    /\ walk[w].stage \in {"page", "closing"}
    /\ NextElastic(w) \/ (\E reached \in BOOLEAN : NextTrino(w, reached) \/ CursorClosed(w, reached))

PagedNext ==
    \/ \E w \in Walks : \/ \E limit \in RowLimits : StartWalk(w, limit) \/ \E parses \in BOOLEAN : Search(w, limit, parses)
                        \/ \E why \in {"user", "timer"} : AbortWalk(w, why)
                        \/ Answered(w) \/ LoginMoves(w) \/ Pulled(w) \/ Abandoned(w)
    \/ TokenExpires \/ CloseFeed

(* A hop is answered or times out (REQUEST_TIMEOUT_MS), a login has 60     *)
(* attempts and the broker's timer, and the daemon pulls.                  *)
PagedFair == \A w \in Walks : WF_pagedVars(Answered(w) \/ LoginMoves(w) \/ Pulled(w))

PagedSpec == PagedInit /\ [][PagedNext]_pagedVars /\ PagedFair

(* trino.ts:146-154, 296-351, elasticsearch.ts:391-447: never more rows    *)
(* than asked for, and a result that does not say it is cut is whole: but  *)
(* for a search whose matches the cluster did not count to the end.        *)
RowsAreAccountedFor ==
    \A w \in Walks : /\ walk[w].taken <= walk[w].limit
                     /\ walk[w].code = "ok" /\ ~walk[w].truncated => ~(walk[w].missed /\ walk[w].form # "uncounted") /\ kept[w].state = "over"

(* trino.ts:337-346: the coordinator works on for nobody only if a request *)
(* was in flight, or refused, when the walk ended.                         *)
CoordinatorIsTold ==
    engine = "trino" => \A w \in Walks : walk[w].stage = "done" /\ kept[w].state = "open" => walk[w].lost

(* elasticsearch.ts:412-417: every cursor a walk was given is closed,      *)
(* unless a request failed or the session was closed under it.             *)
CursorsAreClosed ==
    engine = "elastic" => \A w \in Walks :
        walk[w].stage = "done" /\ kept[w].state = "open" => walk[w].lost \/ ~alive

(* trino.ts:658: queries that meet a 401 while somebody logs in share that *)
(* login.                                                                  *)
OneBrowser == Cardinality({w \in Walks : login[w] # "none"}) <= 1

(* A query is reported cancelled without having been stopped only when it  *)
(* shared the login of one that was (trino.ts:659, 687).                   *)
CancelIsSomebodys ==
    \A w \in Walks : walk[w].code = "cancelled" /\ walk[w].stop # "user" =>
        engine = "trino" /\ \E v \in Walks \ {w} : walk[v].stop # "no"

(* An abort ends the walk, whatever it was waiting for.                    *)
AbortedWalksEnd == \A w \in Walks : walk[w].stop # "no" ~> walk[w].stage \in {"done", "forgotten"}

(* capabilities.ts:31: a server-side cancel is one where "we can tell the  *)
(* engine to abandon the query (Trino DELETE, ...)".                       *)
CancelReachesTheServer ==
    engine = "trino" => \A w \in Walks :
        walk[w].code = "cancelled" /\ walk[w].stop = "user" => kept[w].state # "open"

(* A walk accounts for its rows and leaves nothing open on the engine, in  *)
(* whatever way it ends (trino.ts:284-352, elasticsearch.ts:371-420).      *)
PagedSafe == PagedTypeOK /\ RowsAreAccountedFor /\ CoordinatorIsTold /\ CursorsAreClosed

(* A login is one browser window, and its cancel reaches only who shares it*)
(* (trino.ts:658-668).                                                     *)
LoginsAreShared == OneBrowser /\ CancelIsSomebodys
=============================================================================
