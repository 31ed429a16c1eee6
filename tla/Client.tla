------------------------------- MODULE Client ------------------------------
(***************************************************************************)
(* The client library (client/src/index.ts): one socket, reopened by the   *)
(* next request after it is lost; requests that wait for an answer; and    *)
(* the daemon's questions, answered one at a time.  A daemon that is       *)
(* replaced counts its questions from one again.                           *)
(***************************************************************************)
EXTENDS Naturals, Sequences, Functions

CONSTANTS Requests,
          MaxLife,      \* bound: sockets the client opens
          MaxQuestion   \* bound: questions a daemon asks

ASSUME ClientAssumption == {MaxLife, MaxQuestion} \subseteq Nat \ {0}

VARIABLES
    life,     \* which socket it is, or is to be
    sock,     \* the socket, 0 for none
    phase,    \* of open: "idle", "opening" or "greeting"
    hello,    \* the socket has been greeted
    shut,     \* close has been called
    call,     \* call[r]: a request
    queue,    \* questions waiting for their turn
    asking,   \* the question the handler is showing, or NoQuestion
    settled,  \* ids of questions the daemon has closed
    open,     \* questions the running daemon has open
    asked     \* how many it has asked

clientVars == <<life, sock, phase, hello, shut, call, queue, asking, settled, open, asked>>
linkVars == <<life, sock, phase, hello, shut, call>>
questionVars == <<queue, asking, settled, open, asked>>

(* A question: the socket it came by, its id, and whether the queue then   *)
(* held, or the human was shown, one that came by a socket before.         *)
Question == [by : 1..MaxLife, id : 1..MaxQuestion, mixed : BOOLEAN]
NoQuestion == [by |-> 0, id |-> 0, mixed |-> FALSE]

ClientTypeOK ==
    /\ life \in 1..MaxLife /\ sock \in {0, life} /\ phase \in {"idle", "opening", "greeting"}
    /\ hello \in BOOLEAN /\ shut \in BOOLEAN
    /\ call \in [Requests -> [stage : {"idle", "waiting", "sent", "ok", "failed"}, on : 0..MaxLife]]
    /\ queue \in Seq(Question) /\ asking \in Question \cup {NoQuestion}
    /\ settled \subseteq 1..MaxQuestion /\ open \subseteq 1..MaxQuestion /\ asked \in 0..MaxQuestion
    /\ phase = "greeting" => sock # 0

(* connect() has returned: the socket is open and greeted.                 *)
ClientInit ==
    /\ life = 1 /\ sock = 1 /\ phase = "idle" /\ hello = TRUE /\ shut = FALSE
    /\ call = [r \in Requests |-> [stage |-> "idle", on |-> 0]]
    /\ queue = <<>> /\ asking = NoQuestion /\ settled = {} /\ open = {} /\ asked = 0

Where(stage) == {r \in Requests : call[r].stage = stage}
Settle(rs, stage) == call' = [r \in Requests |-> IF r \in rs THEN [stage |-> stage, on |-> 0] ELSE call[r]]

(* send: refused when closed, written to the socket there is, or waiting   *)
(* for the reopening that is under way.                                    *)
Send(r) ==
    /\ call[r].stage = "idle"
    /\ \/ shut /\ Settle({r}, "failed") /\ UNCHANGED phase
       \/ ~shut /\ sock # 0 /\ call' = [call EXCEPT ![r] = [stage |-> "sent", on |-> sock]] /\ UNCHANGED phase
       \/ ~shut /\ sock = 0 /\ call' = [call EXCEPT ![r].stage = "waiting"]
          /\ phase' = IF phase = "idle" THEN "opening" ELSE phase
    /\ UNCHANGED <<life, sock, hello, shut, questionVars>>

(* hello is written in the turn that sets the socket; a closed client's is *)
(* refused, but its socket is open.                                        *)
GreetedAtOnce == ~shut

Opened ==
    /\ phase = "opening"
    /\ sock' = life /\ settled' = {}
    /\ hello' = GreetedAtOnce
    /\ IF shut THEN phase' = "idle" /\ Settle(Where("waiting"), "failed")
       ELSE phase' = "greeting" /\ UNCHANGED call
    /\ UNCHANGED <<life, shut, queue, asking, open, asked>>

(* No daemon, or it did not start.                                         *)
OpenFails ==
    /\ phase = "opening" /\ phase' = "idle"
    /\ Settle(Where("waiting"), "failed")
    /\ UNCHANGED <<life, sock, hello, shut, questionVars>>

(* The answer to hello: whoever waited is sent on; or hello was refused.   *)
Welcomed(accepted) ==
    /\ phase = "greeting" /\ phase' = "idle"
    /\ call' = [r \in Requests |->
                  IF call[r].stage # "waiting" THEN call[r]
                  ELSE IF accepted /\ ~shut THEN [stage |-> "sent", on |-> sock] ELSE [stage |-> "failed", on |-> 0]]
    /\ UNCHANGED <<life, sock, hello, shut, questionVars>>

(* Mutant of Lost: only the greeting is told that the socket is gone.      *)
LostGreeting == IF phase = "greeting" THEN Where("waiting") ELSE {}

(* fail(): requests in flight are not replayed; they fail, and with the    *)
(* greeting everything that waits for it.                                  *)
Lost == Where("sent") \cup (IF phase = "greeting" THEN Where("waiting") ELSE {})

PhaseAfterLoss == IF phase = "greeting" THEN "idle" ELSE phase

(* The socket is lost: the daemon exits and another takes its place, or    *)
(* only the connection breaks.                                             *)
SocketLost(replaced) ==
    /\ sock # 0 /\ sock' = 0 /\ hello' = FALSE
    /\ phase' = PhaseAfterLoss
    /\ Settle(Lost, "failed")
    /\ life < MaxLife /\ life' = life + 1
    /\ \/ replaced /\ open' = {} /\ asked' = 0
       \/ ~replaced /\ UNCHANGED <<open, asked>>
    /\ UNCHANGED <<shut, queue, asking, settled>>

Respond(r) ==
    /\ call[r].stage = "sent" /\ call[r].on = sock /\ Settle({r}, "ok")
    /\ UNCHANGED <<life, sock, phase, hello, shut, questionVars>>

Shut == ~shut /\ shut' = TRUE /\ UNCHANGED <<life, sock, phase, hello, call, questionVars>>

(* An interaction event.                                                   *)
Ask ==
    /\ sock # 0 /\ hello /\ asked < MaxQuestion
    /\ asked' = asked + 1 /\ open' = open \cup {asked + 1}
    /\ queue' = Append(queue, [by |-> life, id |-> asked + 1,
                               mixed |-> (\E q \in Range(queue) \cup {asking} : q.by \notin {0, life})])
    /\ UNCHANGED <<linkVars, asking, settled>>

(* Mutant of Noted: the event is only shown, not remembered.               *)
NotedNever(id) == settled

(* interactionClosed: somebody else answered, or nobody did in time.       *)
Noted(id) == settled \cup {id}

Closed(id) ==
    /\ sock # 0 /\ id \in open
    /\ open' = open \ {id} /\ settled' = Noted(id)
    /\ UNCHANGED <<linkVars, queue, asking, asked>>

(* answer(): one that is settled is skipped, the next one is shown.        *)
TakeNext ==
    /\ asking = NoQuestion /\ queue # <<>>
    /\ queue' = Tail(queue)
    /\ IF Head(queue).id \in settled
       THEN settled' = settled \ {Head(queue).id} /\ UNCHANGED asking
       ELSE asking' = Head(queue) /\ UNCHANGED settled
    /\ UNCHANGED <<linkVars, open, asked>>

(* reply: to the socket of now, whoever asked.                             *)
Reply ==
    /\ asking # NoQuestion /\ asking' = NoQuestion
    /\ open' = IF sock # 0 THEN open \ {asking.id} ELSE open
    /\ UNCHANGED <<linkVars, queue, settled, asked>>

ClientNext ==
    \/ \E r \in Requests : Send(r) \/ Respond(r)
    \/ Opened \/ OpenFails \/ Shut \/ Ask \/ TakeNext \/ Reply
    \/ \E b \in BOOLEAN : Welcomed(b) \/ SocketLost(b)
    \/ \E id \in 1..MaxQuestion : Closed(id)

(* The daemon answers or goes away.                                        *)
ClientFair ==
    /\ WF_clientVars(Opened \/ OpenFails) /\ WF_clientVars(\E b \in BOOLEAN : Welcomed(b))
    /\ \A r \in Requests : WF_clientVars(Respond(r))

ClientSpec == ClientInit /\ [][ClientNext]_clientVars /\ ClientFair

(* index.ts:156-182: whatever is written to a socket comes after its hello.*)
HelloComesFirst == \A r \in Where("sent") : call[r].on = sock /\ hello

(* index.ts:301-308: no request outlives the socket it was written to, or  *)
(* the opening it waits for.                                               *)
NothingStaysPending == \A r \in Requests : /\ call[r].stage = "sent" => sock # 0
                                           /\ call[r].stage = "waiting" => phase # "idle"

(* index.ts:261-264: a question is put to the human only while it is open, *)
(* unless it came by a lost socket or was queued behind one that did.      *)
OnlyOpenQuestionsAreShown ==
    [][asking' # asking /\ asking' # NoQuestion /\ asking'.by = sock /\ ~asking'.mixed => asking'.id \in open]_clientVars

CallsSettle == \A r \in Requests : call[r].stage \in {"waiting", "sent"} ~> call[r].stage \in {"ok", "failed"}

(* A call is on a greeted socket or waits for one: it cannot be forgotten  *)
(* (index.ts:156-208, 301-308).                                            *)
ClientSafe == HelloComesFirst /\ NothingStaysPending
=============================================================================
