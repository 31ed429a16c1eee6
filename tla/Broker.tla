------------------------------- MODULE Broker -------------------------------
(***************************************************************************)
(* The daemon's interaction broker (daemon/src/broker.ts): it owns no      *)
(* human, so when a connect needs a password, a passphrase or a browser it *)
(* asks the clients that are attached right now and takes the first real   *)
(* answer.  Every method below runs to completion on the event loop, so    *)
(* each is one action.                                                     *)
(***************************************************************************)
EXTENDS Naturals, Sequences, FiniteSets

CONSTANTS Clients,    \* ids of the connections the server ever accepts
          NoClient,   \* "answered by nobody"
          MaxAsks     \* bound: interaction ids handed out

ASSUME BrokerAssumption == MaxAsks \in Nat /\ NoClient \notin Clients

Ids == 1..MaxAsks

ClientRole == {"ui", "tty", "agent", "headless"}
Kinds == {"secret", "unlock", "browser"}

canAnswerSecrets(r) == r \in {"ui", "tty"}
canRelayBrowser(r) == r # "headless"

(* Mutant of Eligible: the passphrase prompt goes to whoever may relay a   *)
(* URL.                                                                    *)
EligibleUnlockLikeBrowser(kind, r) == IF kind = "secret" THEN canAnswerSecrets(r) ELSE canRelayBrowser(r)

(* The predicate askSecret, askUnlock and askBrowser pass to ask.          *)
Eligible(kind, r) == IF kind = "browser" THEN canRelayBrowser(r) ELSE canAnswerSecrets(r)

VARIABLES
    attached,    \* the keys of Broker.clients
    gone,        \* connections that closed; the server never reuses an id
    role,        \* role[c], "headless" until its hello says otherwise
    pending,     \* the keys of Broker.pending
    detail,      \* detail[i]: the kind of interaction i
    asked,       \* asked[i], declined[i]: the sets Pending keeps
    declined,
    timers,      \* interactions whose setTimeout is armed
    nextId,
    sent,        \* sent[c]: the events written to c's socket, in order
    outcome,     \* outcome[i]: what became of the promise of interaction i
    answeredBy   \* answeredBy[i]: whose value it resolved with

registry == <<attached, gone, role>>
vars == <<registry, pending, detail, asked, declined, timers, nextId, sent,
          outcome, answeredBy>>

Failures == {"nobody", "declined", "timeout"}
Outcomes == {"unasked", "waiting", "answered"} \cup Failures
Events == [event : {"interaction", "interactionClosed"}, id : Ids]

TypeOK ==
    /\ attached \subseteq Clients /\ gone \subseteq Clients
    /\ attached \cap gone = {}
    /\ role \in [Clients -> ClientRole]
    /\ pending \subseteq Ids /\ timers \subseteq Ids
    /\ detail \in [Ids -> Kinds]
    /\ asked \in [Ids -> SUBSET Clients]
    /\ declined \in [Ids -> SUBSET Clients]
    /\ nextId \in 1..(MaxAsks + 1)
    /\ sent \in [Clients -> Seq(Events)]
    /\ outcome \in [Ids -> Outcomes]
    /\ answeredBy \in [Ids -> Clients \cup {NoClient}]

Init ==
    /\ attached = {} /\ gone = {}
    /\ role = [c \in Clients |-> "headless"]
    /\ pending = {} /\ timers = {}
    /\ detail = [i \in Ids |-> "secret"]
    /\ asked = [i \in Ids |-> {}]
    /\ declined = [i \in Ids |-> {}]
    /\ nextId = 1
    /\ sent = [c \in Clients |-> <<>>]
    /\ outcome = [i \in Ids |-> "unasked"]
    /\ answeredBy = [i \in Ids |-> NoClient]

Interaction(i) == [event |-> "interaction", id |-> i]
InteractionClosed(i) == [event |-> "interactionClosed", id |-> i]

(* Write e to the socket of every client in who.                           *)
Send(who, e) == sent' = [c \in Clients |-> IF c \in who THEN Append(sent[c], e) ELSE sent[c]]

(* Mutant of Settle: a client that declined is not told to stop asking.    *)
SettleSkipsDecliners(i, how) ==
    /\ pending' = pending \ {i}
    /\ timers' = timers \ {i}
    /\ Send((asked[i] \ declined[i]) \cap attached, InteractionClosed(i))
    /\ outcome' = [outcome EXCEPT ![i] = how]

(* settle: forget i, clear its timer, tell every client still asked that   *)
(* is still attached, and finish the promise.                              *)
Settle(i, how) ==
    /\ pending' = pending \ {i}
    /\ timers' = timers \ {i}
    /\ Send(asked[i] \cap attached, InteractionClosed(i))
    /\ outcome' = [outcome EXCEPT ![i] = how]

(* hello: the connection takes its role and joins the broker.              *)
Attach(c, r) ==
    /\ c \notin attached \cup gone
    /\ attached' = attached \cup {c}
    /\ role' = [role EXCEPT ![c] = r]
    /\ UNCHANGED <<gone, pending, detail, asked, declined, timers, nextId, sent,
                   outcome, answeredBy>>

(* Interactions a departure leaves with nobody on the asked list.          *)
Orphaned(c) == {i \in pending : asked[i] = {c}}

(* The socket closed.  An orphaned interaction fails through settle, which *)
(* finds no asked client left to tell.                                     *)
Detach(c) ==
    /\ c \in attached
    /\ attached' = attached \ {c}
    /\ gone' = gone \cup {c}
    /\ asked' = [i \in Ids |-> IF i \in pending THEN asked[i] \ {c} ELSE asked[i]]
    /\ pending' = pending \ Orphaned(c)
    /\ timers' = timers \ Orphaned(c)
    /\ outcome' = [i \in Ids |-> IF i \in Orphaned(c) THEN "nobody" ELSE outcome[i]]
    /\ UNCHANGED <<role, detail, declined, nextId, sent, answeredBy>>

Audience(kind) == {c \in attached : Eligible(kind, role[c])}

(* Mutant of Ask: no timer is armed.                                       *)
AskUntimed(kind) ==
    /\ nextId <= MaxAsks
    /\ Audience(kind) # {}
    /\ nextId' = nextId + 1
    /\ pending' = pending \cup {nextId}
    /\ detail' = [detail EXCEPT ![nextId] = kind]
    /\ asked' = [asked EXCEPT ![nextId] = Audience(kind)]
    /\ outcome' = [outcome EXCEPT ![nextId] = "waiting"]
    /\ Send(Audience(kind), Interaction(nextId))
    /\ UNCHANGED <<registry, timers, declined, answeredBy>>

(* ask: a fresh id, a timer, one prompt per client.  With nobody to ask it *)
(* is rejected on the spot, before an id is taken, and nothing changes.    *)
Ask(kind) ==
    /\ nextId <= MaxAsks
    /\ Audience(kind) # {}
    /\ nextId' = nextId + 1
    /\ pending' = pending \cup {nextId}
    /\ timers' = timers \cup {nextId}
    /\ detail' = [detail EXCEPT ![nextId] = kind]
    /\ asked' = [asked EXCEPT ![nextId] = Audience(kind)]
    /\ outcome' = [outcome EXCEPT ![nextId] = "waiting"]
    /\ Send(Audience(kind), Interaction(nextId))
    /\ UNCHANGED <<registry, declined, answeredBy>>

(* Mutant of MayReply: one from a client that was not asked is taken.      *)
MayReplyUnasked(c, i) == i \in pending

(* The test at the top of reply; a reply that fails it changes nothing.    *)
MayReply(c, i) == i \in pending /\ c \in asked[i]

Answer(c, i) ==
    /\ MayReply(c, i)
    /\ Settle(i, "answered")
    /\ answeredBy' = [answeredBy EXCEPT ![i] = c]
    /\ UNCHANGED <<registry, detail, asked, declined, nextId>>

(* The count reply makes: declined.size >= asked.size.                     *)
AllDeclined(i, c) == Cardinality(declined[i] \cup {c}) >= Cardinality(asked[i])

(* A decline that is not the last one is only noted down.                  *)
DeclineNoted(c, i) ==
    /\ MayReply(c, i) /\ ~AllDeclined(i, c)
    /\ declined' = [declined EXCEPT ![i] = @ \cup {c}]
    /\ UNCHANGED <<registry, pending, detail, asked, timers, nextId, sent,
                   outcome, answeredBy>>

DeclineFails(c, i) ==
    /\ MayReply(c, i) /\ AllDeclined(i, c)
    /\ declined' = [declined EXCEPT ![i] = @ \cup {c}]
    /\ Settle(i, "declined")
    /\ UNCHANGED <<registry, detail, asked, nextId, answeredBy>>

(* The setTimeout of ask fires; settle ignores an interaction that is no   *)
(* longer pending.                                                         *)
Timeout(i) ==
    /\ i \in timers
    /\ IF i \in pending
       THEN Settle(i, "timeout")
       ELSE timers' = timers \ {i} /\ UNCHANGED <<pending, sent, outcome>>
    /\ UNCHANGED <<registry, detail, asked, declined, nextId, answeredBy>>

Next ==
    \/ \E c \in Clients, r \in ClientRole : Attach(c, r)
    \/ \E c \in Clients : Detach(c)
    \/ \E kind \in Kinds : Ask(kind)
    \/ \E c \in Clients, i \in Ids : Answer(c, i) \/ DeclineNoted(c, i) \/ DeclineFails(c, i)
    \/ \E i \in Ids : Timeout(i)

Spec == Init /\ [][Next]_vars

(* Only the timers are fair: nobody has to answer, leave or arrive.        *)
FairSpec == Spec /\ \A i \in Ids : WF_vars(Timeout(i))

-----------------------------------------------------------------------------
(* Properties *)

Prompted(c, i) == \E k \in DOMAIN sent[c] : sent[c][k] = Interaction(i)
ToldClosed(c, i) == \E k \in DOMAIN sent[c] : sent[c][k] = InteractionClosed(i)

(* A password or passphrase prompt is only ever put in front of a window   *)
(* or a terminal, and only an answer from one is ever taken; a login URL   *)
(* never reaches a headless script (broker.ts:8-15).                       *)
SecretsStayWithHumans ==
    \A i \in Ids, c \in Clients :
        Prompted(c, i) \/ answeredBy[i] = c =>
            /\ detail[i] \in {"secret", "unlock"} => role[c] \in {"ui", "tty"}
            /\ role[c] # "headless"

(* A prompt is still up somewhere only while its question is open: every   *)
(* attached client that was prompted for a settled interaction has been    *)
(* told to stop asking, those that declined it included.                   *)
NoPromptOutlivesItsQuestion ==
    \A c \in attached, i \in Ids :
        Prompted(c, i) /\ i \notin pending => ToldClosed(c, i)

(* While an interaction is open somebody attached was asked, its timer is  *)
(* running and its promise is undecided: no connect waits on a question    *)
(* nobody can see, and none is left without a deadline.                    *)
OpenQuestionsAreAnswerable ==
    \A i \in Ids :
        /\ i \in pending <=> outcome[i] = "waiting"
        /\ i \in pending => /\ asked[i] # {}
                            /\ asked[i] \subseteq attached
                            /\ i \in timers

(* A settled promise is never settled again, by a second answer, a late    *)
(* decline, a departure or a timer that was not cleared.                   *)
SettledOnce ==
    [][\A i \in Ids : outcome[i] \notin {"unasked", "waiting"} =>
          outcome'[i] = outcome[i] /\ answeredBy'[i] = answeredBy[i]]_vars

(* "Nobody is available" is only said when the departing client was the    *)
(* only one left of those that were prompted.                              *)
NobodyMeansNobody ==
    [][\A i \in Ids : outcome[i] = "waiting" /\ outcome'[i] = "nobody" =>
          \A c \in attached' : ~Prompted(c, i)]_vars

(* "Every attached client declined" is only said when each client that is  *)
(* still attached and was prompted has declined (broker.test.ts:105).      *)
DeclinedMeansEveryone ==
    [][\A i \in Ids : outcome[i] = "waiting" /\ outcome'[i] = "declined" =>
          asked[i] \subseteq declined'[i]]_vars

-----------------------------------------------------------------------------
(* Refinement: the broker implements Interaction.                          *)

Promise == INSTANCE Interaction WITH
    status <- [i \in Ids |-> IF outcome[i] \in Failures THEN "failed" ELSE outcome[i]],
    audience <- asked

(* One audience, one outcome, an answer only from the audience, and an     *)
(* interaction that loses its last client fails in that very step.         *)
PromiseKept == Promise!ASpec

(* Every interaction is settled, so the connect that asked always gets on, *)
(* whatever the people in front of the prompts do.                         *)
EveryQuestionSettles == Promise!ASettles
=============================================================================
