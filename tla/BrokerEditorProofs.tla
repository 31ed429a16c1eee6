------------------------- MODULE BrokerEditorProofs ------------------------
(***************************************************************************)
(* Proofs about who is asked and who is shown: the broker's prompts        *)
(* (Broker), the editor's diagnostics and schema listings (Assist), its    *)
(* results panel (Panel), the connections files its windows edit           *)
(* (Registry) and the texts they are asked to run (SqlText), each for any  *)
(* connections, documents, runs, windows, entries and lengths of text.     *)
(* The parts share no state; each has an inductive invariant of its own,   *)
(* but for SqlText, where everything is said of any text at all.           *)
(***************************************************************************)
EXTENDS Broker, Assist, Panel, Registry, SqlText, Inductions, TLAPS

(* Broker.  The invariant adds to the checked properties what ties a prompt*)
(* that was written to a socket to the record the broker keeps of it:      *)
(* without it nothing says that the client still showing a prompt is one   *)
(* that settle will tell.                                                  *)

(* A connection that has said hello keeps its role from then on.           *)
Known(c) == c \in attached \cup gone

(* The broker's record of each interaction.                                *)
RecordInv ==
    \A i \in Ids :
        /\ outcome[i] = "unasked" <=> i >= nextId
        /\ i \in timers => i \in pending
        /\ \A c \in asked[i] : Known(c) /\ Eligible(detail[i], role[c])
        /\ answeredBy[i] # NoClient <=> outcome[i] = "answered"
        /\ answeredBy[i] # NoClient =>
              Known(answeredBy[i]) /\ Eligible(detail[i], role[answeredBy[i]])

(* What the sockets have been sent.                                        *)
PromptInv ==
    \A c \in Clients, i \in Ids :
        Prompted(c, i) =>
            /\ i < nextId /\ Known(c) /\ Eligible(detail[i], role[c])
            /\ c \in attached /\ i \in pending => c \in asked[i]

IInv ==
    /\ TypeOK
    /\ OpenQuestionsAreAnswerable
    /\ RecordInv
    /\ PromptInv
    /\ NoPromptOutlivesItsQuestion

-----------------------------------------------------------------------------
(* Writing e to the sockets of who adds exactly that event to their logs.  *)
LEMMA SendAdds ==
    ASSUME sent \in [Clients -> Seq(Events)], NEW who, NEW e \in Events, Send(who, e)
    PROVE  /\ sent' \in [Clients -> Seq(Events)]
           /\ \A c \in Clients, i \in Ids :
                 /\ Prompted(c, i)' <=> Prompted(c, i) \/ (c \in who /\ e = Interaction(i))
                 /\ ToldClosed(c, i)' <=>
                        ToldClosed(c, i) \/ (c \in who /\ e = InteractionClosed(i))
<1>1. sent' \in [Clients -> Seq(Events)]
  BY DEF Send
<1>2. ASSUME NEW c \in Clients, NEW x
      PROVE  (\E k \in DOMAIN sent'[c] : sent'[c][k] = x)
                <=> (\E k \in DOMAIN sent[c] : sent[c][k] = x) \/ (c \in who /\ e = x)
  <2>1. CASE c \in who
    <3>1. sent[c] \in Seq(Events) /\ sent'[c] = Append(sent[c], e)
      BY <2>1 DEF Send
    <3>2. /\ DOMAIN sent[c] = 1..Len(sent[c])
          /\ DOMAIN sent'[c] = 1..(Len(sent[c]) + 1)
          /\ Len(sent[c]) \in Nat
          /\ sent'[c][Len(sent[c]) + 1] = e
          /\ \A k \in 1..Len(sent[c]) : sent'[c][k] = sent[c][k]
      BY <3>1
    <3>3. 1..(Len(sent[c]) + 1) = (1..Len(sent[c])) \cup {Len(sent[c]) + 1}
      BY <3>2
    <3> QED BY <2>1, <3>2, <3>3
  <2>2. CASE c \notin who
    BY <2>2 DEF Send
  <2> QED BY <2>1, <2>2
<1> QED BY <1>1, <1>2 DEF Prompted, ToldClosed

LEMMA EventTypes ==
    \A i \in Ids : /\ Interaction(i) \in Events /\ InteractionClosed(i) \in Events
                   /\ \A j \in Ids : Interaction(i) # InteractionClosed(j)
                   /\ \A j \in Ids : Interaction(i) = Interaction(j) <=> i = j
                   /\ \A j \in Ids : InteractionClosed(i) = InteractionClosed(j) <=> i = j
BY DEF Interaction, InteractionClosed, Events

LEMMA InitInv == Init => IInv
<1> SUFFICES ASSUME Init PROVE IInv
  OBVIOUS
<1> USE BrokerAssumption
<1>1. TypeOK
  BY DEF Init, TypeOK, Ids, Outcomes, Kinds, ClientRole
<1>2. \A c \in Clients : DOMAIN sent[c] = {}
  BY DEF Init
<1>3. \A c \in Clients, i \in Ids : ~Prompted(c, i)
  BY <1>2 DEF Prompted
<1>4. OpenQuestionsAreAnswerable /\ RecordInv
  BY DEF Init, OpenQuestionsAreAnswerable, RecordInv, Ids, Known
<1>5. PromptInv
  BY <1>3 DEF PromptInv
<1>6. NoPromptOutlivesItsQuestion
  BY DEF Init, NoPromptOutlivesItsQuestion
<1> QED BY <1>1, <1>4, <1>5, <1>6 DEF IInv

(* Attaching brings in a connection that nothing mentions yet.             *)
LEMMA AttachInv ==
    ASSUME IInv, NEW c \in Clients, NEW r \in ClientRole, Attach(c, r)
    PROVE  IInv'
<1> USE DEF IInv, Attach
<1>1. TypeOK'
  BY DEF TypeOK
<1>2. \A d \in Clients, i \in Ids : Prompted(d, i)' <=> Prompted(d, i)
  BY DEF Prompted
<1>3. \A d \in Clients, i \in Ids : ToldClosed(d, i)' <=> ToldClosed(d, i)
  BY DEF ToldClosed
<1>4. \A d : Known(d) => d # c /\ Known(d)'
  BY DEF Known
<1>5. \A d \in Clients : d # c => role'[d] = role[d]
  BY DEF TypeOK
<1>6. OpenQuestionsAreAnswerable'
  BY DEF OpenQuestionsAreAnswerable
<1>7. \A i \in Ids : \A d \in asked[i] : d \in Clients
  BY DEF TypeOK
<1>8. RecordInv'
  BY <1>4, <1>5, <1>7 DEF RecordInv, TypeOK
<1>9. PromptInv'
  BY <1>2, <1>4, <1>5 DEF PromptInv, Known
<1>10. NoPromptOutlivesItsQuestion'
  BY <1>2, <1>3, <1>4 DEF NoPromptOutlivesItsQuestion, PromptInv, TypeOK
<1> QED BY <1>1, <1>6, <1>8, <1>9, <1>10

(* A departure only takes clients off asked sets; those it empties belong  *)
(* to interactions that fail in the same step.                             *)
LEMMA DetachInv ==
    ASSUME IInv, NEW c \in Clients, Detach(c)
    PROVE  IInv'
<1> USE DEF IInv, Detach
<1>1. TypeOK'
  BY DEF TypeOK, Outcomes, Failures
<1>2. \A d \in Clients, i \in Ids : Prompted(d, i)' <=> Prompted(d, i)
  BY DEF Prompted
<1>3. \A d \in Clients, i \in Ids : ToldClosed(d, i)' <=> ToldClosed(d, i)
  BY DEF ToldClosed
<1>4. \A d : Known(d) <=> Known(d)'
  BY DEF Known
<1>5. OpenQuestionsAreAnswerable'
  BY DEF OpenQuestionsAreAnswerable, Orphaned, TypeOK, Outcomes, Failures
<1>6. RecordInv'
  BY <1>4 DEF RecordInv, TypeOK, Orphaned, OpenQuestionsAreAnswerable
<1>7. PromptInv'
  BY <1>2, <1>4 DEF PromptInv, TypeOK
<1>8. NoPromptOutlivesItsQuestion'
  <2> SUFFICES ASSUME NEW d \in attached', NEW i \in Ids, Prompted(d, i)', i \notin pending'
               PROVE  ToldClosed(d, i)'
    BY DEF NoPromptOutlivesItsQuestion
  <2>1. d \in attached /\ d # c /\ d \in Clients /\ Prompted(d, i)
    BY <1>2 DEF TypeOK
  <2>2. i \notin Orphaned(c)
    BY <2>1 DEF Orphaned, PromptInv
  <2> QED BY <2>1, <2>2, <1>3 DEF NoPromptOutlivesItsQuestion
<1> QED BY <1>1, <1>5, <1>6, <1>7, <1>8

LEMMA AskInv ==
    ASSUME IInv, NEW kind \in Kinds, Ask(kind)
    PROVE  IInv'
<1> USE DEF IInv, Ask, registry
<1> DEFINE n == nextId
<1>1. n \in Ids /\ Audience(kind) \subseteq attached /\ Audience(kind) \subseteq Clients
  BY BrokerAssumption DEF TypeOK, Ids, Audience
<1>2. /\ sent' \in [Clients -> Seq(Events)]
      /\ \A d \in Clients, i \in Ids :
            /\ Prompted(d, i)' <=> Prompted(d, i) \/ (d \in Audience(kind) /\ i = n)
            /\ ToldClosed(d, i)' <=> ToldClosed(d, i)
  <2>1. Interaction(n) \in Events /\ Send(Audience(kind), Interaction(n))
    BY <1>1, EventTypes
  <2> HIDE DEF Ask
  <2> QED BY <1>1, <2>1, SendAdds, EventTypes DEF TypeOK
<1>3. TypeOK'
  BY <1>1, <1>2, BrokerAssumption DEF TypeOK, Ids, Outcomes
<1>4. OpenQuestionsAreAnswerable'
  BY <1>1 DEF OpenQuestionsAreAnswerable, TypeOK
<1>5. \A i \in Ids : i >= nextId' <=> i >= n /\ i # n
  BY <1>1 DEF Ids, TypeOK
<1>6. \A d : Known(d)' <=> Known(d)
  BY DEF Known
<1>7. \A d \in Audience(kind) : Known(d) /\ Eligible(kind, role[d])
  BY DEF Audience, Known
<1>8. \A d \in Clients : ~Prompted(d, n)
  BY <1>1 DEF PromptInv, RecordInv, Ids, TypeOK
<1>9. answeredBy[n] = NoClient
  BY <1>1 DEF RecordInv, TypeOK, Ids
<1>10. RecordInv'
  BY <1>1, <1>5, <1>6, <1>7, <1>9 DEF RecordInv, TypeOK
<1>11. PromptInv'
  BY <1>1, <1>2, <1>5, <1>6, <1>7, <1>8 DEF PromptInv, TypeOK, Ids
<1>12. NoPromptOutlivesItsQuestion'
  BY <1>1, <1>2 DEF NoPromptOutlivesItsQuestion, TypeOK
<1> QED BY <1>3, <1>4, <1>10, <1>11, <1>12

LEMMA DeclineNotedInv ==
    ASSUME IInv, NEW c \in Clients, NEW i \in Ids, DeclineNoted(c, i)
    PROVE  IInv'
<1> USE DEF IInv, DeclineNoted, registry
<1>1. TypeOK'
  BY DEF TypeOK
<1>2. OpenQuestionsAreAnswerable'
  BY DEF OpenQuestionsAreAnswerable
<1>3. RecordInv'
  BY DEF RecordInv, Known
<1>4. PromptInv'
  BY DEF PromptInv, Prompted, Known
<1>5. NoPromptOutlivesItsQuestion'
  BY DEF NoPromptOutlivesItsQuestion, Prompted, ToldClosed
<1> QED BY <1>1, <1>2, <1>3, <1>4, <1>5

(* Answer, DeclineFails and Timeout all end in settle.                     *)
LEMMA SettleInv ==
    ASSUME IInv, NEW i \in pending, NEW how \in Failures \cup {"answered"}, Settle(i, how),
           UNCHANGED <<registry, detail, asked, nextId>>,
           declined' \in [Ids -> SUBSET Clients],
           \/ how # "answered" /\ UNCHANGED answeredBy
           \/ /\ how = "answered"
              /\ \E c \in asked[i] : answeredBy' = [answeredBy EXCEPT ![i] = c]
    PROVE  IInv'
<1> USE DEF IInv, registry
<1>1. i \in Ids /\ asked[i] \subseteq attached /\ outcome[i] = "waiting"
  BY DEF TypeOK, OpenQuestionsAreAnswerable
<1>2. /\ sent' \in [Clients -> Seq(Events)]
      /\ \A d \in Clients, j \in Ids :
            /\ Prompted(d, j)' <=> Prompted(d, j)
            /\ ToldClosed(d, j)' <=>
                  ToldClosed(d, j) \/ (d \in asked[i] \cap attached /\ j = i)
  BY <1>1, SendAdds, EventTypes DEF TypeOK, Settle
<1>3. \A c \in asked[i] : c \in Clients /\ c # NoClient
  BY <1>1, BrokerAssumption DEF TypeOK
<1>4. TypeOK'
  BY <1>1, <1>2, <1>3 DEF TypeOK, Settle, Outcomes, Failures
<1>5. OpenQuestionsAreAnswerable'
  BY <1>1 DEF OpenQuestionsAreAnswerable, Settle, TypeOK, Failures
<1>6. \A d : Known(d)' <=> Known(d)
  BY DEF Known
<1>7. RecordInv'
  BY <1>1, <1>3, <1>6 DEF RecordInv, Settle, TypeOK, Failures
<1>8. PromptInv'
  BY <1>2, <1>6 DEF PromptInv, Settle
<1>9. NoPromptOutlivesItsQuestion'
  BY <1>1, <1>2 DEF NoPromptOutlivesItsQuestion, PromptInv, Settle, TypeOK
<1> QED BY <1>4, <1>5, <1>7, <1>8, <1>9

LEMMA NextInv == IInv /\ [Next]_vars => IInv'
<1> SUFFICES ASSUME IInv, [Next]_vars PROVE IInv'
  OBVIOUS
<1>1. ASSUME NEW c \in Clients, NEW r \in ClientRole, Attach(c, r) PROVE IInv'
  BY <1>1, AttachInv
<1>2. ASSUME NEW c \in Clients, Detach(c) PROVE IInv'
  BY <1>2, DetachInv
<1>3. ASSUME NEW kind \in Kinds, Ask(kind) PROVE IInv'
  BY <1>3, AskInv
<1>4. ASSUME NEW c \in Clients, NEW i \in Ids, Answer(c, i) PROVE IInv'
  <2>1. i \in pending /\ c \in asked[i] /\ Settle(i, "answered")
    BY <1>4 DEF Answer, MayReply
  <2> QED BY <1>4, <2>1, SettleInv DEF Answer, IInv, TypeOK
<1>5. ASSUME NEW c \in Clients, NEW i \in Ids, DeclineNoted(c, i) PROVE IInv'
  BY <1>5, DeclineNotedInv
<1>6. ASSUME NEW c \in Clients, NEW i \in Ids, DeclineFails(c, i) PROVE IInv'
  <2>1. i \in pending /\ Settle(i, "declined") /\ declined' \in [Ids -> SUBSET Clients]
    BY <1>6 DEF DeclineFails, MayReply, IInv, TypeOK
  <2> QED BY <1>6, <2>1, SettleInv DEF DeclineFails, Failures
<1>7. ASSUME NEW i \in Ids, Timeout(i) PROVE IInv'
  <2>1. i \in pending /\ Settle(i, "timeout")
    BY <1>7 DEF Timeout, IInv, RecordInv
  <2> QED BY <1>7, <2>1, SettleInv DEF Timeout, Failures, IInv, TypeOK
<1>8. CASE UNCHANGED vars
  BY <1>8 DEF vars, registry, IInv, TypeOK, OpenQuestionsAreAnswerable, RecordInv, PromptInv,
              NoPromptOutlivesItsQuestion, Known, Prompted, ToldClosed
<1> QED BY <1>1, <1>2, <1>3, <1>4, <1>5, <1>6, <1>7, <1>8 DEF Next

LEMMA Inductive == Spec => []IInv
BY InitInv, NextInv, PTL DEF Spec

-----------------------------------------------------------------------------
(* Every variable keeps to the values broker.ts gives it.                  *)
THEOREM TypeCorrect == Spec => []TypeOK
<1>1. IInv => TypeOK
  BY DEF IInv
<1> QED BY <1>1, Inductive, PTL

(* The rule that matters: no secret is ever asked of, or taken from,       *)
(* anything but a window or a terminal.                                    *)
THEOREM SecretsSafe == Spec => []SecretsStayWithHumans
<1>1. IInv => SecretsStayWithHumans
  <2> SUFFICES ASSUME IInv, NEW i \in Ids, NEW c \in Clients,
                      Prompted(c, i) \/ answeredBy[i] = c
               PROVE  /\ detail[i] \in {"secret", "unlock"} => role[c] \in {"ui", "tty"}
                      /\ role[c] # "headless"
    BY DEF SecretsStayWithHumans
  <2>1. c # NoClient
    BY BrokerAssumption
  <2>2. Eligible(detail[i], role[c])
    BY <2>1 DEF IInv, RecordInv, PromptInv
  <2> QED BY <2>2 DEF Eligible, canAnswerSecrets, canRelayBrowser
<1> QED BY <1>1, Inductive, PTL

(* An open interaction always has an attached client that was asked and a  *)
(* running timer.                                                          *)
THEOREM OpenQuestionsSafe == Spec => []OpenQuestionsAreAnswerable
<1>1. IInv => OpenQuestionsAreAnswerable
  BY DEF IInv
<1> QED BY <1>1, Inductive, PTL

(* No attached client keeps showing the prompt of a settled interaction    *)
(* untold.                                                                 *)
THEOREM PromptsClosed == Spec => []NoPromptOutlivesItsQuestion
<1>1. IInv => NoPromptOutlivesItsQuestion
  BY DEF IInv
<1> QED BY <1>1, Inductive, PTL

-----------------------------------------------------------------------------
(* An interaction is failed for want of an audience only by a departure    *)
(* that leaves no attached client that was prompted for it.                *)
THEOREM NobodyIsTrue == Spec => NobodyMeansNobody
<1> DEFINE Deserted(i) == outcome[i] = "waiting" /\ outcome'[i] = "nobody"
           Alone == \A i \in Ids : Deserted(i) => \A c \in attached' : ~Prompted(c, i)
<1>1. IInv /\ [Next]_vars => [Alone]_vars
  <2> SUFFICES ASSUME IInv, Next PROVE Alone
    OBVIOUS
  <2> USE DEF IInv
  <2>t. outcome \in [Ids -> Outcomes]
    BY DEF TypeOK
  <2>1. ASSUME NEW c \in Clients, Detach(c) PROVE Alone
    <3> SUFFICES ASSUME NEW i \in Ids, Deserted(i), NEW d \in attached', Prompted(d, i)
                 PROVE  FALSE
      OBVIOUS
    <3>1. i \in pending /\ asked[i] = {c}
      BY <2>1, <2>t DEF Detach, Orphaned
    <3>2. d \in attached /\ d # c /\ d \in Clients
      BY <2>1 DEF Detach, TypeOK
    <3>3. d \in asked[i]
      BY <3>1, <3>2 DEF PromptInv
    <3> QED BY <3>1, <3>2, <3>3
  <2>2. ASSUME NEW c \in Clients, NEW r \in ClientRole, Attach(c, r) PROVE Alone
    BY <2>2 DEF Attach
  <2>3. ASSUME NEW kind \in Kinds, Ask(kind) PROVE Alone
    BY <2>3, <2>t DEF Ask
  <2>4. ASSUME NEW i \in Ids, NEW how \in {"answered", "declined", "timeout"}, Settle(i, how)
        PROVE  Alone
    BY <2>4, <2>t DEF Settle
  <2>5. ASSUME NEW c \in Clients, NEW i \in Ids, Answer(c, i) \/ DeclineFails(c, i) PROVE Alone
    BY <2>4, <2>5 DEF Answer, DeclineFails
  <2>6. ASSUME NEW c \in Clients, NEW i \in Ids, DeclineNoted(c, i) PROVE Alone
    BY <2>6 DEF DeclineNoted
  <2>7. ASSUME NEW i \in Ids, Timeout(i) PROVE Alone
    BY <2>4, <2>7 DEF Timeout
  <2> QED BY <2>1, <2>2, <2>3, <2>5, <2>6, <2>7 DEF Next
<1> QED BY <1>1, Inductive, PTL DEF Spec, NobodyMeansNobody

(* A promise is only ever finished by a step on an interaction that is     *)
(* still pending, so what it became never changes again.                   *)
THEOREM OutcomesFinal == Spec => SettledOnce
<1> DEFINE Final == \A i \in Ids : outcome[i] \notin {"unasked", "waiting"} =>
                       outcome'[i] = outcome[i] /\ answeredBy'[i] = answeredBy[i]
<1>1. IInv /\ [Next]_vars => [Final]_vars
  <2> SUFFICES ASSUME IInv, Next, NEW i \in Ids, outcome[i] \notin {"unasked", "waiting"}
               PROVE  outcome'[i] = outcome[i] /\ answeredBy'[i] = answeredBy[i]
    BY DEF vars
  <2>0. i \notin pending /\ i # nextId
    BY DEF IInv, OpenQuestionsAreAnswerable, RecordInv, TypeOK
  <2>t. outcome \in [Ids -> Outcomes] /\ answeredBy \in [Ids -> Clients \cup {NoClient}]
    BY DEF IInv, TypeOK
  <2>1. ASSUME NEW c \in Clients, NEW r \in ClientRole, Attach(c, r)
        PROVE  outcome' = outcome /\ answeredBy' = answeredBy
    BY <2>1 DEF Attach
  <2>2. ASSUME NEW c \in Clients, Detach(c)
        PROVE  outcome'[i] = outcome[i] /\ answeredBy' = answeredBy
    BY <2>0, <2>2 DEF Detach, Orphaned
  <2>3. ASSUME NEW kind \in Kinds, Ask(kind)
        PROVE  outcome'[i] = outcome[i] /\ answeredBy' = answeredBy
    BY <2>0, <2>t, <2>3 DEF Ask
  <2>4. ASSUME NEW c \in Clients, NEW j \in Ids, Answer(c, j)
        PROVE  outcome'[i] = outcome[i] /\ answeredBy'[i] = answeredBy[i]
    BY <2>0, <2>t, <2>4 DEF Answer, MayReply, Settle
  <2>5. ASSUME NEW c \in Clients, NEW j \in Ids, DeclineNoted(c, j)
        PROVE  outcome' = outcome /\ answeredBy' = answeredBy
    BY <2>5 DEF DeclineNoted
  <2>6. ASSUME NEW c \in Clients, NEW j \in Ids, DeclineFails(c, j)
        PROVE  outcome'[i] = outcome[i] /\ answeredBy' = answeredBy
    BY <2>0, <2>t, <2>6 DEF DeclineFails, MayReply, Settle
  <2>7. ASSUME NEW j \in Ids, Timeout(j)
        PROVE  outcome'[i] = outcome[i] /\ answeredBy' = answeredBy
    BY <2>0, <2>t, <2>7 DEF Timeout, Settle
  <2> QED BY <2>1, <2>2, <2>3, <2>4, <2>5, <2>6, <2>7 DEF Next
<1>2. SettledOnce <=> [][Final]_vars
  BY DEF SettledOnce
<1> QED BY <1>1, <1>2, Inductive, PTL DEF Spec

-----------------------------------------------------------------------------
(* The broker implements Interaction.  ask poses a question, reply with a  *)
(* value resolves it, a last decline and a timeout reject it, and detach   *)
(* is the departure that fails what it leaves without an audience.         *)
LEMMA InitRefines == Init => Promise!AInit
BY DEF Init, Promise!AInit, Failures

LEMMA StepRefines == IInv /\ [Next]_vars => [Promise!ANext]_(Promise!avars)
<1> SUFFICES ASSUME IInv, [Next]_vars PROVE [Promise!ANext]_(Promise!avars)
  OBVIOUS
<1> USE DEF Failures
<1> DEFINE status == [i \in Ids |-> IF outcome[i] \in Failures THEN "failed" ELSE outcome[i]]
           Same == UNCHANGED <<outcome, asked, answeredBy>>
<1>t. /\ outcome \in [Ids -> Outcomes] /\ asked \in [Ids -> SUBSET Clients]
      /\ answeredBy \in [Ids -> Clients \cup {NoClient}] /\ pending \subseteq Ids
  BY DEF IInv, TypeOK
<1>w. \A i \in Ids : i \in pending <=> outcome[i] = "waiting"
  BY DEF IInv, OpenQuestionsAreAnswerable
<1>s. Same => UNCHANGED Promise!avars
  BY DEF Promise!avars
<1>1. ASSUME NEW c \in Clients, NEW r \in ClientRole, Attach(c, r) PROVE Same
  BY <1>1 DEF Attach
<1>2. ASSUME NEW c \in Clients, Detach(c) PROVE Promise!Leave(c)
  <2>1. asked' = [i \in Ids |-> IF status[i] = "waiting" THEN asked[i] \ {c} ELSE asked[i]]
    BY <1>2, <1>t, <1>w DEF Detach, Outcomes
  <2>2. \A i \in pending : i \in Orphaned(c) <=> asked[i] \ {c} = {}
    BY DEF Orphaned, IInv, OpenQuestionsAreAnswerable, TypeOK
  <2>3. status' = [i \in Ids |-> IF status[i] = "waiting" /\ asked'[i] = {}
                                 THEN "failed" ELSE status[i]]
    BY <1>2, <1>t, <1>w, <2>2 DEF Detach, Orphaned, Outcomes
  <2> QED BY <1>2, <2>1, <2>3 DEF Promise!Leave, Detach
<1>3. ASSUME NEW kind \in Kinds, Ask(kind) PROVE Promise!ANext
  <2>1. PICK n \in Ids : n = nextId
    BY <1>3, BrokerAssumption DEF Ask, IInv, TypeOK, Ids
  <2>2. PICK who \in SUBSET Clients : who = Audience(kind)
    BY DEF Audience, IInv, TypeOK
  <2>3. outcome[n] = "unasked"
    BY <2>1 DEF IInv, TypeOK, RecordInv, Ids
  <2>4. Promise!Pose(n, who)
    BY <1>3, <2>1, <2>2, <2>3, <1>t DEF Ask, Promise!Pose
  <2> QED BY <2>4 DEF Promise!ANext
<1>4. ASSUME NEW c \in Clients, NEW i \in Ids, Answer(c, i) PROVE Promise!Resolve(i, c)
  BY <1>4, <1>t, <1>w DEF Answer, MayReply, Settle, Promise!Resolve
<1>5. ASSUME NEW c \in Clients, NEW i \in Ids, DeclineNoted(c, i) PROVE Same
  BY <1>5 DEF DeclineNoted
<1>6. ASSUME NEW c \in Clients, NEW i \in Ids, DeclineFails(c, i) PROVE Promise!Reject(i)
  BY <1>6, <1>t, <1>w DEF DeclineFails, MayReply, Settle, Promise!Reject
<1>7. ASSUME NEW i \in Ids, Timeout(i) PROVE Promise!Reject(i)
  <2>1. i \in pending /\ Settle(i, "timeout")
    BY <1>7 DEF Timeout, IInv, RecordInv
  <2> QED BY <1>7, <2>1, <1>t, <1>w DEF Timeout, Settle, Promise!Reject
<1>8. CASE UNCHANGED vars
  BY <1>8, <1>s DEF vars
<1>9. ASSUME Next PROVE Promise!ANext \/ Same
  BY <1>1, <1>2, <1>3, <1>4, <1>5, <1>6, <1>7, <1>9 DEF Next, Promise!ANext
<1> QED BY <1>8, <1>9, <1>s

THEOREM PromiseImplemented == Spec => PromiseKept
BY InitRefines, StepRefines, Inductive, PTL DEF Spec, PromiseKept, Promise!ASpec

-----------------------------------------------------------------------------
(* Assist.  The newest pass is unique, is of the text its document has,    *)
(* unless it is typed in again, and is never older than what is on screen; *)
(* a document without it has been checked, or it is known to be missed.    *)

Newest(d) == \E p \in passes : Current(p) /\ p.doc = d

PassesInv ==
    /\ \A p \in passes : p.generation <= generation /\ p.version <= version[p.doc]
    /\ \A p, q \in passes : p.generation = q.generation => p = q
    /\ \A p \in passes : Current(p) =>
           squiggles[p.doc] <= p.version /\ (p.doc \notin pause => p.version = version[p.doc])
    /\ \A d \in Docs : squiggles[d] <= version[d]

QuietInv == \A d \in opened \ (pause \cup missed) : squiggles[d] = version[d] \/ Newest(d)

ClosedInv ==
    \A d \in Docs \ (opened \cup haunted) :
        squiggles[d] = 0 /\ d \notin pause /\ \A p \in passes : p.doc # d

SchemaInv ==
    /\ fresh <= listing
    /\ cached # Uncached => cached >= fresh \/ straggler
    /\ loading \in Versions => loading >= fresh \/ straggler

AssistInv == AssistTypeOK /\ PassesInv /\ QuietInv /\ ClosedInv /\ SchemaInv

Passes == [doc : Docs, version : Versions, generation : Nat, left : 1..MaxStatements]

LEMMA AssistInitInv == AssistInit => AssistInv
<1> SUFFICES ASSUME AssistInit PROVE AssistInv
  OBVIOUS
<1> USE AssistAssumption DEF AssistInit, Versions, Uncached, NoLoad
<1>1. AssistTypeOK
  <2>1. version \in [Docs -> Versions] /\ squiggles \in [Docs -> Versions] /\ 0 \in Versions
    OBVIOUS
  <2>2. straggler \in BOOLEAN /\ generation \in Nat
    OBVIOUS
  <2> QED BY <2>1, <2>2 DEF AssistTypeOK
<1>2. PassesInv /\ QuietInv /\ ClosedInv /\ SchemaInv
  BY DEF PassesInv, QuietInv, ClosedInv, SchemaInv
<1> QED BY <1>1, <1>2 DEF AssistInv

(* A step that does not touch what the schema cache is about, or the other *)
(* way round, keeps the other's part.                                      *)
LEMMA SchemaUntouched == ASSUME AssistInv, UNCHANGED schemaVars PROVE SchemaInv'
BY DEF AssistInv, SchemaInv, schemaVars, Versions, Uncached

LEMMA DiagnosticsUntouched ==
    ASSUME AssistInv, UNCHANGED diagnosticsVars PROVE PassesInv' /\ QuietInv' /\ ClosedInv'
BY DEF AssistInv, PassesInv, QuietInv, ClosedInv, diagnosticsVars, Newest, Current

LEMMA SomePass == ASSUME AssistInv, NEW p \in passes
                  PROVE  p \in Passes /\ p.generation \in 1..generation /\ generation \in Nat
BY DEF AssistInv, AssistTypeOK, Passes

LEMMA EditInv == ASSUME AssistInv, NEW d \in Docs, Edit(d) PROVE AssistInv'
<1> USE AssistAssumption
<1>1. /\ version' = [version EXCEPT ![d] = @ + 1] /\ pause' = pause \cup {d} /\ d \in opened
      /\ UNCHANGED <<opened, generation, passes, squiggles, missed, haunted, schemaVars>>
      /\ version[d] \in Versions /\ version[d] < MaxVersion
  BY DEF Edit, AssistInv, AssistTypeOK
<1>2. /\ version' \in [Docs -> Versions] /\ version'[d] = version[d] + 1
      /\ \A e \in Docs : e # d => version'[e] = version[e]
  BY <1>1 DEF AssistInv, AssistTypeOK, Versions
<1>3. AssistTypeOK'
  BY <1>1, <1>2 DEF AssistInv, AssistTypeOK, schemaVars, Versions, Uncached, Unread, NoLoad
<1>4. PassesInv'
  <2>1. \A e \in Docs : squiggles[e] \in Nat /\ version[e] \in Nat /\ version'[e] \in Nat /\ version[e] <= version'[e]
    BY <1>1, <1>2 DEF AssistInv, AssistTypeOK, Versions
  <2>2. \A e \in Docs : squiggles'[e] <= version'[e]
    BY <1>1, <2>1 DEF AssistInv, PassesInv
  <2>3. ASSUME NEW p \in passes, Current(p), p.doc \notin pause' PROVE p.version = version'[p.doc]
    BY <1>1, <1>2, <2>3, SomePass DEF AssistInv, PassesInv, Passes
  <2>4. ASSUME NEW p \in passes PROVE p.version <= version'[p.doc]
    <3>1. p.doc \in Docs /\ p.version \in Nat /\ p.version <= version[p.doc]
      BY SomePass DEF AssistInv, PassesInv, Passes, Versions
    <3> QED BY <2>1, <3>1
  <2> QED BY <1>1, <2>2, <2>3, <2>4 DEF AssistInv, PassesInv, Current
<1>5. QuietInv'
  BY <1>1, <1>2 DEF AssistInv, AssistTypeOK, QuietInv, Newest, Current
<1>6. ClosedInv'
  BY <1>1 DEF AssistInv, ClosedInv
<1> QED BY <1>1, <1>3, <1>4, <1>5, <1>6, SchemaUntouched DEF AssistInv

LEMMA CloseDocumentInv == ASSUME AssistInv, NEW d \in Docs, CloseDocument(d) PROVE AssistInv'
<1> USE AssistAssumption
<1>1. /\ opened' = opened \ {d} /\ squiggles' = [squiggles EXCEPT ![d] = 0]
      /\ haunted' = (IF d \in pause \/ \E p \in passes : p.doc = d THEN haunted \cup {d} ELSE haunted)
      /\ UNCHANGED <<version, pause, generation, passes, missed, schemaVars>>
  BY DEF CloseDocument, Cleared
<1>2. /\ squiggles' \in [Docs -> Versions] /\ squiggles'[d] = 0
      /\ \A e \in Docs : e # d => squiggles'[e] = squiggles[e]
      /\ haunted' \subseteq Docs /\ haunted \subseteq haunted'
  BY <1>1 DEF AssistInv, AssistTypeOK, Versions
<1>3. AssistTypeOK'
  BY <1>1, <1>2 DEF AssistInv, AssistTypeOK, schemaVars, Versions, Uncached, Unread, NoLoad
<1>4. PassesInv'
  <2>1. \A e \in Docs : squiggles[e] \in Nat /\ version[e] \in Nat /\ squiggles'[e] \in Nat /\ squiggles'[e] <= squiggles[e]
    BY <1>2 DEF AssistInv, AssistTypeOK, Versions
  <2>2. \A e \in Docs : squiggles'[e] <= version[e]
    BY <2>1 DEF AssistInv, PassesInv
  <2>3. ASSUME NEW p \in passes, Current(p) PROVE squiggles'[p.doc] <= p.version
    <3>1. p.doc \in Docs /\ p.version \in Nat
      BY <2>3, SomePass DEF Passes, Versions
    <3>2. squiggles[p.doc] <= p.version
      BY <2>3 DEF AssistInv, PassesInv
    <3> QED BY <2>1, <3>1, <3>2
  <2> QED BY <1>1, <2>2, <2>3 DEF AssistInv, PassesInv, Current
<1>5. QuietInv'
  BY <1>1, <1>2 DEF AssistInv, AssistTypeOK, QuietInv, Newest, Current
<1>6. ClosedInv'
  BY <1>1, <1>2 DEF AssistInv, ClosedInv
<1> QED BY <1>1, <1>3, <1>4, <1>5, <1>6, SchemaUntouched DEF AssistInv

(* The pass that begins is the newest: whatever was on its way is not.     *)
LEMMA BeginInv == ASSUME AssistInv, NEW d \in Docs, Begin(d) PROVE AssistInv'
<1> USE AssistAssumption
<1>1. /\ d \in pause /\ pause' = pause \ {d} /\ generation' = generation + 1 /\ generation \in Nat
      /\ missed' = (missed \cup {p.doc : p \in passes}) \ {d}
      /\ UNCHANGED <<version, opened, haunted, schemaVars>>
      /\ version[d] \in Versions
  BY DEF Begin, AssistInv, AssistTypeOK
<1>2. \A p \in passes : p \in Passes /\ p.generation < generation'
  BY <1>1, SomePass DEF Passes
<1>3. missed' \subseteq Docs /\ \A e \in Docs \ {d} : (\E p \in passes : p.doc = e) \/ e \in missed => e \in missed'
  BY <1>1, <1>2 DEF AssistInv, AssistTypeOK, Passes
<1>4. CASE passes' = passes /\ squiggles' = [squiggles EXCEPT ![d] = version[d]]
  <2>1. /\ squiggles' \in [Docs -> Versions] /\ squiggles'[d] = version[d]
        /\ \A e \in Docs : e # d => squiggles'[e] = squiggles[e]
    BY <1>1, <1>4 DEF AssistInv, AssistTypeOK
  <2>2. AssistTypeOK'
    <3>1. passes' \subseteq [doc : Docs, version : Versions, generation : 1..generation', left : 1..MaxStatements]
      BY <1>1, <1>4 DEF AssistInv, AssistTypeOK
    <3> QED BY <1>1, <1>3, <2>1, <3>1 DEF AssistInv, AssistTypeOK, schemaVars, Versions, Uncached, Unread, NoLoad
  <2>3. \A p \in passes' : ~Current(p)' /\ p.generation <= generation'
    BY <1>1, <1>2, <1>4 DEF Current, Passes
  <2>4. PassesInv'
    <3>1. \A e \in Docs : squiggles'[e] <= version'[e]
      BY <1>1, <2>1 DEF AssistInv, PassesInv, AssistTypeOK, Versions
    <3>2. \A p, q \in passes' : p.generation = q.generation => p = q
      BY <1>4 DEF AssistInv, PassesInv
    <3>3. \A p \in passes' : p.version <= version'[p.doc]
      BY <1>1, <1>4 DEF AssistInv, PassesInv
    <3> QED BY <2>3, <3>1, <3>2, <3>3 DEF PassesInv
  <2>5. QuietInv'
    BY <1>1, <1>3, <2>1 DEF AssistInv, AssistTypeOK, QuietInv, Newest
  <2>6. ClosedInv'
    BY <1>1, <1>4, <2>1 DEF AssistInv, ClosedInv
  <2> QED BY <1>1, <2>2, <2>4, <2>5, <2>6, SchemaUntouched DEF AssistInv
<1>5. CASE \E n \in 1..MaxStatements :
               /\ passes' = passes \cup {[doc |-> d, version |-> version[d], generation |-> generation + 1, left |-> n]}
               /\ squiggles' = squiggles
  <2>1. PICK n \in 1..MaxStatements :
               /\ passes' = passes \cup {[doc |-> d, version |-> version[d], generation |-> generation + 1, left |-> n]}
               /\ squiggles' = squiggles
    BY <1>5
  <2>2. PICK new : new = [doc |-> d, version |-> version[d], generation |-> generation', left |-> n]
    OBVIOUS
  <2>3. /\ passes' = passes \cup {new} /\ new.doc = d /\ new.version = version[d] /\ new.generation = generation'
        /\ new \in [doc : Docs, version : Versions, generation : 1..generation', left : 1..MaxStatements]
    BY <1>1, <2>1, <2>2
  <2>4. AssistTypeOK'
    <3>1. passes' \subseteq [doc : Docs, version : Versions, generation : 1..generation', left : 1..MaxStatements]
      BY <1>1, <2>3 DEF AssistInv, AssistTypeOK
    <3> QED BY <1>1, <1>3, <2>1, <3>1 DEF AssistInv, AssistTypeOK, schemaVars, Versions, Uncached, Unread, NoLoad
  <2>5. \A p \in passes' : p.generation <= generation' /\ (Current(p)' => p = new)
    BY <1>1, <1>2, <2>3 DEF Current, Passes
  <2>6. PassesInv'
    <3>1. \A e \in Docs : squiggles'[e] <= version'[e]
      BY <1>1, <2>1 DEF AssistInv, PassesInv
    <3>2. \A p, q \in passes' : p.generation = q.generation => p = q
      <4> SUFFICES ASSUME NEW p \in passes', NEW q \in passes', p.generation = q.generation PROVE p = q
        OBVIOUS
      <4>1. \A o \in passes : o.generation # generation'
        BY <1>1, <1>2 DEF Passes
      <4> QED BY <2>3, <4>1 DEF AssistInv, PassesInv
    <3>3. squiggles'[new.doc] <= new.version /\ new.version = version'[new.doc]
      BY <1>1, <2>1, <2>3 DEF AssistInv, PassesInv
    <3>4. \A p \in passes' : p.version <= version'[p.doc]
      <4>1. new.version <= version'[new.doc]
        BY <1>1, <2>3 DEF Versions
      <4> QED BY <1>1, <2>3, <4>1 DEF AssistInv, PassesInv
    <3> QED BY <2>5, <3>1, <3>2, <3>3, <3>4 DEF PassesInv
  <2>7. QuietInv'
    <3>1. Newest(d)'
      BY <2>3 DEF Newest, Current
    <3>2. ASSUME NEW e \in opened' \ (pause' \cup missed'), e # d PROVE squiggles'[e] = version'[e]
      BY <1>1, <1>3, <2>1, <3>2 DEF AssistInv, AssistTypeOK, QuietInv, Newest
    <3> QED BY <3>1, <3>2 DEF QuietInv
  <2>8. ClosedInv'
    BY <1>1, <2>1, <2>3 DEF AssistInv, ClosedInv
  <2> QED BY <1>1, <2>4, <2>6, <2>7, <2>8, SchemaUntouched DEF AssistInv
<1> QED BY <1>4, <1>5 DEF Begin

LEMMA CheckedInv == ASSUME AssistInv, NEW p \in passes, Checked(p) PROVE AssistInv'
<1> USE AssistAssumption
<1>1. /\ p \in Passes /\ p.generation \in 1..generation /\ generation \in Nat
      /\ UNCHANGED <<version, opened, pause, generation, missed, haunted, schemaVars>>
  BY SomePass DEF Checked
<1>2. CASE Current(p) /\ p.left > 1
  <2>1. PICK new : new = [p EXCEPT !.left = p.left - 1]
    OBVIOUS
  <2>2. /\ passes' = (passes \ {p}) \cup {new} /\ squiggles' = squiggles
        /\ new.doc = p.doc /\ new.version = p.version /\ new.generation = p.generation
        /\ new \in [doc : Docs, version : Versions, generation : 1..generation, left : 1..MaxStatements]
    BY <1>1, <1>2, <2>1 DEF Checked, Passes
  <2>3. AssistTypeOK'
    BY <1>1, <2>2 DEF AssistInv, AssistTypeOK, schemaVars, Versions, Uncached, Unread, NoLoad
  <2>4. \A q \in passes' : \E o \in passes : o.doc = q.doc /\ o.version = q.version /\ o.generation = q.generation
    BY <2>2
  <2>5. PassesInv'
    <3>1. \A q, o \in passes' : q.generation = o.generation => q = o
      BY <2>2 DEF AssistInv, PassesInv
    <3>2. ASSUME NEW q \in passes'
          PROVE  /\ q.generation <= generation /\ q.version <= version[q.doc]
                 /\ Current(q)' => squiggles[q.doc] <= q.version /\ (q.doc \notin pause => q.version = version[q.doc])
      <4>1. PICK o \in passes : o.doc = q.doc /\ o.version = q.version /\ o.generation = q.generation
        BY <2>4
      <4> QED BY <1>1, <4>1 DEF AssistInv, PassesInv, Current
    <3> QED BY <1>1, <2>2, <3>1, <3>2 DEF AssistInv, PassesInv
  <2>6. \A d \in Docs : Newest(d) => Newest(d)'
    BY <1>1, <2>2 DEF Newest, Current
  <2>7. QuietInv'
    BY <1>1, <2>2, <2>6 DEF AssistInv, AssistTypeOK, QuietInv
  <2>8. ClosedInv'
    BY <1>1, <2>2, <2>4 DEF AssistInv, ClosedInv
  <2> QED BY <1>1, <2>3, <2>5, <2>7, <2>8, SchemaUntouched DEF AssistInv
<1>3. CASE Current(p) /\ ~(p.left > 1)
  <2>1. p.left = 1 /\ passes' = passes \ {p} /\ squiggles' = [squiggles EXCEPT ![p.doc] = p.version]
    BY <1>1, <1>3 DEF Checked, Passes
  <2>2. /\ squiggles' \in [Docs -> Versions] /\ squiggles'[p.doc] = p.version /\ p.doc \in Docs
        /\ \A e \in Docs : e # p.doc => squiggles'[e] = squiggles[e]
    BY <1>1, <2>1 DEF AssistInv, AssistTypeOK, Passes
  <2>3. AssistTypeOK'
    BY <1>1, <2>1, <2>2 DEF AssistInv, AssistTypeOK, schemaVars, Versions, Uncached, Unread, NoLoad
  <2>4. \A q \in passes' : ~Current(q)
    BY <1>3, <2>1 DEF AssistInv, PassesInv, Current
  <2>5. PassesInv'
    <3>1. p.version <= version[p.doc]
      BY DEF AssistInv, PassesInv
    <3>2. \A e \in Docs : squiggles'[e] <= version'[e]
      BY <1>1, <2>2, <3>1 DEF AssistInv, PassesInv
    <3> QED BY <1>1, <2>1, <2>4, <3>2 DEF AssistInv, PassesInv, Current
  <2>6. QuietInv'
    <3>1. \A d \in Docs : Newest(d) => d = p.doc
      BY <1>3, <1>1 DEF AssistInv, PassesInv, Newest, Current
    <3>2. p.doc \notin pause => squiggles'[p.doc] = version[p.doc]
      BY <1>3, <2>2 DEF AssistInv, PassesInv
    <3> QED BY <1>1, <2>2, <3>1, <3>2 DEF AssistInv, AssistTypeOK, QuietInv
  <2>7. ClosedInv'
    <3>1. \A d \in Docs \ (opened \cup haunted) : d # p.doc
      BY DEF AssistInv, ClosedInv
    <3> QED BY <1>1, <2>1, <2>2, <3>1 DEF AssistInv, ClosedInv
  <2> QED BY <1>1, <2>3, <2>5, <2>6, <2>7, SchemaUntouched DEF AssistInv
<1>4. CASE ~Current(p)
  <2>1. passes' = passes \ {p} /\ squiggles' = squiggles
    BY <1>4 DEF Checked
  <2>2. AssistTypeOK'
    BY <1>1, <2>1 DEF AssistInv, AssistTypeOK, schemaVars, Versions, Uncached, Unread, NoLoad
  <2>3. PassesInv'
    BY <1>1, <2>1 DEF AssistInv, PassesInv, Current
  <2>4. \A d \in Docs : Newest(d) => Newest(d)'
    BY <1>1, <1>4, <2>1 DEF Newest, Current
  <2>5. QuietInv' /\ ClosedInv'
    BY <1>1, <2>1, <2>4 DEF AssistInv, AssistTypeOK, QuietInv, ClosedInv
  <2> QED BY <1>1, <2>2, <2>3, <2>5, SchemaUntouched DEF AssistInv
<1> QED BY <1>2, <1>3, <1>4

LEMMA CheckFailsInv == ASSUME AssistInv, NEW p \in passes, CheckFails(p) PROVE AssistInv'
<1>1. /\ p \in Passes /\ passes' = passes \ {p} /\ missed' = missed \cup {p.doc}
      /\ UNCHANGED <<version, opened, pause, generation, squiggles, haunted, schemaVars>>
  BY SomePass DEF CheckFails
<1>2. AssistTypeOK'
  BY <1>1 DEF AssistInv, AssistTypeOK, schemaVars, Versions, Uncached, Unread, NoLoad, Passes
<1>3. PassesInv'
  BY <1>1 DEF AssistInv, PassesInv, Current
<1>4. \A d \in Docs : Newest(d) => Newest(d)' \/ d \in missed'
  BY <1>1 DEF Newest, Current
<1>5. QuietInv' /\ ClosedInv'
  BY <1>1, <1>4 DEF AssistInv, AssistTypeOK, QuietInv, ClosedInv
<1> QED BY <1>1, <1>2, <1>3, <1>5, SchemaUntouched DEF AssistInv

SchemaStep ==
    SchemaChanges \/ Complete \/ ServerLists \/ Listed \/ ListFails \/ Invalidate \/ Expire

LEMMA SchemaStepInv == ASSUME AssistInv, SchemaStep PROVE AssistInv'
<1> USE AssistAssumption
<1>1. UNCHANGED diagnosticsVars
  BY DEF SchemaStep, SchemaChanges, Complete, ServerLists, Listed, ListFails, Invalidate, Expire
<1>2. /\ listing \in Versions /\ fresh \in Versions /\ cached \in Versions \cup {Uncached}
      /\ loading \in Versions \cup {Unread, NoLoad} /\ straggler \in BOOLEAN /\ SchemaInv
  BY DEF AssistInv, AssistTypeOK
<1>3. /\ listing' \in Versions /\ fresh' \in Versions /\ cached' \in Versions \cup {Uncached}
      /\ loading' \in Versions \cup {Unread, NoLoad} /\ straggler' \in BOOLEAN /\ SchemaInv'
  <2> USE <1>2 DEF Versions, Uncached, Unread, NoLoad, SchemaInv
  <2>1. CASE SchemaChanges
    BY <2>1 DEF SchemaChanges
  <2>2. CASE Complete
    <3>1. /\ cached' = Uncached /\ loading' = Unread /\ listing' = listing /\ fresh' = fresh
          /\ straggler' \in BOOLEAN
      BY <2>2 DEF Complete
    <3>2. loading' \notin Versions
      BY <3>1
    <3> QED BY <3>1, <3>2
  <2>3. CASE ServerLists
    BY <2>3 DEF ServerLists
  <2>4. CASE Listed
    BY <2>4 DEF Listed
  <2>5. CASE ListFails
    BY <2>5 DEF ListFails
  <2>6. CASE Invalidate
    <3>1. /\ cached' = Uncached /\ fresh' = listing /\ listing' = listing /\ loading' = loading
          /\ straggler' \in BOOLEAN
      BY <2>6 DEF Invalidate, Emptied
    <3>2. loading \in Versions => straggler'
      <4>1. loading \in Versions => loading # NoLoad
        OBVIOUS
      <4> QED BY <2>6, <4>1 DEF Invalidate
    <3> QED BY <3>1, <3>2
  <2>7. CASE Expire
    BY <2>7 DEF Expire
  <2> QED BY <2>1, <2>2, <2>3, <2>4, <2>5, <2>6, <2>7 DEF SchemaStep
<1>4. AssistTypeOK'
  BY <1>1, <1>3 DEF AssistInv, AssistTypeOK, diagnosticsVars
<1> QED BY <1>1, <1>3, <1>4, DiagnosticsUntouched DEF AssistInv

LEMMA AssistNextInv == AssistInv /\ [AssistNext]_assistVars => AssistInv'
<1>1. ASSUME AssistInv, UNCHANGED assistVars PROVE AssistInv'
  BY <1>1, SchemaUntouched, DiagnosticsUntouched DEF AssistInv, assistVars, AssistTypeOK, schemaVars, diagnosticsVars,
     Versions, Uncached, Unread, NoLoad
<1> QED BY <1>1, EditInv, CloseDocumentInv, BeginInv, CheckedInv, CheckFailsInv, SchemaStepInv DEF AssistNext, SchemaStep

(* One generation for all documents is enough to tell a newest verdict     *)
(* (lsp.ts:195-253).                                                       *)
THEOREM AssistInductive == AssistSpec => []AssistInv
BY AssistInitInv, AssistNextInv, PTL DEF AssistSpec

(* For any documents and any edits: a quiet document shows the verdict on  *)
(* its text, a closed one none, and completion after a refresh is from     *)
(* nothing older, with the exceptions the properties name                  *)
(* (lsp.ts:45-120, 195-253).                                               *)
THEOREM VerdictsAreCurrent == AssistSpec => []AssistSafe
<1>1. ASSUME AssistInv PROVE AssistSafe
  <2>1. QuietDocumentsAreChecked
    BY <1>1 DEF AssistInv, QuietInv, QuietDocumentsAreChecked, Newest
  <2> QED BY <1>1, <2>1 DEF AssistInv, ClosedInv, SchemaInv, AssistSafe, ClosedDocumentsAreClean, RefreshedIsFresh
<1> QED BY <1>1, AssistInductive, PTL

(* No verdict is replaced by one on an older text (lsp.ts:207-208).        *)
THEOREM VerdictsOnlyAdvance == AssistSpec => NeverOlderSquiggles
<1>1. ASSUME AssistInv, [AssistNext]_assistVars, NEW d \in Docs, squiggles'[d] # squiggles[d]
      PROVE  squiggles'[d] = 0 \/ squiggles'[d] > squiggles[d]
  <2>1. squiggles \in [Docs -> Versions] /\ version \in [Docs -> Versions] /\ MaxVersion \in Nat
    BY <1>1, AssistAssumption DEF AssistInv, AssistTypeOK
  <2>2. CASE \E e \in Docs : CloseDocument(e)
    BY <1>1, <2>1, <2>2 DEF CloseDocument, Cleared
  <2>3. CASE \E e \in Docs : Begin(e)
    <3>1. squiggles'[d] = version[d]
      BY <1>1, <2>1, <2>3 DEF Begin
    <3> QED BY <1>1, <2>1, <3>1 DEF AssistInv, PassesInv, Versions
  <2>4. CASE \E p \in passes : Checked(p)
    <3>1. PICK p \in passes : Checked(p)
      BY <2>4
    <3>2. p.doc \in Docs /\ p.version \in Versions
      BY <1>1, SomePass DEF Passes
    <3>3. Current(p) /\ squiggles' = [squiggles EXCEPT ![p.doc] = p.version]
      BY <1>1, <3>1 DEF Checked
    <3>4. squiggles[p.doc] <= p.version
      BY <1>1, <3>3 DEF AssistInv, PassesInv
    <3> QED BY <1>1, <2>1, <3>2, <3>3, <3>4 DEF Versions
  <2>5. CASE UNCHANGED squiggles
    BY <1>1, <2>5
  <2> QED BY <1>1, <2>2, <2>3, <2>4, <2>5 DEF AssistNext, Edit, CheckFails, SchemaChanges, Complete, ServerLists,
             Listed, ListFails, Invalidate, Expire, assistVars, diagnosticsVars
<1>2. AssistInv /\ [AssistNext]_assistVars =>
          [\A d \in Docs : squiggles'[d] # squiggles[d] => squiggles'[d] = 0 \/ squiggles'[d] > squiggles[d]]_assistVars
  BY <1>1
<1> QED BY <1>2, AssistInductive, PTL DEF AssistSpec, NeverOlderSquiggles

-----------------------------------------------------------------------------
(* Panel.                                                                  *)
Posts == [type : {"running", "progress", "result", "failed", "rows"}, lane : Lanes, result : Results, late : BOOLEAN]
LaneStates == [status : {"idle", "running", "ready", "failed"}, result : Results \cup {NoRun},
               page : Results \cup {NoRun}, asked : BOOLEAN, late : BOOLEAN]
Documents == [lane : [Lanes -> LaneStates], shown : Lanes, drawn : Lanes, pulled : BOOLEAN]

(* Two runs in flight at once are both known to overlap.                   *)
RunInv ==
    /\ doing \in [Mine -> [stage : {"idle", "sent", "done"}, overlapped : BOOLEAN]]
    /\ running \in Mine \cup {NoRun} /\ cancels \subseteq Mine
    /\ CancelNamesWhatRuns
    /\ \A x, y \in Sent : x # y => doing[x].overlapped

(* A lane that is ready shows the result it is answered from.              *)
LaneInv ==
    panel = "ready" => \A l \in Lanes :
        web.lane[l].status = "ready" => web.lane[l].result = resultIds[l] /\ resultIds[l] \in Results

(* A page that is not late is of the result its lane shows.                *)
FetchInv ==
    \A f \in fetches :
        f.late \/ (panel = "ready" /\ web.lane[f.lane].result = f.result /\ resultIds[f.lane] = f.result)

(* Nothing but late pages waits for a document, and the last result that   *)
(* waits for a lane is the one it is answered from.                        *)
IsResult(m, l) == m.type = "result" /\ m.lane = l
LastResult(q, k, i, l) == i \in 1..k /\ IsResult(q[i], l) /\ \A j \in (i + 1)..k : ~IsResult(q[j], l)
QueueInv ==
    /\ queued \in Seq(Posts)
    /\ \A i \in 1..Len(queued) : queued[i].type = "rows" => queued[i].late
    /\ \A i \in 1..Len(queued), l \in Lanes : LastResult(queued, Len(queued), i, l) => queued[i].result = resultIds[l]

DocumentInv == web \in Documents /\ RowsAreTheResults /\ (web.drawn = web.shown \/ web.pulled)

PartsTypeOK ==
    /\ panel \in {"none", "loading", "ready"} /\ Len(queued) <= MaxQueued
    /\ panel # "loading" => queued = <<>>
    /\ panel # "ready" => web = NewDocument
    /\ resultIds \in [Lanes -> Results \cup {NoRun}]
    /\ fetches \subseteq [lane : Lanes, result : Results, late : BOOLEAN]

PanelInv == PartsTypeOK /\ RunInv /\ DocumentInv /\ LaneInv /\ FetchInv /\ QueueInv

LEMMA LaneAfterIs ==
    ASSUME NEW s \in LaneStates, NEW m \in Posts
    PROVE  /\ LaneAfter(s, m) \in LaneStates
           /\ LaneAfter(s, m).page = PageAfter(s, m)
           /\ m.type = "result" => /\ LaneAfter(s, m).status = "ready" /\ LaneAfter(s, m).result = m.result
           /\ m.type # "result" =>
                 /\ LaneAfter(s, m).result = s.result
                 /\ LaneAfter(s, m).status = "ready" => s.status = "ready"
           /\ m.type = "rows" => LaneAfter(s, m).late = m.late
           /\ m.type \notin {"rows", "result"} => LaneAfter(s, m).late = s.late
<1>1. /\ m.type \in {"running", "progress", "result", "failed", "rows"} /\ m.result \in Results
      /\ m.late \in BOOLEAN
      /\ s.status \in {"idle", "running", "ready", "failed"} /\ s.result \in Results \cup {NoRun}
      /\ s.page \in Results \cup {NoRun} /\ s.asked \in BOOLEAN /\ s.late \in BOOLEAN
      /\ s = [status |-> s.status, result |-> s.result, page |-> s.page, asked |-> s.asked, late |-> s.late]
  BY DEF Posts, LaneStates
<1>2. PICK page : page = PageAfter(s, m)
  OBVIOUS
<1>3. page \in Results \cup {NoRun}
  BY <1>1, <1>2 DEF PageAfter
<1>4. PICK status, result, waits, late :
         /\ status = (CASE m.type = "result" -> "ready" [] m.type \in {"rows", "progress"} -> s.status [] OTHER -> m.type)
         /\ result = (IF m.type = "result" THEN m.result ELSE s.result)
         /\ waits = (IF m.type = "result" THEN FALSE ELSE s.asked)
         /\ late = (IF m.type \in {"result", "rows"} THEN m.late ELSE s.late)
  OBVIOUS
<1>5. LaneAfter(s, m) = [status |-> status, result |-> result, page |-> page, asked |-> waits, late |-> late]
  <2>1. LaneAfter(s, m) = [s EXCEPT !.page = page, !.status = status, !.result = result, !.asked = waits, !.late = late]
    BY <1>2, <1>4, Zenon DEF LaneAfter
  <2>2. PICK r : r = [s EXCEPT !.page = page, !.status = status]
    OBVIOUS
  <2>3. r = [status |-> status, result |-> s.result, page |-> page, asked |-> s.asked, late |-> s.late]
    BY <1>1, <2>2
  <2>4. LaneAfter(s, m) = [r EXCEPT !.result = result, !.asked = waits, !.late = late]
    BY <2>1, <2>2, Zenon
  <2> QED BY <2>3, <2>4
<1>6. status \in {"idle", "running", "ready", "failed"} /\ (m.type = "result" => status = "ready")
      /\ (m.type # "result" => (status = "ready" => s.status = "ready"))
  BY <1>1, <1>4
<1>7. result \in Results \cup {NoRun} /\ waits \in BOOLEAN /\ late \in BOOLEAN
  BY <1>1, <1>4
<1>8. LaneAfter(s, m) \in LaneStates
  BY <1>3, <1>5, <1>6, <1>7 DEF LaneStates
<1>9. /\ LaneAfter(s, m).status = status /\ LaneAfter(s, m).result = result
      /\ LaneAfter(s, m).page = page /\ LaneAfter(s, m).late = late
  BY <1>5
<1> QED BY <1>2, <1>4, <1>6, <1>8, <1>9

(* A message moves one lane of a document, and what is drawn.              *)
LEMMA AppliedIs ==
    ASSUME NEW w \in Documents, NEW m \in Posts
    PROVE  /\ Applied(w, m) \in Documents
           /\ Applied(w, m).lane[m.lane] = LaneAfter(w.lane[m.lane], m)
           /\ \A l \in Lanes : l # m.lane => Applied(w, m).lane[l] = w.lane[l]
           /\ (w.drawn = w.shown \/ w.pulled) => (Applied(w, m).drawn = Applied(w, m).shown \/ Applied(w, m).pulled)
<1>1. /\ w.lane \in [Lanes -> LaneStates] /\ w.shown \in Lanes /\ w.drawn \in Lanes /\ w.pulled \in BOOLEAN
      /\ w = [lane |-> w.lane, shown |-> w.shown, drawn |-> w.drawn, pulled |-> w.pulled]
      /\ m.lane \in Lanes
  BY DEF Documents, Posts
<1>2. PICK on : on = (IF Switches(m) THEN m.lane ELSE w.shown)
  OBVIOUS
<1>3. PICK drawn : drawn = Drawn(w, m, on)
  OBVIOUS
<1>4. on \in Lanes /\ drawn \in Lanes /\ (drawn # on => drawn = w.drawn)
  BY <1>1, <1>2, <1>3 DEF Drawn
<1>5. PICK after : after = LaneAfter(w.lane[m.lane], m)
  OBVIOUS
<1>6. after \in LaneStates
  BY <1>1, <1>5, LaneAfterIs
<1>7. PICK pulled \in BOOLEAN : pulled <=> (drawn # on /\ (w.pulled \/ w.shown # on))
  OBVIOUS
<1>8. PICK lanes : lanes = [w.lane EXCEPT ![m.lane] = after]
  OBVIOUS
<1>9. Applied(w, m) = [lane |-> lanes, shown |-> on, drawn |-> drawn, pulled |-> pulled]
  <2>1. Applied(w, m) = [w EXCEPT !.lane[m.lane] = after, !.shown = on, !.drawn = drawn,
                                  !.pulled = (drawn # on /\ (w.pulled \/ w.shown # on))]
    BY <1>2, <1>3, <1>5, Zenon DEF Applied
  <2>2. (drawn # on /\ (w.pulled \/ w.shown # on)) = pulled
    BY <1>1, <1>7
  <2>3. Applied(w, m) = [w EXCEPT !.lane[m.lane] = after, !.shown = on, !.drawn = drawn, !.pulled = pulled]
    BY <2>1, <2>2, Zenon
  <2> QED BY <1>1, <1>8, <2>3
<1>10. lanes \in [Lanes -> LaneStates] /\ lanes[m.lane] = after /\ \A l \in Lanes : l # m.lane => lanes[l] = w.lane[l]
  BY <1>1, <1>6, <1>8
<1>11. Applied(w, m) \in Documents
  BY <1>4, <1>9, <1>10 DEF Documents
<1>12. /\ Applied(w, m).lane = lanes /\ Applied(w, m).shown = on /\ Applied(w, m).drawn = drawn
       /\ Applied(w, m).pulled = pulled
  BY <1>9
<1> QED BY <1>1, <1>4, <1>5, <1>7, <1>10, <1>11, <1>12

(* A message that is late, or is of the lane's result, keeps rows true.    *)
RowsAreOf(w) == \A l \in Lanes : w.lane[l].page # NoRun => w.lane[l].page = w.lane[l].result \/ w.lane[l].late

LEMMA AppliedKeepsRows ==
    ASSUME NEW w \in Documents, NEW m \in Posts, RowsAreOf(w),
           m.type = "rows" => m.late \/ m.result = w.lane[m.lane].result
    PROVE  RowsAreOf(Applied(w, m))
<1>1. m.lane \in Lanes /\ w.lane[m.lane] \in LaneStates
  BY DEF Posts, Documents
<1>2. PICK s, t : s = w.lane[m.lane] /\ t = LaneAfter(s, m)
  OBVIOUS
<1>3. t.page # NoRun => t.page = t.result \/ t.late
  <2>1. s.page # NoRun => s.page = s.result \/ s.late
    BY <1>1, <1>2 DEF RowsAreOf
  <2>2. CASE m.type = "rows"
    <3>1. t.page = m.result /\ t.result = s.result /\ t.late = m.late
      BY <1>1, <1>2, <2>2, LaneAfterIs DEF PageAfter
    <3> QED BY <1>2, <2>2, <3>1
  <2>3. CASE m.type = "result"
    BY <1>1, <1>2, <2>3, LaneAfterIs DEF PageAfter
  <2>4. CASE m.type \notin {"rows", "result"}
    <3>1. t.page = s.page /\ t.result = s.result /\ t.late = s.late
      BY <1>1, <1>2, <2>4, LaneAfterIs DEF PageAfter
    <3> QED BY <2>1, <3>1
  <2> QED BY <2>2, <2>3, <2>4
<1>4. Applied(w, m).lane[m.lane] = t /\ \A l \in Lanes : l # m.lane => Applied(w, m).lane[l] = w.lane[l]
  BY <1>2, AppliedIs
<1> SUFFICES ASSUME NEW l \in Lanes, Applied(w, m).lane[l].page # NoRun
             PROVE  Applied(w, m).lane[l].page = Applied(w, m).lane[l].result \/ Applied(w, m).lane[l].late
  BY DEF RowsAreOf
<1>5. CASE l = m.lane
  BY <1>3, <1>4, <1>5
<1>6. CASE l # m.lane
  BY <1>4, <1>6 DEF RowsAreOf
<1> QED BY <1>5, <1>6

(* What a message does to the results the lanes are answered from, and to  *)
(* the pages being read.                                                   *)
Answers(m) == \A l \in Lanes : resultIds'[l] = IF IsResult(m, l) THEN m.result ELSE resultIds[l]
Ages(m) ==
    \A f \in fetches' : \E g \in fetches :
        f.lane = g.lane /\ f.result = g.result /\ (g.late => f.late) /\ (IsResult(m, g.lane) => f.late)

LEMMA QueueGrows ==
    ASSUME QueueInv, NEW m \in Posts, m.type = "rows" => m.late, Answers(m), queued' = Append(queued, m)
    PROVE  QueueInv'
<1> DEFINE k == Len(queued)
<1>1. k \in Nat /\ Len(queued') = k + 1 /\ queued'[k + 1] = m /\ queued' \in Seq(Posts)
      /\ \A i \in 1..k : queued'[i] = queued[i] /\ queued[i] \in Posts
  BY DEF QueueInv
<1>2. ASSUME NEW i \in 1..Len(queued'), queued'[i].type = "rows" PROVE queued'[i].late
  <2>1. CASE i = k + 1
    BY <1>1, <1>2, <2>1
  <2>2. CASE i # k + 1
    <3>1. i \in 1..k
      BY <1>1, <2>2
    <3> QED BY <1>1, <1>2, <3>1 DEF QueueInv
  <2> QED BY <2>1, <2>2
<1>3. ASSUME NEW i \in 1..Len(queued'), NEW l \in Lanes, LastResult(queued', Len(queued'), i, l)
      PROVE  queued'[i].result = resultIds'[l]
  <2>1. CASE i = k + 1
    BY <1>1, <1>3, <2>1 DEF LastResult, Answers
  <2>2. CASE i # k + 1
    <3>1. i \in 1..k /\ k + 1 \in (i + 1)..(k + 1)
      BY <1>1, <2>2
    <3>2. ~IsResult(m, l) /\ IsResult(queued[i], l)
      BY <1>1, <1>3, <3>1 DEF LastResult
    <3>3. ASSUME NEW j \in (i + 1)..k PROVE ~IsResult(queued[j], l)
      <4>1. j \in (i + 1)..(k + 1) /\ j \in 1..k
        BY <1>1, <3>1
      <4> QED BY <1>1, <1>3, <4>1 DEF LastResult
    <3>4. LastResult(queued, k, i, l)
      BY <3>1, <3>2, <3>3 DEF LastResult
    <3>5. queued[i].result = resultIds[l]
      BY <3>1, <3>4 DEF QueueInv
    <3> QED BY <1>1, <3>1, <3>2, <3>5 DEF Answers
  <2> QED BY <2>1, <2>2
<1> QED BY <1>1, <1>2, <1>3 DEF QueueInv

LEMMA DocumentShows ==
    ASSUME DocumentInv, NEW m \in Posts, web' = Applied(web, m),
           m.type = "rows" => m.late \/ m.result = web.lane[m.lane].result
    PROVE  DocumentInv'
<1>1. RowsAreOf(web)
  BY DEF DocumentInv, RowsAreTheResults, RowsAreOf
<1>2. RowsAreOf(web')
  BY <1>1, AppliedKeepsRows DEF DocumentInv
<1>3. RowsAreTheResults'
  BY <1>2 DEF RowsAreOf, RowsAreTheResults
<1> QED BY <1>3, AppliedIs DEF DocumentInv

LEMMA BlankDocument == ASSUME NEW w, w = NewDocument PROVE
    /\ w \in Documents /\ RowsAreOf(w) /\ w.drawn = w.shown
    /\ \A l \in Lanes : w.lane[l].status = "idle" /\ w.lane[l].result = NoRun
<1>1. Blank \in LaneStates /\ Blank.page = NoRun /\ Blank.status = "idle" /\ Blank.result = NoRun
  BY DEF Blank, LaneStates
<1>2. /\ w.lane = [l \in Lanes |-> Blank] /\ w.shown = "user" /\ w.drawn = "user" /\ w.pulled = FALSE
      /\ w = [lane |-> w.lane, shown |-> "user", drawn |-> "user", pulled |-> FALSE]
  BY DEF NewDocument
<1>3. "user" \in Lanes /\ w.lane \in [Lanes -> LaneStates] /\ \A l \in Lanes : w.lane[l] = Blank
  BY <1>1, <1>2 DEF Lanes
<1> QED BY <1>1, <1>2, <1>3 DEF Documents, RowsAreOf

LEMMA PostInv ==
    ASSUME PanelInv, RunInv', NEW m \in Posts, m.type # "rows", Post(m), Answers(m), Ages(m),
           resultIds' \in [Lanes -> Results \cup {NoRun}],
           fetches' \subseteq [lane : Lanes, result : Results, late : BOOLEAN]
    PROVE  PanelInv'
<1>1. DocumentInv /\ LaneInv /\ FetchInv /\ QueueInv /\ PartsTypeOK
  BY DEF PanelInv
<1>2. m.lane \in Lanes /\ m.result \in Results
  BY DEF Posts
<1>3. CASE panel = "ready" /\ web' = Applied(web, m) /\ UNCHANGED <<panel, queued>>
  <2>1. DocumentInv'
    BY <1>1, <1>3, DocumentShows
  <2>2. queued = <<>> /\ queued' = <<>>
    BY <1>1, <1>3 DEF PartsTypeOK
  <2>3. QueueInv'
    BY <2>2 DEF QueueInv
  <2>4. PartsTypeOK'
    BY <1>1, <1>3, <2>2 DEF PartsTypeOK
  <2>5. /\ web.lane[m.lane] \in LaneStates /\ web'.lane[m.lane] = LaneAfter(web.lane[m.lane], m)
        /\ \A l \in Lanes : l # m.lane => web'.lane[l] = web.lane[l]
    BY <1>1, <1>2, <1>3, AppliedIs DEF DocumentInv, Documents
  <2>6. \A l \in Lanes : IsResult(m, l) => web'.lane[l].result = m.result
    BY <2>5, LaneAfterIs DEF IsResult
  <2>7. ASSUME NEW l \in Lanes, ~IsResult(m, l)
        PROVE  web'.lane[l].result = web.lane[l].result /\ (web'.lane[l].status = "ready" => web.lane[l].status = "ready")
    <3>1. CASE l = m.lane
      BY <2>5, <2>7, <3>1, LaneAfterIs DEF IsResult
    <3> QED BY <2>5, <3>1
  <2>8. LaneInv'
    BY <1>1, <1>2, <1>3, <2>6, <2>7 DEF LaneInv, Answers
  <2>9. ASSUME NEW f \in fetches', ~f.late PROVE web'.lane[f.lane].result = f.result /\ resultIds'[f.lane] = f.result
    <3>1. PICK g \in fetches : f.lane = g.lane /\ f.result = g.result /\ ~g.late /\ ~IsResult(m, g.lane)
      BY <2>9 DEF Ages
    <3>2. g.lane \in Lanes /\ web.lane[g.lane].result = g.result /\ resultIds[g.lane] = g.result
      BY <1>1, <3>1 DEF FetchInv, PartsTypeOK
    <3> QED BY <2>7, <3>1, <3>2 DEF Answers
  <2>10. FetchInv'
    BY <1>3, <2>9 DEF FetchInv
  <2> QED BY <2>1, <2>3, <2>4, <2>8, <2>10 DEF PanelInv
<1>4. CASE /\ panel # "ready" /\ Len(queued) < MaxQueued
           /\ panel' = "loading" /\ queued' = Append(queued, m) /\ UNCHANGED web
  <2>1. QueueInv'
    BY <1>1, <1>4, QueueGrows
  <2>2. DocumentInv'
    BY <1>1, <1>4 DEF DocumentInv, RowsAreTheResults
  <2>3. Len(queued') = Len(queued) + 1 /\ Len(queued) \in Nat
    BY <1>1, <1>4 DEF QueueInv
  <2>4. PartsTypeOK'
    BY <1>1, <1>4, <2>3, PanelAssumption DEF PartsTypeOK
  <2>5. \A f \in fetches' : f.late
    BY <1>1, <1>4 DEF FetchInv, Ages
  <2> QED BY <1>4, <2>1, <2>2, <2>4, <2>5 DEF LaneInv, FetchInv, PanelInv
<1> QED BY <1>3, <1>4 DEF Post

(* The fold of the queue, one message after another.                       *)
LEMMA QueueFolds ==
    ASSUME NEW w \in Documents, NEW q \in Seq(Posts)
    PROVE  \E g : /\ g[0] = w /\ g[Len(q)] = FoldLeft(Applied, w, q)
                  /\ \A k \in Nat : k < Len(q) => g[k + 1] = Applied(g[k], q[k + 1])
<1> DEFINE n == Len(q)
           step == [i \in 1..n |-> [v \in Documents |-> Applied(v, q[i])]]
           Folds(it) == it = [s \in SUBSET (1..n) |-> IF s = {} THEN w ELSE Applied(it[s \ {Max(s)}], q[Max(s)])]
           It == CHOOSE it : Folds(it)
<1>1. n \in Nat /\ DOMAIN q = 1..n /\ \A i \in 1..n : q[i] \in Posts
  OBVIOUS
<1>2. \A i \in 1..n, v \in Documents : Applied(v, q[i]) \in Documents /\ step[i][v] = Applied(v, q[i])
  BY <1>1, AppliedIs
<1>3. IsStep(step, 1..n, Documents)
  <2> HIDE DEF n
  <2> QED BY <1>2 DEF IsStep
<1>4. PICK h : IsFold(h, Documents, w, n, step)
  <2> HIDE DEF step, n
  <2> QED BY <1>1, <1>3, FoldExists
<1>5. Folds(h)
  <2>1. ASSUME NEW s \in SUBSET (1..n), s # {} PROVE h[s] = Applied(h[s \ {Max(s)}], q[Max(s)])
    <3>1. PICK m, r : m = Max(s) /\ r = s \ {Max(s)}
      OBVIOUS
    <3>2. m \in 1..n /\ r \in SUBSET (1..n)
      BY <1>1, <2>1, <3>1, MaxIs
    <3>3. h[s] = step[m][h[r]] /\ h[r] \in Documents
      BY <1>4, <2>1, <3>1, <3>2 DEF IsFold
    <3> QED BY <1>2, <3>1, <3>2, <3>3
  <2> HIDE DEF n, step
  <2> QED BY <1>4, <2>1 DEF IsFold
<1>6. Folds(It)
  <2> HIDE DEF Folds
  <2> QED BY <1>5, Zenon
<1>7. FoldLeft(Applied, w, q) = It[1..n]
  BY <1>1, Zenon DEF FoldLeft, MapThenFoldSet
<1> HIDE DEF It
<1>8. It[{}] = w
  BY <1>6
<1>9. ASSUME NEW k \in Nat, k < n PROVE It[1..(k + 1)] = Applied(It[1..k], q[k + 1])
  <2>1. PICK m, s : m = Max(1..(k + 1)) /\ s = 1..(k + 1)
    OBVIOUS
  <2>2. s \in SUBSET (1..n) /\ s # {} /\ m = Max(s) /\ m = k + 1 /\ s \ {m} = 1..k
    BY <1>1, <1>9, <2>1, PrefixIs
  <2>3. It[s] = Applied(It[s \ {m}], q[m])
    BY <1>6, <2>2
  <2> QED BY <2>1, <2>2, <2>3
<1>10. PICK g : g = [k \in Nat |-> It[1..k]]
  OBVIOUS
<1>11. 1..0 = {} /\ 0 \in Nat
  OBVIOUS
<1>12. g[0] = w /\ g[n] = It[1..n]
  BY <1>1, <1>8, <1>10, <1>11
<1>13. ASSUME NEW k \in Nat, k < n PROVE g[k + 1] = Applied(g[k], q[k + 1])
  BY <1>9, <1>10, <1>13
<1> QED BY <1>7, <1>12, <1>13

(* A document that has applied k messages of a queue.                      *)
Shows(w, q, k) ==
    /\ w \in Documents /\ RowsAreOf(w) /\ (w.drawn = w.shown \/ w.pulled)
    /\ \A l \in Lanes : w.lane[l].status = "ready" =>
          \E i \in 1..k : LastResult(q, k, i, l) /\ w.lane[l].result = q[i].result

LEMMA OneMoreShown ==
    ASSUME NEW q \in Seq(Posts), NEW k \in Nat, k < Len(q), NEW w, Shows(w, q, k),
           q[k + 1].type = "rows" => q[k + 1].late
    PROVE  Shows(Applied(w, q[k + 1]), q, k + 1)
<1>1. PICK m : m = q[k + 1]
  OBVIOUS
<1>2. m \in Posts /\ w \in Documents /\ m.lane \in Lanes
  <2>1. k + 1 \in 1..Len(q)
    OBVIOUS
  <2>2. m \in Posts
    BY <1>1, <2>1
  <2> QED BY <2>2 DEF Posts, Shows
<1>3. PICK v : v = Applied(w, m)
  OBVIOUS
<1>4. v \in Documents /\ RowsAreOf(v) /\ (v.drawn = v.shown \/ v.pulled)
  BY <1>1, <1>2, <1>3, AppliedIs, AppliedKeepsRows DEF Shows
<1>5. ASSUME NEW l \in Lanes, v.lane[l].status = "ready"
      PROVE  \E i \in 1..(k + 1) : LastResult(q, k + 1, i, l) /\ v.lane[l].result = q[i].result
  <2>1. CASE IsResult(m, l)
    <3>1. l = m.lane /\ m.type = "result"
      BY <2>1 DEF IsResult
    <3>2. v.lane[l].result = m.result
      <4>1. v.lane[l] = LaneAfter(w.lane[l], m) /\ w.lane[l] \in LaneStates
        BY <1>2, <1>3, <3>1, AppliedIs DEF Documents
      <4> QED BY <1>2, <3>1, <4>1, LaneAfterIs
    <3>3. k + 1 \in 1..(k + 1) /\ ((k + 1) + 1)..(k + 1) = {}
      OBVIOUS
    <3>4. LastResult(q, k + 1, k + 1, l)
      BY <1>1, <2>1, <3>3 DEF LastResult
    <3> QED BY <1>1, <3>2, <3>3, <3>4
  <2>2. CASE ~IsResult(m, l)
    <3>1. w.lane[l].status = "ready" /\ v.lane[l].result = w.lane[l].result
      <4>1. w.lane[l] \in LaneStates
        BY <1>2 DEF Documents
      <4>2. CASE l = m.lane
        <5>1. v.lane[l] = LaneAfter(w.lane[l], m) /\ m.type # "result"
          BY <1>2, <1>3, <2>2, <4>2, AppliedIs DEF IsResult
        <5> QED BY <1>2, <1>5, <4>1, <5>1, LaneAfterIs
      <4>3. CASE l # m.lane
        BY <1>2, <1>3, <1>5, <4>3, AppliedIs
      <4> QED BY <4>2, <4>3
    <3>2. PICK i \in 1..k : LastResult(q, k, i, l) /\ w.lane[l].result = q[i].result
      BY <3>1 DEF Shows
    <3>3. i \in 1..(k + 1)
      OBVIOUS
    <3>4. ASSUME NEW j \in (i + 1)..(k + 1) PROVE ~IsResult(q[j], l)
      <4>1. j = k + 1 \/ j \in (i + 1)..k
        OBVIOUS
      <4> QED BY <1>1, <2>2, <3>2, <4>1 DEF LastResult
    <3>5. LastResult(q, k + 1, i, l)
      BY <3>2, <3>3, <3>4 DEF LastResult
    <3> QED BY <3>1, <3>2, <3>3, <3>5
  <2> QED BY <2>1, <2>2
<1> QED BY <1>1, <1>3, <1>4, <1>5 DEF Shows

LEMMA QueueShown ==
    ASSUME NEW q \in Seq(Posts), \A i \in 1..Len(q) : q[i].type = "rows" => q[i].late
    PROVE  Shows(FoldLeft(Applied, NewDocument, q), q, Len(q))
<1>1. NewDocument \in Documents /\ Shows(NewDocument, q, 0)
  BY BlankDocument DEF Shows
<1>2. PICK g : /\ g[0] = NewDocument /\ g[Len(q)] = FoldLeft(Applied, NewDocument, q)
               /\ \A k \in Nat : k < Len(q) => g[k + 1] = Applied(g[k], q[k + 1])
  BY <1>1, QueueFolds
<1> DEFINE T == {k \in Nat : k <= Len(q) => Shows(g[k], q, k)}
<1>3. 0 \in T
  BY <1>1, <1>2
<1>4. ASSUME NEW k \in Nat, k \in T PROVE k + 1 \in T
  <2> SUFFICES ASSUME k + 1 <= Len(q) PROVE Shows(g[k + 1], q, k + 1)
    OBVIOUS
  <2>1. k < Len(q) /\ Shows(g[k], q, k) /\ k + 1 \in 1..Len(q)
    BY <1>4
  <2> QED BY <1>2, <2>1, OneMoreShown
<1>5. Nat \subseteq T
  <2> HIDE DEF T
  <2> QED BY <1>3, <1>4, Induction
<1>6. Len(q) \in Nat /\ Len(q) <= Len(q)
  OBVIOUS
<1> QED BY <1>2, <1>5, <1>6

-----------------------------------------------------------------------------
LEMMA PanelInitInv == PanelInit => PanelInv
<1> SUFFICES ASSUME PanelInit PROVE PanelInv
  OBVIOUS
<1> USE PanelAssumption DEF PanelInit
<1>1. DocumentInv
  BY BlankDocument DEF DocumentInv, RowsAreOf, RowsAreTheResults
<1>2. NotDone \in [stage : {"idle", "sent", "done"}, overlapped : BOOLEAN] /\ NotDone.stage = "idle"
  BY DEF NotDone
<1>3. Sent = {}
  BY <1>2 DEF Sent
<1>4. RunInv
  BY <1>2, <1>3 DEF RunInv, CancelNamesWhatRuns
<1>5. PartsTypeOK
  BY DEF PartsTypeOK
<1>6. QueueInv
  BY DEF QueueInv
<1> QED BY <1>1, <1>4, <1>5, <1>6 DEF PanelInv, LaneInv, FetchInv

LEMMA RunsKept == RunInv /\ UNCHANGED <<doing, running, cancels>> => RunInv'
BY DEF RunInv, CancelNamesWhatRuns, Sent

LEMMA RestKept == PanelInv /\ RunInv' /\ UNCHANGED <<panel, queued, resultIds, web, fetches>> => PanelInv'
BY DEF PanelInv, PartsTypeOK, DocumentInv, LaneInv, FetchInv, QueueInv, RowsAreTheResults

LEMMA ExecuteRuns ==
    ASSUME RunInv, NEW x \in Mine, doing[x].stage = "idle", UNCHANGED cancels, running' = x,
           doing' = [y \in Mine |-> IF y = x \/ y \in Sent
                                    THEN [stage |-> "sent", overlapped |-> doing[y].overlapped \/ Sent # {}] ELSE doing[y]]
    PROVE  RunInv'
<1>1. \A y \in Mine : doing[y].overlapped \in BOOLEAN
  BY DEF RunInv
<1>2. PICK crowd \in BOOLEAN : crowd <=> Sent # {}
  OBVIOUS
<1>3. ASSUME NEW y \in Mine, y = x \/ y \in Sent
      PROVE  doing'[y].stage = "sent" /\ doing'[y].overlapped \in BOOLEAN /\ (doing'[y].overlapped <=> doing[y].overlapped \/ crowd)
             /\ doing'[y] \in [stage : {"idle", "sent", "done"}, overlapped : BOOLEAN]
  <2>1. doing'[y] = [stage |-> "sent", overlapped |-> doing[y].overlapped \/ Sent # {}]
    BY <1>3
  <2>2. PICK b \in BOOLEAN : b = (doing[y].overlapped \/ Sent # {}) /\ (b <=> doing[y].overlapped \/ crowd)
    BY <1>1, <1>2, Zenon
  <2>3. doing'[y] = [stage |-> "sent", overlapped |-> b]
    BY <2>1, <2>2, Zenon
  <2>4. doing'[y].overlapped = b /\ doing'[y].stage = "sent"
    BY <2>3
  <2> QED BY <2>2, <2>3, <2>4
<1>4. \A y \in Mine : ~(y = x \/ y \in Sent) => doing'[y] = doing[y]
  OBVIOUS
<1>5. Sent' = Sent \cup {x}
  BY <1>3, <1>4 DEF Sent
<1>6. doing' \in [Mine -> [stage : {"idle", "sent", "done"}, overlapped : BOOLEAN]]
  <2>1. \A y \in Mine : doing'[y] \in [stage : {"idle", "sent", "done"}, overlapped : BOOLEAN]
    BY <1>3, <1>4 DEF RunInv
  <2> QED BY <2>1
<1>7. x \notin Sent /\ Sent \subseteq Mine
  BY DEF Sent
<1>8. \A y, z \in Sent' : y # z => doing'[y].overlapped
  BY <1>2, <1>3, <1>5, <1>7
<1>9. CancelNamesWhatRuns'
  BY <1>2, <1>3, <1>5, <1>7 DEF CancelNamesWhatRuns
<1> QED BY <1>6, <1>8, <1>9 DEF RunInv

LEMMA ExecutedRuns ==
    ASSUME RunInv, NEW x \in Sent, UNCHANGED cancels, running' = NoRun,
           doing' = [doing EXCEPT ![x].stage = "done"]
    PROVE  RunInv'
<1>1. x \in Mine /\ doing[x].stage = "sent"
  BY DEF Sent
<1>2. \A y \in Mine : y # x => doing'[y] = doing[y]
  BY DEF RunInv
<1>3. doing' \in [Mine -> [stage : {"idle", "sent", "done"}, overlapped : BOOLEAN]] /\ doing'[x].stage = "done"
  BY <1>1 DEF RunInv
<1>4. Sent' = Sent \ {x}
  BY <1>1, <1>2, <1>3 DEF Sent
<1>5. \A y, z \in Sent' : y # z => doing'[y].overlapped
  BY <1>2, <1>4 DEF RunInv, Sent
<1>6. \A y \in Sent' : doing'[y].overlapped
  BY <1>2, <1>4 DEF RunInv, Sent
<1>7. CancelNamesWhatRuns'
  BY <1>6 DEF CancelNamesWhatRuns
<1> QED BY <1>3, <1>5, <1>7 DEF RunInv

-----------------------------------------------------------------------------
LEMMA MessageIs ==
    ASSUME NEW type \in {"running", "progress", "result", "failed", "rows"}, NEW l \in Lanes, NEW x \in Results
    PROVE  /\ Message(type, l, x) \in Posts /\ Message(type, l, x).type = type
           /\ Message(type, l, x).lane = l /\ Message(type, l, x).result = x
BY DEF Message, Posts

(* A message that is no result, and leaves the lanes and the pages alone.  *)
LEMMA NoticeInv ==
    ASSUME PanelInv, RunInv', NEW m \in Posts, m.type \notin {"rows", "result"}, Post(m), UNCHANGED <<resultIds, fetches>>
    PROVE  PanelInv'
<1>1. Answers(m) /\ Ages(m)
  BY DEF Answers, Ages, IsResult
<1> QED BY <1>1, PostInv DEF PanelInv, PartsTypeOK

(* The pages of some lanes are late from now on.                           *)
LEMMA OutlivedAre ==
    ASSUME PartsTypeOK, NEW lanes, NEW f \in Outlived(lanes)
    PROVE  /\ f \in [lane : Lanes, result : Results, late : BOOLEAN]
           /\ \E g \in fetches : /\ f.lane = g.lane /\ f.result = g.result
                                 /\ f.late <=> (g.late \/ g.lane \in lanes)
<1>1. PICK g \in fetches : f = [g EXCEPT !.late = g.late \/ g.lane \in lanes]
  BY Zenon DEF Outlived
<1>2. g \in [lane : Lanes, result : Results, late : BOOLEAN]
  BY DEF PartsTypeOK
<1>3. PICK b \in BOOLEAN : b = (g.late \/ g.lane \in lanes) /\ (b <=> (g.late \/ g.lane \in lanes))
  BY <1>2
<1>4. f = [g EXCEPT !.late = b]
  BY <1>1, <1>3, Zenon
<1>5. f \in [lane : Lanes, result : Results, late : BOOLEAN] /\ f.lane = g.lane /\ f.result = g.result /\ f.late = b
  BY <1>2, <1>4
<1> QED BY <1>3, <1>5

LEMMA ExecuteInv == ASSUME PanelInv, NEW x \in Mine, Execute(x) PROVE PanelInv'
<1>1. RunInv'
  BY ExecuteRuns DEF Execute, PanelInv
<1>2. "running" \in {"running", "progress", "result", "failed", "rows"} /\ "user" \in Lanes /\ x \in Results
  BY DEF Lanes, Results
<1>3. PICK m \in Posts : m = Message("running", "user", x) /\ m.type = "running"
  BY <1>2, MessageIs
<1> QED BY <1>1, <1>3, NoticeInv DEF Execute

LEMMA ProgressInv == ASSUME PanelInv, NEW x \in Mine, Progress(x) PROVE PanelInv'
<1>1. RunInv'
  BY RunsKept DEF Progress, PanelInv
<1>2. "progress" \in {"running", "progress", "result", "failed", "rows"} /\ "user" \in Lanes /\ x \in Results
  BY DEF Lanes, Results
<1>3. PICK m \in Posts : m = Message("progress", "user", x) /\ m.type = "progress"
  BY <1>2, MessageIs
<1> QED BY <1>1, <1>3, NoticeInv DEF Progress

(* A result is the one its lane is answered from, and ages its pages.      *)
LEMMA ResultInv ==
    ASSUME PanelInv, RunInv', NEW l \in Lanes, NEW x \in Results, Post(Message("result", l, x)),
           resultIds' = [resultIds EXCEPT ![l] = x], fetches' = Outlived({l})
    PROVE  PanelInv'
<1>1. PICK m \in Posts : m = Message("result", l, x) /\ m.type = "result" /\ m.lane = l /\ m.result = x
  <2>1. "result" \in {"running", "progress", "result", "failed", "rows"}
    OBVIOUS
  <2> QED BY <2>1, MessageIs
<1>2. PartsTypeOK
  BY DEF PanelInv
<1>3. Answers(m)
  BY <1>1, <1>2 DEF Answers, IsResult, PartsTypeOK
<1>4. Ages(m)
  BY <1>1, <1>2, OutlivedAre DEF Ages, IsResult
<1>5. fetches' \subseteq [lane : Lanes, result : Results, late : BOOLEAN]
  BY <1>2, OutlivedAre
<1>6. resultIds' \in [Lanes -> Results \cup {NoRun}]
  BY <1>2 DEF PartsTypeOK
<1>7. Post(m) /\ m.type # "rows"
  BY <1>1
<1> QED BY <1>3, <1>4, <1>5, <1>6, <1>7, PostInv

LEMMA ExecutedInv == ASSUME PanelInv, NEW x \in Mine, NEW ok \in BOOLEAN, Executed(x, ok) PROVE PanelInv'
<1>1. RunInv'
  BY ExecutedRuns DEF Executed, RunningAfter, PanelInv
<1>2. "user" \in Lanes /\ x \in Results
  BY DEF Lanes, Results
<1>3. CASE ok
  <2>1. Post(Message("result", "user", x)) /\ resultIds' = [resultIds EXCEPT !["user"] = x] /\ fetches' = Outlived({"user"})
    BY <1>3 DEF Executed
  <2> QED BY <1>1, <1>2, <2>1, ResultInv
<1>4. CASE ~ok
  <2>1. PICK m \in Posts : m = Message("failed", "user", x) /\ m.type = "failed"
    <3>1. "failed" \in {"running", "progress", "result", "failed", "rows"}
      OBVIOUS
    <3> QED BY <1>2, <3>1, MessageIs
  <2>2. Post(m) /\ UNCHANGED <<resultIds, fetches>>
    BY <1>4, <2>1 DEF Executed
  <2> QED BY <1>1, <2>1, <2>2, NoticeInv
<1> QED BY <1>3, <1>4

LEMMA AgentShowsInv == ASSUME PanelInv, NEW x \in Agents, AgentShows(x) PROVE PanelInv'
<1>1. RunInv'
  BY RunsKept DEF AgentShows, PanelInv
<1>2. "agent" \in Lanes /\ x \in Results
  BY DEF Lanes, Results
<1> QED BY <1>1, <1>2, ResultInv DEF AgentShows

LEMMA CancelInv == ASSUME PanelInv, Cancel PROVE PanelInv'
<1>1. RunInv'
  BY DEF PanelInv, RunInv, Cancel, CancelNamesWhatRuns, Sent
<1> QED BY <1>1, RestKept DEF Cancel

LEMMA PanelClosedInv == ASSUME PanelInv, PanelClosed PROVE PanelInv'
<1>1. RunInv'
  BY RunsKept DEF PanelClosed, PanelInv
<1>2. PartsTypeOK
  BY DEF PanelInv
<1>3. \A f \in fetches' : f.late /\ f \in [lane : Lanes, result : Results, late : BOOLEAN]
  BY <1>2, OutlivedAre DEF PanelClosed
<1>4. PartsTypeOK'
  BY <1>2, <1>3, PanelAssumption DEF PanelClosed, PartsTypeOK
<1>5. DocumentInv'
  <2>1. web' = NewDocument
    BY DEF PanelClosed
  <2> QED BY <2>1, BlankDocument DEF DocumentInv, RowsAreOf, RowsAreTheResults
<1>6. QueueInv'
  BY DEF PanelClosed, QueueInv
<1>7. LaneInv' /\ FetchInv'
  BY <1>3 DEF PanelClosed, LaneInv, FetchInv
<1> QED BY <1>1, <1>4, <1>5, <1>6, <1>7 DEF PanelInv

LEMMA DocumentReadyInv == ASSUME PanelInv, DocumentReady PROVE PanelInv'
<1>1. RunInv'
  BY RunsKept DEF DocumentReady, PanelInv
<1>2. PartsTypeOK /\ QueueInv /\ FetchInv
  BY DEF PanelInv
<1>3. web = NewDocument /\ queued' = <<>> /\ panel' = "ready"
  BY <1>2 DEF DocumentReady, PartsTypeOK, Unposted
<1>4. Shows(web', queued, Len(queued))
  BY <1>2, <1>3, QueueShown DEF DocumentReady, QueueInv
<1>5. DocumentInv'
  BY <1>4 DEF Shows, DocumentInv, RowsAreOf, RowsAreTheResults
<1>6. PartsTypeOK'
  BY <1>2, <1>3, PanelAssumption DEF PartsTypeOK, DocumentReady
<1>7. QueueInv'
  BY <1>3 DEF QueueInv
<1>8. \A f \in fetches : f.late
  BY <1>2 DEF FetchInv, DocumentReady
<1>9. ASSUME NEW l \in Lanes, web'.lane[l].status = "ready" PROVE web'.lane[l].result = resultIds[l] /\ resultIds[l] \in Results
  <2>1. PICK i \in 1..Len(queued) : LastResult(queued, Len(queued), i, l) /\ web'.lane[l].result = queued[i].result
    BY <1>4, <1>9 DEF Shows
  <2>2. queued[i].result = resultIds[l]
    BY <1>2, <2>1 DEF QueueInv
  <2>3. queued[i] \in Posts
    BY <1>2 DEF QueueInv
  <2> QED BY <2>1, <2>2, <2>3 DEF Posts
<1>10. LaneInv' /\ FetchInv'
  BY <1>8, <1>9 DEF LaneInv, FetchInv, DocumentReady
<1> QED BY <1>1, <1>5, <1>6, <1>7, <1>10 DEF PanelInv

LEMMA ShowLaneInv == ASSUME PanelInv, NEW l \in Lanes, ShowLane(l) PROVE PanelInv'
<1>1. RunInv' /\ PartsTypeOK /\ DocumentInv
  BY RunsKept DEF ShowLane, PanelInv
<1>2. /\ web = [lane |-> web.lane, shown |-> web.shown, drawn |-> web.drawn, pulled |-> web.pulled]
      /\ web.lane \in [Lanes -> LaneStates]
  BY <1>1 DEF DocumentInv, Documents
<1>3. web' = [lane |-> web.lane, shown |-> l, drawn |-> l, pulled |-> FALSE]
  BY <1>2 DEF ShowLane
<1>4. web' \in Documents /\ web'.lane = web.lane /\ web'.drawn = web'.shown
  BY <1>2, <1>3 DEF Documents
<1>5. DocumentInv'
  BY <1>1, <1>4 DEF DocumentInv, RowsAreTheResults
<1>6. PartsTypeOK'
  BY <1>1 DEF PartsTypeOK, ShowLane
<1>7. LaneInv' /\ FetchInv' /\ QueueInv'
  BY <1>4 DEF PanelInv, LaneInv, FetchInv, QueueInv, ShowLane
<1> QED BY <1>1, <1>5, <1>6, <1>7 DEF PanelInv

LEMMA RequestRowsInv == ASSUME PanelInv, RequestRows PROVE PanelInv'
<1>1. RunInv' /\ PartsTypeOK /\ DocumentInv /\ LaneInv /\ FetchInv /\ QueueInv
  BY RunsKept DEF RequestRows, PanelInv
<1>2. PICK l : l = web.shown
  OBVIOUS
<1>3. /\ web = [lane |-> web.lane, shown |-> web.shown, drawn |-> web.drawn, pulled |-> web.pulled]
      /\ web.lane \in [Lanes -> LaneStates] /\ l \in Lanes /\ web.shown \in Lanes /\ web.drawn \in Lanes
      /\ web.pulled \in BOOLEAN
  BY <1>1, <1>2 DEF DocumentInv, Documents
<1>4. /\ panel = "ready" /\ web.lane[l].status = "ready" /\ web' = [web EXCEPT !.lane[l].asked = TRUE]
      /\ fetches' = fetches \cup {[lane |-> l, result |-> resultIds[l], late |-> FALSE]}
      /\ UNCHANGED <<panel, queued, resultIds>>
  BY <1>2 DEF RequestRows
<1>5. PICK s, t : s = web.lane[l] /\ t = [s EXCEPT !.asked = TRUE]
  OBVIOUS
<1>6. t \in LaneStates /\ t.status = s.status /\ t.result = s.result /\ t.page = s.page /\ t.late = s.late
  BY <1>3, <1>5 DEF LaneStates
<1>7. PICK lanes : lanes = [web.lane EXCEPT ![l] = t]
  OBVIOUS
<1>8. lanes \in [Lanes -> LaneStates] /\ lanes[l] = t /\ \A k \in Lanes : k # l => lanes[k] = web.lane[k]
  BY <1>3, <1>6, <1>7
<1>9. web' = [lane |-> lanes, shown |-> web.shown, drawn |-> web.drawn, pulled |-> web.pulled]
  BY <1>3, <1>4, <1>5, <1>7
<1>10. /\ web' \in Documents /\ web'.lane = lanes /\ web'.shown = web.shown /\ web'.drawn = web.drawn
       /\ web'.pulled = web.pulled
  BY <1>3, <1>8, <1>9 DEF Documents
<1>11. \A k \in Lanes : /\ web'.lane[k].status = web.lane[k].status /\ web'.lane[k].result = web.lane[k].result
                        /\ web'.lane[k].page = web.lane[k].page /\ web'.lane[k].late = web.lane[k].late
  BY <1>5, <1>6, <1>8, <1>10
<1>12. DocumentInv'
  BY <1>1, <1>10, <1>11 DEF DocumentInv, RowsAreTheResults
<1>13. web.lane[l].result = resultIds[l] /\ resultIds[l] \in Results
  BY <1>1, <1>3, <1>4 DEF LaneInv
<1>14. PartsTypeOK'
  <2>1. [lane |-> l, result |-> resultIds[l], late |-> FALSE] \in [lane : Lanes, result : Results, late : BOOLEAN]
    BY <1>3, <1>13
  <2>2. fetches' \subseteq [lane : Lanes, result : Results, late : BOOLEAN]
    BY <1>1, <1>4, <2>1 DEF PartsTypeOK
  <2> QED BY <1>1, <1>4, <2>2 DEF PartsTypeOK
<1>15. LaneInv'
  BY <1>1, <1>4, <1>11 DEF LaneInv
<1>16. FetchInv'
  <2> SUFFICES ASSUME NEW f \in fetches', ~f.late
               PROVE  panel' = "ready" /\ web'.lane[f.lane].result = f.result /\ resultIds'[f.lane] = f.result
    BY DEF FetchInv
  <2>1. CASE f \in fetches
    <3>1. f.lane \in Lanes
      BY <1>1, <2>1 DEF PartsTypeOK
    <3> QED BY <1>1, <1>4, <1>11, <2>1, <3>1 DEF FetchInv
  <2>2. CASE f \notin fetches
    <3>1. f.lane = l /\ f.result = resultIds[l]
      BY <1>4, <2>2
    <3> QED BY <1>3, <1>4, <1>11, <1>13, <3>1
  <2> QED BY <2>1, <2>2
<1>17. QueueInv'
  BY <1>1, <1>4 DEF QueueInv
<1> QED BY <1>1, <1>12, <1>14, <1>15, <1>16, <1>17 DEF PanelInv

LEMMA RowsReadInv == ASSUME PanelInv, NEW f \in fetches, NEW ok \in BOOLEAN, RowsRead(f, ok) PROVE PanelInv'
<1>1. RunInv' /\ PartsTypeOK /\ DocumentInv /\ LaneInv /\ FetchInv /\ QueueInv
  BY RunsKept DEF RowsRead, PanelInv
<1>2. PICK m : m = Rows(f)
  OBVIOUS
<1>3. /\ f.lane \in Lanes /\ f.result \in Results /\ f.late \in BOOLEAN
      /\ m \in Posts /\ m.type = "rows" /\ m.lane = f.lane /\ m.result = f.result /\ m.late = f.late
  BY <1>1, <1>2 DEF PartsTypeOK, Rows, Posts
<1>4. fetches' \subseteq fetches /\ UNCHANGED resultIds
  BY DEF RowsRead
<1>5. CASE panel = "ready" /\ web' = Applied(web, m) /\ UNCHANGED <<panel, queued>>
  <2>1. f.late \/ f.result = web.lane[f.lane].result
    BY <1>1 DEF FetchInv
  <2>2. DocumentInv'
    BY <1>1, <1>3, <1>5, <2>1, DocumentShows
  <2>3. PartsTypeOK' /\ QueueInv'
    BY <1>1, <1>4, <1>5 DEF PartsTypeOK, QueueInv
  <2>4. ASSUME NEW l \in Lanes
        PROVE  web'.lane[l].result = web.lane[l].result /\ (web'.lane[l].status = "ready" => web.lane[l].status = "ready")
    <3>1. CASE l = m.lane
      <4>1. web'.lane[l] = LaneAfter(web.lane[l], m) /\ web.lane[l] \in LaneStates
        BY <1>1, <1>3, <1>5, <3>1, AppliedIs DEF DocumentInv, Documents
      <4> QED BY <1>3, <4>1, LaneAfterIs
    <3>2. CASE l # m.lane
      BY <1>1, <1>3, <1>5, <3>2, AppliedIs DEF DocumentInv
    <3> QED BY <3>1, <3>2
  <2>5. LaneInv'
    BY <1>1, <1>4, <1>5, <2>4 DEF LaneInv
  <2>6. FetchInv'
    BY <1>1, <1>4, <1>5, <2>4 DEF FetchInv, PartsTypeOK
  <2> QED BY <1>1, <2>2, <2>3, <2>5, <2>6 DEF PanelInv
<1>6. CASE panel # "ready" /\ UNCHANGED <<panel, web>> /\ queued' =
              IF panel = "loading" /\ Len(queued) < MaxQueued THEN Append(queued, m) ELSE queued
  <2>1. Answers(m) /\ m.late
    BY <1>1, <1>3, <1>4, <1>6 DEF Answers, IsResult, FetchInv
  <2>2. DocumentInv' /\ LaneInv' /\ FetchInv'
    BY <1>1, <1>4, <1>6 DEF DocumentInv, RowsAreTheResults, LaneInv, FetchInv
  <2>3. CASE panel = "loading" /\ Len(queued) < MaxQueued
    <3>1. queued' = Append(queued, m)
      BY <1>6, <2>3
    <3>2. QueueInv'
      BY <1>1, <1>3, <2>1, <3>1, QueueGrows
    <3>3. Len(queued') = Len(queued) + 1 /\ Len(queued) \in Nat
      BY <1>1, <1>3, <3>1 DEF QueueInv
    <3>4. PartsTypeOK'
      BY <1>1, <1>4, <1>6, <2>3, <3>3, PanelAssumption DEF PartsTypeOK
    <3> QED BY <1>1, <2>2, <3>2, <3>4 DEF PanelInv
  <2>4. CASE ~(panel = "loading" /\ Len(queued) < MaxQueued)
    <3>1. queued' = queued
      BY <1>6, <2>4
    <3> QED BY <1>1, <1>4, <1>6, <2>2, <3>1 DEF PanelInv, PartsTypeOK, QueueInv
  <2> QED BY <2>3, <2>4
<1>7. CASE UNCHANGED <<panel, queued, web>>
  BY <1>1, <1>4, <1>7 DEF PanelInv, PartsTypeOK, DocumentInv, RowsAreTheResults, LaneInv, FetchInv, QueueInv
<1> QED BY <1>2, <1>5, <1>6, <1>7 DEF RowsRead

LEMMA PanelNextInv == PanelInv /\ [PanelNext]_panelVars => PanelInv'
<1> SUFFICES ASSUME PanelInv, [PanelNext]_panelVars PROVE PanelInv'
  OBVIOUS
<1>1. CASE UNCHANGED panelVars
  BY <1>1, RestKept, RunsKept DEF panelVars, PanelInv
<1> QED BY <1>1, ExecuteInv, ProgressInv, ExecutedInv, AgentShowsInv, CancelInv, DocumentReadyInv,
           PanelClosedInv, RequestRowsInv, ShowLaneInv, RowsReadInv DEF PanelNext

THEOREM PanelInductive == PanelSpec => []PanelInv
BY PanelInitInv, PanelNextInv, PTL DEF PanelSpec

(* Rows, lane and cancel are of the run they claim to be of, however late  *)
(* the pages and however the panel closes and opens (panel.ts:100-145).    *)
THEOREM LanesShowTheirRuns == PanelSpec => []PanelSafe
<1>1. PanelInv => PanelSafe
  <2> SUFFICES ASSUME PanelInv PROVE PanelSafe
    OBVIOUS
  <2>1. /\ web.lane \in [Lanes -> [status : {"idle", "running", "ready", "failed"}, result : Results \cup {NoRun},
                                   page : Results \cup {NoRun}, asked : BOOLEAN, late : BOOLEAN]]
        /\ {web.shown, web.drawn} \subseteq Lanes /\ web.pulled \in BOOLEAN
    BY DEF PanelInv, DocumentInv, Documents, LaneStates
  <2>2. PanelTypeOK
    BY <2>1 DEF PanelInv, PartsTypeOK, RunInv, PanelTypeOK
  <2> QED BY <2>2 DEF PanelInv, RunInv, DocumentInv, PanelSafe, ScreenShowsItsLane
<1> QED BY <1>1, PanelInductive, PTL

-----------------------------------------------------------------------------
(* Registry.                                                               *)
Names == Seq(Entries)
Edits == [stage : {"idle", "asked", "read", "truncated", "written"}, op : {"none", "add", "update", "remove"},
          name : Entries \cup {NoName}, file : Files, found : Contents, doc : Lists, lost : SUBSET Entries]

FilesInv ==
    /\ file \in [Files -> Contents] /\ loaded \in [Files -> Lists] /\ problems \subseteq Files
    /\ active \in [Editors -> Entries \cup {NoName}] /\ editor \in [Editors -> Edits]

(* What a window is about to write is what was asked for, of what it read. *)
EditsInv ==
    \A w \in Editors :
        /\ editor[w].stage = "idle" => editor[w] = NoEdit
        /\ editor[w].stage # "idle" => editor[w].op # "none" /\ editor[w].name \in Entries
        /\ editor[w].stage = "read" =>
              ~Refuses(editor[w], editor[w].found) /\ editor[w].doc = Rewritten(editor[w], editor[w].found)
        /\ editor[w].lost = {}

RegistryInv == FilesInv /\ EditsInv /\ ActiveExists

-----------------------------------------------------------------------------
LEMMA ListsAre == \A s : s \in Lists <=> s \in Names /\ Len(s) <= MaxEntries + 1
<1>1. ASSUME NEW s, s \in Lists PROVE s \in Names /\ Len(s) <= MaxEntries + 1
  <2>1. PICK l \in 0..(MaxEntries + 1) : s \in [1..l -> Entries]
    BY <1>1 DEF Lists
  <2>2. l \in Nat
    BY <2>1, RegistryAssumption
  <2>3. s \in Names /\ Len(s) = l
    BY <2>1, <2>2 DEF Names
  <2> QED BY <2>1, <2>3, RegistryAssumption
<1>2. ASSUME NEW s, s \in Names, Len(s) <= MaxEntries + 1 PROVE s \in Lists
  <2>1. Len(s) \in 0..(MaxEntries + 1) /\ s \in [1..Len(s) -> Entries]
    BY <1>2, RegistryAssumption DEF Names
  <2> QED BY <2>1 DEF Lists
<1> QED BY <1>1, <1>2

(* A fold that appends some of the entries and leaves the others out: Keep *)
(* says which, of those so far.                                            *)
Sieve(Keep, f, q) ==
    /\ f[0] = <<>>
    /\ \A k \in Nat : k < Len(q) =>
          f[k + 1] = IF Keep[f[k]][q[k + 1]] THEN Append(f[k], q[k + 1]) ELSE f[k]

LEMMA SieveIs ==
    ASSUME NEW Keep, NEW f, NEW q \in Names, Sieve(Keep, f, q)
    PROVE  \A k \in Nat : k <= Len(q) =>
              /\ f[k] \in Names /\ Len(f[k]) <= k
              /\ \A i \in 1..k : (\A t \in Names : Keep[t][q[i]]) => \E j \in 1..Len(f[k]) : f[k][j] = q[i]
<1> DEFINE P(k) == /\ f[k] \in Names /\ Len(f[k]) <= k
                   /\ \A i \in 1..k : (\A t \in Names : Keep[t][q[i]]) => \E j \in 1..Len(f[k]) : f[k][j] = q[i]
           T == {k \in Nat : k <= Len(q) => P(k)}
<1>1. 0 \in T
  <2>1. f[0] = <<>> /\ <<>> \in Names /\ Len(<<>>) = 0 /\ 1..0 = {}
    BY DEF Sieve, Names
  <2>2. P(0)
    BY <2>1
  <2> QED BY <2>2
<1>2. ASSUME NEW k \in Nat, k \in T PROVE k + 1 \in T
  <2> SUFFICES ASSUME k + 1 <= Len(q) PROVE P(k + 1)
    OBVIOUS
  <2>1. k < Len(q) /\ P(k) /\ k + 1 \in 1..Len(q) /\ Len(q) \in Nat
    BY <1>2 DEF Names
  <2>2. PICK s, n : s = f[k] /\ n = q[k + 1]
    OBVIOUS
  <2>3. s \in Names /\ n \in Entries /\ Len(s) <= k /\ Len(s) \in Nat
    BY <2>1, <2>2 DEF Names
  <2>4. CASE Keep[s][n]
    <3>1. f[k + 1] = Append(s, n)
      BY <2>1, <2>2, <2>4 DEF Sieve
    <3>2. /\ f[k + 1] \in Names /\ Len(f[k + 1]) = Len(s) + 1 /\ f[k + 1][Len(s) + 1] = n
          /\ \A j \in 1..Len(s) : f[k + 1][j] = s[j]
      BY <2>3, <3>1 DEF Names
    <3>3. ASSUME NEW i \in 1..(k + 1), \A t \in Names : Keep[t][q[i]]
          PROVE  \E j \in 1..Len(f[k + 1]) : f[k + 1][j] = q[i]
      <4>1. CASE i = k + 1
        <5>1. Len(s) + 1 \in 1..Len(f[k + 1])
          BY <2>3, <3>2
        <5> QED BY <2>2, <3>2, <4>1, <5>1
      <4>2. CASE i # k + 1
        <5>1. PICK j \in 1..Len(s) : s[j] = q[i]
          <6>1. i \in 1..k
            BY <4>2
          <6> QED BY <2>1, <2>2, <3>3, <6>1
        <5>2. j \in 1..Len(f[k + 1])
          BY <2>3, <3>2
        <5> QED BY <3>2, <5>1, <5>2
      <4> QED BY <4>1, <4>2
    <3> QED BY <2>3, <3>2, <3>3
  <2>5. CASE ~Keep[s][n]
    <3>1. f[k + 1] = s
      BY <2>1, <2>2, <2>5 DEF Sieve
    <3>2. ASSUME NEW i \in 1..(k + 1), \A t \in Names : Keep[t][q[i]]
          PROVE  \E j \in 1..Len(f[k + 1]) : f[k + 1][j] = q[i]
      <4>1. i # k + 1
        BY <2>2, <2>3, <2>5, <3>2
      <4>2. i \in 1..k
        BY <4>1
      <4> QED BY <2>1, <2>2, <3>1, <3>2, <4>2
    <3> QED BY <2>3, <3>1, <3>2
  <2> QED BY <2>4, <2>5
<1>3. Nat \subseteq T
  <2> HIDE DEF T
  <2> QED BY <1>1, <1>2, Induction
<1> QED BY <1>3

(* The first entry of every name is kept.                                  *)
LEMMA DistinctFolds ==
    ASSUME NEW q \in Names
    PROVE  \E f, Keep : /\ Sieve(Keep, f, q) /\ f[Len(q)] = Distinct(q)
                       /\ \A t \in Names, m \in Entries : Keep[t][m] = (m \notin ToSet(t))
<1> DEFINE n == Len(q)
           V == Names
           K == [t \in V |-> [m \in Entries |-> (m \notin ToSet(t))]]
           More(t, m) == IF m \in ToSet(t) THEN t ELSE Append(t, m)
           step == [i \in 1..n |-> [t \in V |-> More(t, q[i])]]
           Folds(it) == it = [s \in SUBSET (1..n) |-> IF s = {} THEN <<>> ELSE More(it[s \ {Max(s)}], q[Max(s)])]
           It == CHOOSE it : Folds(it)
<1>1. n \in Nat /\ DOMAIN q = 1..n /\ \A i \in 1..n : q[i] \in Entries
  BY DEF Names
<1>2. \A i \in 1..n, t \in V : More(t, q[i]) \in V /\ step[i][t] = More(t, q[i])
  BY <1>1 DEF Names
<1>3. IsStep(step, 1..n, V)
  <2> HIDE DEF n, V, More
  <2> QED BY <1>2 DEF IsStep
<1>4. <<>> \in V
  BY DEF Names
<1>5. PICK h : IsFold(h, V, <<>>, n, step)
  <2> HIDE DEF step, n, V
  <2> QED BY <1>1, <1>3, <1>4, FoldExists
<1>6. Folds(h)
  <2> HIDE DEF V, More
  <2>1. ASSUME NEW s \in SUBSET (1..n), s # {} PROVE h[s] = More(h[s \ {Max(s)}], q[Max(s)])
    <3>1. PICK m, r : m = Max(s) /\ r = s \ {Max(s)}
      OBVIOUS
    <3>2. m \in 1..n /\ r \in SUBSET (1..n)
      BY <1>1, <2>1, <3>1, MaxIs
    <3>3. h[s] = step[m][h[r]] /\ h[r] \in V
      BY <1>5, <2>1, <3>1, <3>2 DEF IsFold
    <3> QED BY <1>2, <3>1, <3>2, <3>3
  <2> HIDE DEF n, step
  <2> QED BY <1>5, <2>1 DEF IsFold
<1>7. Folds(It)
  <2> HIDE DEF Folds
  <2> QED BY <1>6, Zenon
<1>8. Distinct(q) = It[1..n]
  BY <1>1, Zenon DEF Distinct, FoldLeft, MapThenFoldSet
<1> HIDE DEF It
<1>9. It[{}] = <<>>
  <2> HIDE DEF More
  <2> QED BY <1>7
<1>10. ASSUME NEW k \in Nat, k < n PROVE It[1..(k + 1)] = More(It[1..k], q[k + 1])
  <2> HIDE DEF More
  <2>1. PICK m, s : m = Max(1..(k + 1)) /\ s = 1..(k + 1)
    OBVIOUS
  <2>2. s \in SUBSET (1..n) /\ s # {} /\ m = Max(s) /\ m = k + 1 /\ s \ {m} = 1..k
    BY <1>1, <1>10, <2>1, PrefixIs
  <2>3. It[s] = More(It[s \ {m}], q[m])
    BY <1>7, <2>2
  <2> QED BY <2>1, <2>2, <2>3
<1>11. PICK g : g = [k \in Nat |-> It[1..k]]
  OBVIOUS
<1>12. g[0] = <<>> /\ g[n] = It[1..n]
  <2>1. 1..0 = {} /\ 0 \in Nat
    OBVIOUS
  <2> QED BY <1>1, <1>9, <1>11, <2>1
<1>13. \A k \in Nat : k < n => g[k + 1] = More(g[k], q[k + 1])
  BY <1>10, <1>11
<1>14. PICK Keep : Keep = K
  OBVIOUS
<1>15. \A t \in V, m \in Entries : Keep[t][m] = (m \notin ToSet(t))
  BY <1>14
<1>16. \A k \in 0..n : g[k] \in V
  <2> DEFINE T == {k \in Nat : k <= n => g[k] \in V}
  <2>1. 0 \in T
    BY <1>4, <1>12
  <2>2. ASSUME NEW k \in Nat, k \in T PROVE k + 1 \in T
    <3> SUFFICES ASSUME k + 1 <= n PROVE g[k + 1] \in V
      OBVIOUS
    <3>1. g[k] \in V /\ k < n /\ k + 1 \in 1..n
      BY <1>1, <2>2
    <3> QED BY <1>2, <1>13, <3>1
  <2>3. Nat \subseteq T
    <3> HIDE DEF T
    <3> QED BY <2>1, <2>2, Induction
  <2> QED BY <2>3, <1>1
<1>17. Sieve(Keep, g, q)
  <2>1. ASSUME NEW k \in Nat, k < n PROVE g[k + 1] = IF Keep[g[k]][q[k + 1]] THEN Append(g[k], q[k + 1]) ELSE g[k]
    <3>1. g[k] \in V /\ q[k + 1] \in Entries
      BY <1>1, <1>16, <2>1
    <3>2. PICK t, m : t = g[k] /\ m = q[k + 1]
      OBVIOUS
    <3>3. Keep[t][m] = (m \notin ToSet(t))
      BY <1>15, <3>1, <3>2
    <3>4. g[k + 1] = More(t, m)
      BY <1>13, <2>1, <3>2
    <3> QED BY <3>2, <3>3, <3>4
  <2> QED BY <1>12, <2>1 DEF Sieve
<1> QED BY <1>8, <1>12, <1>15, <1>17

(* Every entry of a name goes, and the others stay.                        *)
LEMMA RemovedFolds ==
    ASSUME NEW q \in Names, NEW name
    PROVE  \E f, Keep : /\ Sieve(Keep, f, q) /\ f[Len(q)] = Removed(q, name)
                       /\ \A t \in Names, m \in Entries : Keep[t][m] = (m # name)
<1> DEFINE n == Len(q)
           V == Names
           K == [t \in V |-> [m \in Entries |-> (m # name)]]
           More(t, m) == IF m = name THEN t ELSE Append(t, m)
           step == [i \in 1..n |-> [t \in V |-> More(t, q[i])]]
           Folds(it) == it = [s \in SUBSET (1..n) |-> IF s = {} THEN <<>> ELSE More(it[s \ {Max(s)}], q[Max(s)])]
           It == CHOOSE it : Folds(it)
<1>1. n \in Nat /\ DOMAIN q = 1..n /\ \A i \in 1..n : q[i] \in Entries
  BY DEF Names
<1>2. \A i \in 1..n, t \in V : More(t, q[i]) \in V /\ step[i][t] = More(t, q[i])
  BY <1>1 DEF Names
<1>3. IsStep(step, 1..n, V)
  <2> HIDE DEF n, V, More
  <2> QED BY <1>2 DEF IsStep
<1>4. <<>> \in V
  BY DEF Names
<1>5. PICK h : IsFold(h, V, <<>>, n, step)
  <2> HIDE DEF step, n, V
  <2> QED BY <1>1, <1>3, <1>4, FoldExists
<1>6. Folds(h)
  <2> HIDE DEF V, More
  <2>1. ASSUME NEW s \in SUBSET (1..n), s # {} PROVE h[s] = More(h[s \ {Max(s)}], q[Max(s)])
    <3>1. PICK m, r : m = Max(s) /\ r = s \ {Max(s)}
      OBVIOUS
    <3>2. m \in 1..n /\ r \in SUBSET (1..n)
      BY <1>1, <2>1, <3>1, MaxIs
    <3>3. h[s] = step[m][h[r]] /\ h[r] \in V
      BY <1>5, <2>1, <3>1, <3>2 DEF IsFold
    <3> QED BY <1>2, <3>1, <3>2, <3>3
  <2> HIDE DEF n, step
  <2> QED BY <1>5, <2>1 DEF IsFold
<1>7. Folds(It)
  <2> HIDE DEF Folds
  <2> QED BY <1>6, Zenon
<1>8. Removed(q, name) = It[1..n]
  BY <1>1, Zenon DEF Removed, FoldLeft, MapThenFoldSet
<1> HIDE DEF It
<1>9. It[{}] = <<>>
  <2> HIDE DEF More
  <2> QED BY <1>7
<1>10. ASSUME NEW k \in Nat, k < n PROVE It[1..(k + 1)] = More(It[1..k], q[k + 1])
  <2> HIDE DEF More
  <2>1. PICK m, s : m = Max(1..(k + 1)) /\ s = 1..(k + 1)
    OBVIOUS
  <2>2. s \in SUBSET (1..n) /\ s # {} /\ m = Max(s) /\ m = k + 1 /\ s \ {m} = 1..k
    BY <1>1, <1>10, <2>1, PrefixIs
  <2>3. It[s] = More(It[s \ {m}], q[m])
    BY <1>7, <2>2
  <2> QED BY <2>1, <2>2, <2>3
<1>11. PICK g : g = [k \in Nat |-> It[1..k]]
  OBVIOUS
<1>12. g[0] = <<>> /\ g[n] = It[1..n]
  <2>1. 1..0 = {} /\ 0 \in Nat
    OBVIOUS
  <2> QED BY <1>1, <1>9, <1>11, <2>1
<1>13. \A k \in Nat : k < n => g[k + 1] = More(g[k], q[k + 1])
  BY <1>10, <1>11
<1>14. PICK Keep : Keep = K
  OBVIOUS
<1>15. \A t \in V, m \in Entries : Keep[t][m] = (m # name)
  BY <1>14
<1>16. \A k \in 0..n : g[k] \in V
  <2> DEFINE T == {k \in Nat : k <= n => g[k] \in V}
  <2>1. 0 \in T
    BY <1>4, <1>12
  <2>2. ASSUME NEW k \in Nat, k \in T PROVE k + 1 \in T
    <3> SUFFICES ASSUME k + 1 <= n PROVE g[k + 1] \in V
      OBVIOUS
    <3>1. g[k] \in V /\ k < n /\ k + 1 \in 1..n
      BY <1>1, <2>2
    <3> QED BY <1>2, <1>13, <3>1
  <2>3. Nat \subseteq T
    <3> HIDE DEF T
    <3> QED BY <2>1, <2>2, Induction
  <2> QED BY <2>3, <1>1
<1>17. Sieve(Keep, g, q)
  <2>1. ASSUME NEW k \in Nat, k < n PROVE g[k + 1] = IF Keep[g[k]][q[k + 1]] THEN Append(g[k], q[k + 1]) ELSE g[k]
    <3>1. g[k] \in V /\ q[k + 1] \in Entries
      BY <1>1, <1>16, <2>1
    <3>2. PICK t, m : t = g[k] /\ m = q[k + 1]
      OBVIOUS
    <3>3. Keep[t][m] = (m # name)
      BY <1>15, <3>1, <3>2
    <3>4. g[k + 1] = More(t, m)
      BY <1>13, <2>1, <3>2
    <3> QED BY <3>2, <3>3, <3>4
  <2> QED BY <1>12, <2>1 DEF Sieve
<1> QED BY <1>8, <1>12, <1>15, <1>17

LEMMA DistinctIs == \A q \in Names : Distinct(q) \in Names /\ Len(Distinct(q)) <= Len(q)
<1> SUFFICES ASSUME NEW q \in Names PROVE Distinct(q) \in Names /\ Len(Distinct(q)) <= Len(q)
  OBVIOUS
<1>1. PICK f, Keep : Sieve(Keep, f, q) /\ f[Len(q)] = Distinct(q)
  BY DistinctFolds
<1>2. Len(q) \in Nat /\ Len(q) <= Len(q)
  BY DEF Names
<1> QED BY <1>1, <1>2, SieveIs

LEMMA RemovedIs ==
    ASSUME NEW q \in Names, NEW name
    PROVE  /\ Removed(q, name) \in Names /\ Len(Removed(q, name)) <= Len(q)
           /\ ToSet(q) \subseteq ToSet(Removed(q, name)) \cup {name}
<1>1. PICK f, Keep : /\ Sieve(Keep, f, q) /\ f[Len(q)] = Removed(q, name)
                     /\ \A t \in Names, m \in Entries : Keep[t][m] = (m # name)
  BY RemovedFolds
<1>2. Len(q) \in Nat /\ Len(q) <= Len(q) /\ DOMAIN q = 1..Len(q) /\ \A i \in 1..Len(q) : q[i] \in Entries
  BY DEF Names
<1>3. PICK r : r = Removed(q, name)
  OBVIOUS
<1>4. /\ r \in Names /\ Len(r) <= Len(q)
      /\ \A i \in 1..Len(q) : (\A t \in Names : Keep[t][q[i]]) => \E j \in 1..Len(r) : r[j] = q[i]
  BY <1>1, <1>2, <1>3, SieveIs
<1>5. DOMAIN r = 1..Len(r)
  BY <1>4 DEF Names
<1>6. ASSUME NEW m \in ToSet(q), m # name PROVE m \in ToSet(r)
  <2>1. PICK i \in 1..Len(q) : q[i] = m
    BY <1>2 DEF ToSet
  <2>2. \A t \in Names : Keep[t][q[i]]
    BY <1>1, <1>2, <1>6, <2>1
  <2>3. PICK j \in 1..Len(r) : r[j] = m
    BY <1>4, <2>1, <2>2
  <2> QED BY <1>5, <2>3 DEF ToSet
<1> QED BY <1>3, <1>4, <1>6

LEMMA NamesOf == \A q \in Names : ToSet(q) \subseteq Entries /\ (q # <<>> => q[1] \in ToSet(q))
<1> SUFFICES ASSUME NEW q \in Names PROVE ToSet(q) \subseteq Entries /\ (q # <<>> => q[1] \in ToSet(q))
  OBVIOUS
<1>1. DOMAIN q = 1..Len(q) /\ Len(q) \in Nat /\ \A i \in 1..Len(q) : q[i] \in Entries
  BY DEF Names
<1>2. q # <<>> => 1 \in 1..Len(q)
  BY DEF Names
<1> QED BY <1>1, <1>2 DEF ToSet

(* What the lists loads, and what a window lists.                       *)
LEMMA LoadIs == \A content \in Contents : load(content) \in Lists
<1> SUFFICES ASSUME NEW content \in Contents PROVE load(content) \in Lists
  OBVIOUS
<1>1. content.entries \in Names /\ Len(content.entries) <= MaxEntries + 1
  BY ListsAre DEF Contents
<1>2. PICK q : q = content.entries
  OBVIOUS
<1>3. Distinct(q) \in Names /\ Len(Distinct(q)) <= Len(q) /\ Len(q) \in Nat /\ Len(Distinct(q)) \in Nat
  BY <1>1, <1>2, DistinctIs DEF Names
<1>4. Distinct(q) \in Lists
  BY <1>1, <1>2, <1>3, ListsAre, RegistryAssumption
<1>5. <<>> \in Lists
  <2>1. <<>> \in Names /\ Len(<<>>) = 0
    BY DEF Names
  <2> QED BY <2>1, ListsAre, RegistryAssumption
<1> QED BY <1>2, <1>4, <1>5 DEF load

LEMMA VisibleIs == \A lists \in [Files -> Lists] : visible(lists) \in Names
<1> SUFFICES ASSUME NEW lists \in [Files -> Lists] PROVE visible(lists) \in Names
  OBVIOUS
<1>1. lists["global"] \in Names /\ lists["workspace"] \in Names
  BY ListsAre DEF Files
<1>2. lists["global"] \o lists["workspace"] \in Names
  BY <1>1 DEF Names
<1> QED BY <1>2, DistinctIs DEF visible

LEMMA ActiveAfterIs ==
    ASSUME NEW a \in Entries \cup {NoName}, NEW list \in Names
    PROVE  ActiveAfter(a, list) \in ToSet(list) \cup {NoName}
<1>1. list # <<>> => list[1] \in ToSet(list)
  BY NamesOf
<1>2. Len(list) = 1 => list # <<>>
  BY DEF Names
<1> QED BY <1>1, <1>2 DEF ActiveAfter

(* Reading the files again.                                                *)
LEMMA ReloadingKeeps ==
    ASSUME FilesInv, NEW chosen \in [Editors -> Entries \cup {NoName}], Reloading(chosen)
    PROVE  /\ loaded' \in [Files -> Lists] /\ problems' \subseteq Files
           /\ active' \in [Editors -> Entries \cup {NoName}]
           /\ ActiveExists'
<1>1. Reread \in [Files -> Lists]
  BY LoadIs DEF FilesInv, Reread
<1>2. loaded' = Reread /\ problems' = ProblemsNow
  BY DEF Reloading
<1>3. PICK list : list = visible(Reread)
  OBVIOUS
<1>4. list \in Names /\ ToSet(list) \subseteq Entries
  BY <1>1, <1>3, VisibleIs, NamesOf
<1>5. active' = [w \in Editors |-> ActiveAfter(chosen[w], list)]
  BY <1>3 DEF Reloading
<1>6. \A w \in Editors : active'[w] \in ToSet(list) \cup {NoName}
  BY <1>4, <1>5, ActiveAfterIs
<1>7. ToSet(list) = ToSet(visible(loaded'))
  BY <1>2, <1>3
<1>8. ActiveExists'
  BY <1>6, <1>7 DEF ActiveExists
<1>9. active' \in [Editors -> Entries \cup {NoName}]
  BY <1>4, <1>5, <1>6
<1>10. problems' \subseteq Files
  BY <1>2 DEF ProblemsNow
<1> QED BY <1>1, <1>2, <1>8, <1>9, <1>10

LEMMA NoEditIs == NoEdit \in Edits /\ Unbroken \in Contents /\ Truncated \in Contents /\ <<>> \in Lists
<1>1. <<>> \in Lists
  <2>1. <<>> \in Names /\ Len(<<>>) = 0
    BY DEF Names
  <2> QED BY <2>1, ListsAre, RegistryAssumption
<1>2. Unbroken \in Contents /\ Truncated \in Contents
  BY <1>1 DEF Unbroken, Truncated, Contents
<1> QED BY <1>1, <1>2 DEF NoEdit, Edits, Files

(* What a rewrite makes of a file that may still be added to.              *)
LEMMA RewrittenIs ==
    ASSUME NEW e \in Edits, e.op # "none", e.name \in Entries, NEW content \in Contents,
           Len(content.entries) <= MaxEntries
    PROVE  Rewritten(e, content) \in Lists
<1>1. PICK q : q = IF content.ok THEN content.entries ELSE <<>>
  OBVIOUS
<1>2. q \in Names /\ Len(q) <= MaxEntries /\ Len(q) \in Nat
  <2>1. content.entries \in Names
    BY ListsAre DEF Contents
  <2>2. <<>> \in Names /\ Len(<<>>) = 0
    BY DEF Names
  <2> QED BY <1>1, <2>1, <2>2, RegistryAssumption DEF Names
<1>3. Append(q, e.name) \in Names /\ Len(Append(q, e.name)) = Len(q) + 1
  BY <1>2 DEF Names
<1>4. Removed(q, e.name) \in Names /\ Len(Removed(q, e.name)) <= Len(q) /\ Len(Removed(q, e.name)) \in Nat
  BY <1>2, RemovedIs DEF Names
<1>5. Append(q, e.name) \in Lists /\ Removed(q, e.name) \in Lists /\ q \in Lists
  <2>1. PICK longer, shorter : longer = Append(q, e.name) /\ shorter = Removed(q, e.name)
    OBVIOUS
  <2>2. longer \in Names /\ Len(longer) = Len(q) + 1 /\ shorter \in Names /\ Len(shorter) <= Len(q) /\ Len(shorter) \in Nat
    BY <1>3, <1>4, <2>1
  <2>3. Len(longer) <= MaxEntries + 1 /\ Len(shorter) <= MaxEntries + 1 /\ Len(q) <= MaxEntries + 1
    BY <1>2, <2>2, RegistryAssumption
  <2>4. longer \in Lists /\ shorter \in Lists /\ q \in Lists
    BY <1>2, <2>2, <2>3, ListsAre
  <2> QED BY <2>1, <2>4
<1>6. Rewritten(e, content) \in {Append(q, e.name), Removed(q, e.name), q}
  BY <1>1 DEF Rewritten
<1> QED BY <1>5, <1>6

LEMMA NothingElseGoes ==
    ASSUME NEW e \in Edits, e.op # "none", NEW content \in Contents,
           content = e.found => (~Refuses(e, content) /\ e.doc = Rewritten(e, content))
    PROVE  LostEntries(e, content) = {}
<1>1. SUFFICES ASSUME content = e.found, ~(e.op = "add" /\ ~content.ok)
      PROVE ToSet(content.entries) \ (ToSet(e.doc) \cup (IF e.op = "remove" THEN {e.name} ELSE {})) = {}
  BY DEF LostEntries
<1>2. content.ok /\ e.doc = Rewritten(e, content)
  BY <1>1 DEF Refuses, Contents, Edits
<1>3. PICK q : q = content.entries
  OBVIOUS
<1>4. q \in Names
  BY <1>3, ListsAre DEF Contents
<1>5. CASE e.op = "add"
  <2>1. e.doc = Append(q, e.name)
    BY <1>2, <1>3, <1>5 DEF Rewritten
  <2>2. \A i \in DOMAIN q : i \in DOMAIN e.doc /\ e.doc[i] = q[i]
    BY <1>4, <2>1 DEF Names
  <2> QED BY <1>3, <2>2 DEF ToSet
<1>6. CASE e.op = "remove"
  <2>1. e.doc = Removed(q, e.name)
    BY <1>2, <1>3, <1>6 DEF Rewritten
  <2> QED BY <1>3, <1>4, <1>6, <2>1, RemovedIs
<1>7. CASE e.op \notin {"add", "remove"}
  <2>1. e.doc = q
    BY <1>2, <1>3, <1>7 DEF Rewritten
  <2> QED BY <1>3, <2>1
<1> QED BY <1>5, <1>6, <1>7

-----------------------------------------------------------------------------
LEMMA RegistryInitOK == RegistryInit => RegistryInv
<1> SUFFICES ASSUME RegistryInit PROVE RegistryInv
  OBVIOUS
<1>1. \A n \in Entries : [ok |-> TRUE, entries |-> <<n>>] \in Contents
  <2> TAKE n \in Entries
  <2>1. <<n>> \in Names /\ Len(<<n>>) = 1
    BY DEF Names
  <2>2. PICK one : one = <<n>>
    OBVIOUS
  <2>3. one \in Names /\ Len(one) <= MaxEntries + 1
    BY <2>1, <2>2, RegistryAssumption
  <2>4. one \in Lists
    BY <2>3, ListsAre
  <2> QED BY <2>2, <2>4 DEF Contents
<1>2. file \in [Files -> Contents]
  BY <1>1, NoEditIs DEF RegistryInit
<1>3. loaded \in [Files -> Lists]
  BY <1>2, LoadIs DEF RegistryInit
<1>4. FilesInv
  BY <1>2, <1>3, NoEditIs DEF RegistryInit, FilesInv
<1>5. EditsInv
  BY DEF RegistryInit, EditsInv, NoEdit
<1>6. ActiveExists
  BY DEF RegistryInit, ActiveExists
<1> QED BY <1>4, <1>5, <1>6 DEF RegistryInv

(* One window moves its edit on: the others keep theirs.                   *)
EditOK(e) ==
    /\ e \in Edits
    /\ e.stage = "idle" => e = NoEdit
    /\ e.stage # "idle" => e.op # "none" /\ e.name \in Entries
    /\ e.stage = "read" => ~Refuses(e, e.found) /\ e.doc = Rewritten(e, e.found)
    /\ e.lost = {}

LEMMA EditKeeps ==
    ASSUME FilesInv, EditsInv, NEW w \in Editors, NEW e, EditOK(e), editor' = [editor EXCEPT ![w] = e]
    PROVE  editor' \in [Editors -> Edits] /\ EditsInv'
<1>1. editor' \in [Editors -> Edits]
  BY DEF FilesInv, EditOK
<1>2. editor'[w] = e /\ \A v \in Editors : v # w => editor'[v] = editor[v]
  BY DEF FilesInv
<1>3. ASSUME NEW v \in Editors PROVE EditOK(editor'[v])
  <2>1. CASE v = w
    BY <1>2, <2>1
  <2>2. CASE v # w
    <3>1. editor'[v] = editor[v]
      BY <1>2, <2>2
    <3>2. EditOK(editor[v])
      BY DEF FilesInv, EditsInv, EditOK
    <3> QED BY <3>1, <3>2
  <2> QED BY <2>1, <2>2
<1>4. EditsInv'
  BY <1>3 DEF EditsInv, EditOK
<1> QED BY <1>1, <1>4

LEMMA EditIs ==
    ASSUME NEW e \in Edits
    PROVE  /\ e = [stage |-> e.stage, op |-> e.op, name |-> e.name, file |-> e.file, found |-> e.found,
                   doc |-> e.doc, lost |-> e.lost]
           /\ e.stage \in {"idle", "asked", "read", "truncated", "written"} /\ e.op \in {"none", "add", "update", "remove"}
           /\ e.name \in Entries \cup {NoName} /\ e.file \in Files /\ e.found \in Contents /\ e.doc \in Lists
           /\ e.lost \in SUBSET Entries
BY DEF Edits

LEMMA AskEditOK ==
    ASSUME RegistryInv, NEW w \in Editors, NEW op \in {"add", "update", "remove"}, NEW n \in Entries, NEW f \in Files,
           AskEdit(w, op, n, f)
    PROVE  RegistryInv'
<1> USE DEF RegistryInv
<1>1. PICK e : e = [NoEdit EXCEPT !.stage = "asked", !.op = op, !.name = n, !.file = f]
  OBVIOUS
<1>2. e = [stage |-> "asked", op |-> op, name |-> n, file |-> f, found |-> Unbroken, doc |-> <<>>, lost |-> {}]
  BY <1>1 DEF NoEdit
<1>3. EditOK(e)
  BY <1>2, NoEditIs DEF EditOK, Edits
<1>4. editor' = [editor EXCEPT ![w] = e] /\ UNCHANGED <<file, loaded, problems, active>>
  BY <1>1, Zenon DEF AskEdit
<1>5. editor' \in [Editors -> Edits] /\ EditsInv'
  BY <1>3, <1>4, EditKeeps
<1> QED BY <1>4, <1>5 DEF FilesInv, ActiveExists

LEMMA ReadFileOK ==
    ASSUME RegistryInv, NEW w \in Editors, ReadFile(w)
    PROVE  RegistryInv'
<1> USE DEF RegistryInv
<1>1. PICK e : e = editor[w]
  OBVIOUS
<1>2. PICK content : content = file[e.file]
  OBVIOUS
<1>3. e \in Edits /\ EditOK(e)
  BY <1>1 DEF FilesInv, EditsInv, EditOK
<1>4. content \in Contents /\ e.stage = "asked" /\ Len(content.entries) <= MaxEntries
  BY <1>1, <1>2, <1>3 DEF ReadFile, FilesInv, Edits
<1>5. e.op # "none" /\ e.name \in Entries
  BY <1>3, <1>4 DEF EditOK
<1>6. PICK d : d = IF Refuses(e, content) THEN NoEdit
                   ELSE [e EXCEPT !.stage = "read", !.found = content, !.doc = Rewritten(e, content)]
  OBVIOUS
<1>7. EditOK(d)
  <2>1. CASE Refuses(e, content)
    <3>1. d = NoEdit
      BY <1>6, <2>1
    <3>2. NoEdit.stage = "idle" /\ NoEdit.lost = {}
      BY DEF NoEdit
    <3> QED BY <3>1, <3>2, NoEditIs DEF EditOK
  <2>2. CASE ~Refuses(e, content)
    <3>1. PICK doc : doc = Rewritten(e, content)
      OBVIOUS
    <3>2. doc \in Lists
      BY <1>3, <1>4, <1>5, <3>1, RewrittenIs
    <3>3. d = [stage |-> "read", op |-> e.op, name |-> e.name, file |-> e.file, found |-> content, doc |-> doc, lost |-> e.lost]
      <4>1. d = [e EXCEPT !.stage = "read", !.found = content, !.doc = doc]
        BY <1>6, <2>2, <3>1
      <4>2. e = [stage |-> e.stage, op |-> e.op, name |-> e.name, file |-> e.file, found |-> e.found, doc |-> e.doc, lost |-> e.lost]
        BY <1>3, EditIs
      <4> QED BY <4>1, <4>2
    <3>4. d \in Edits
      BY <1>3, <1>4, <3>2, <3>3, EditIs DEF Edits
    <3>5. /\ d.stage = "read" /\ d.op = e.op /\ d.name = e.name /\ d.found = content /\ d.doc = doc /\ d.lost = e.lost
      BY <3>3
    <3>6. ~Refuses(d, d.found)
      BY <2>2, <3>5 DEF Refuses
    <3>7. Rewritten(d, d.found) = Rewritten(e, content)
      BY <3>5, Zenon DEF Rewritten
    <3> QED BY <1>3, <1>5, <3>1, <3>4, <3>5, <3>6, <3>7 DEF EditOK
  <2> QED BY <2>1, <2>2
<1>8. editor' = [editor EXCEPT ![w] = d] /\ UNCHANGED <<file, loaded, problems, active>>
  BY <1>1, <1>2, <1>6, Zenon DEF ReadFile
<1>9. editor' \in [Editors -> Edits] /\ EditsInv'
  BY <1>7, <1>8, EditKeeps
<1> QED BY <1>8, <1>9 DEF FilesInv, ActiveExists

LEMMA TruncateFileOK ==
    ASSUME RegistryInv, NEW w \in Editors, TruncateFile(w)
    PROVE  RegistryInv'
<1> USE DEF RegistryInv
<1>1. PICK e : e = editor[w]
  OBVIOUS
<1>2. e \in Edits /\ EditOK(e)
  BY <1>1 DEF FilesInv, EditsInv, EditOK
<1>3. PICK content : content = file[e.file]
  OBVIOUS
<1>4. content \in Contents /\ e.stage = "read" /\ e.op # "none" /\ e.name \in Entries
  BY <1>1, <1>2, <1>3 DEF TruncateFile, FilesInv, Edits, EditOK
<1>5. LostEntries(e, content) = {}
  BY <1>2, <1>4, NothingElseGoes DEF EditOK
<1>6. PICK d : d = [e EXCEPT !.stage = "truncated", !.found = Unbroken, !.lost = LostEntries(e, content)]
  OBVIOUS
<1>7. d = [stage |-> "truncated", op |-> e.op, name |-> e.name, file |-> e.file, found |-> Unbroken, doc |-> e.doc, lost |-> {}]
  <2>1. e = [stage |-> e.stage, op |-> e.op, name |-> e.name, file |-> e.file, found |-> e.found, doc |-> e.doc, lost |-> e.lost]
    BY <1>2, EditIs
  <2>2. d = [e EXCEPT !.stage = "truncated", !.found = Unbroken, !.lost = {}]
    BY <1>5, <1>6
  <2> QED BY <2>1, <2>2
<1>8. EditOK(d)
  BY <1>2, <1>4, <1>7, EditIs, NoEditIs DEF EditOK, Edits
<1>9. editor' = [editor EXCEPT ![w] = d]
  BY <1>1, <1>3, <1>6, Zenon DEF TruncateFile
<1>10. editor' \in [Editors -> Edits] /\ EditsInv'
  BY <1>8, <1>9, EditKeeps
<1>11. file' \in [Files -> Contents] /\ UNCHANGED <<loaded, problems, active>>
  BY NoEditIs DEF TruncateFile, FilesInv
<1> QED BY <1>10, <1>11 DEF FilesInv, ActiveExists

LEMMA WriteFileOK ==
    ASSUME RegistryInv, NEW w \in Editors, WriteFile(w)
    PROVE  RegistryInv'
<1> USE DEF RegistryInv
<1>1. PICK e : e = editor[w]
  OBVIOUS
<1>2. e \in Edits /\ EditOK(e)
  BY <1>1 DEF FilesInv, EditsInv, EditOK
<1>3. e.stage = "truncated" /\ e.op # "none" /\ e.name \in Entries
  BY <1>1, <1>2 DEF WriteFile, EditOK
<1>4. PICK d : d = [e EXCEPT !.stage = "written", !.doc = <<>>, !.lost = {}]
  OBVIOUS
<1>5. d = [stage |-> "written", op |-> e.op, name |-> e.name, file |-> e.file, found |-> e.found, doc |-> <<>>, lost |-> {}]
  <2>1. e = [stage |-> e.stage, op |-> e.op, name |-> e.name, file |-> e.file, found |-> e.found, doc |-> e.doc, lost |-> e.lost]
    BY <1>2, EditIs
  <2>2. d = [e EXCEPT !.stage = "written", !.doc = <<>>, !.lost = {}]
    BY <1>4
  <2> QED BY <2>1, <2>2
<1>6. EditOK(d)
  BY <1>2, <1>3, <1>5, EditIs, NoEditIs DEF EditOK, Edits
<1>7. editor' = [editor EXCEPT ![w] = d]
  BY <1>1, <1>4, Zenon DEF WriteFile
<1>8. editor' \in [Editors -> Edits] /\ EditsInv'
  BY <1>6, <1>7, EditKeeps
<1>9. file' \in [Files -> Contents] /\ UNCHANGED <<loaded, problems, active>>
  <2>1. file' = [file EXCEPT ![e.file] = [ok |-> TRUE, entries |-> e.doc]]
    BY <1>1 DEF WriteFile
  <2>2. [ok |-> TRUE, entries |-> e.doc] \in Contents
    BY <1>2, EditIs DEF Contents
  <2> QED BY <2>1, <2>2 DEF WriteFile, FilesInv
<1> QED BY <1>8, <1>9 DEF FilesInv, ActiveExists

LEMMA SavedOK ==
    ASSUME RegistryInv, NEW w \in Editors, Saved(w)
    PROVE  RegistryInv'
<1> USE DEF RegistryInv
<1>1. PICK chosen : chosen = IF editor[w].op = "add" THEN [active EXCEPT ![w] = editor[w].name] ELSE active
  OBVIOUS
<1>2. chosen \in [Editors -> Entries \cup {NoName}]
  BY <1>1 DEF FilesInv, Edits
<1>3. Reloading(chosen) /\ UNCHANGED file /\ editor' = [editor EXCEPT ![w] = NoEdit]
  BY <1>1, Zenon DEF Saved
<1>4. EditOK(NoEdit)
  BY NoEditIs DEF EditOK, NoEdit
<1>5. editor' \in [Editors -> Edits] /\ EditsInv'
  BY <1>3, <1>4, EditKeeps
<1> QED BY <1>2, <1>3, <1>5, ReloadingKeeps DEF FilesInv

LEMMA OthersOK ==
    ASSUME RegistryInv
    PROVE  /\ ReloadFiles => RegistryInv'
           /\ \A w \in Editors, n \in Entries : PickActive(w, n) => RegistryInv'
           /\ \A f \in Files : HandEdit(f) => RegistryInv'
           /\ UNCHANGED registryVars => RegistryInv'
<1> USE DEF RegistryInv
<1>1. ASSUME ReloadFiles PROVE RegistryInv'
  <2>1. Reloading(active) /\ UNCHANGED <<file, editor>> /\ active \in [Editors -> Entries \cup {NoName}]
    BY <1>1 DEF ReloadFiles, FilesInv
  <2>2. EditsInv'
    BY <2>1 DEF EditsInv
  <2> QED BY <2>1, <2>2, ReloadingKeeps DEF FilesInv
<1>2. ASSUME NEW w \in Editors, NEW n \in Entries, PickActive(w, n) PROVE RegistryInv'
  <2>1. n \in ToSet(visible(loaded)) /\ active' = [active EXCEPT ![w] = n] /\ UNCHANGED <<file, loaded, problems, editor>>
    BY <1>2 DEF PickActive
  <2>2. ActiveExists'
    BY <2>1 DEF ActiveExists, FilesInv
  <2>3. EditsInv'
    BY <2>1 DEF EditsInv
  <2> QED BY <2>1, <2>2, <2>3 DEF FilesInv
<1>3. ASSUME NEW f \in Files, HandEdit(f) PROVE RegistryInv'
  <2>1. file' = [file EXCEPT ![f].ok = ~@] /\ UNCHANGED <<loaded, problems, editor, active>>
    BY <1>3 DEF HandEdit
  <2>2. file' \in [Files -> Contents]
    BY <2>1 DEF FilesInv, Contents
  <2>3. EditsInv' /\ ActiveExists'
    BY <2>1 DEF EditsInv, ActiveExists
  <2> QED BY <2>1, <2>2, <2>3 DEF FilesInv
<1>4. ASSUME UNCHANGED registryVars PROVE RegistryInv'
  BY <1>4 DEF registryVars, FilesInv, EditsInv, ActiveExists
<1> QED BY <1>1, <1>2, <1>3, <1>4

(* The invariant is inductive.                                             *)
THEOREM RegistryInductive == RegistrySpec => []RegistryInv
<1>1. RegistryInit => RegistryInv
  BY RegistryInitOK
<1>2. RegistryInv /\ [RegistryNext]_registryVars => RegistryInv'
  <2> SUFFICES ASSUME RegistryInv, [RegistryNext]_registryVars PROVE RegistryInv'
    OBVIOUS
  <2>1. ASSUME NEW w \in Editors, ReadFile(w) \/ TruncateFile(w) \/ WriteFile(w) \/ Saved(w) PROVE RegistryInv'
    BY <2>1, ReadFileOK, TruncateFileOK, WriteFileOK, SavedOK
  <2>2. ASSUME NEW w \in Editors, NEW op \in {"add", "update", "remove"}, NEW n \in Entries, NEW f \in Files,
               AskEdit(w, op, n, f)
        PROVE  RegistryInv'
    BY <2>2, AskEditOK
  <2> QED BY <2>1, <2>2, OthersOK DEF RegistryNext
<1> QED BY <1>1, <1>2, PTL DEF RegistrySpec

(* An edit that a window makes takes nobody else's entry, unless another   *)
(* process wrote the file in between, and the connection a window names    *)
(* exists (connectionsFile.ts:24-90, session.ts:41-43).                    *)
THEOREM EditsTakeNobodysEntry == RegistrySpec => []RegistrySafe
<1>1. RegistryInv => RegistrySafe
  <2> SUFFICES ASSUME RegistryInv PROVE RegistrySafe
    OBVIOUS
  <2>1. RegistryTypeOK
    BY DEF RegistryInv, FilesInv, EditsInv, Edits, RegistryTypeOK
  <2>2. OnlyTheNamedEntryGoes
    BY DEF RegistryInv, EditsInv, OnlyTheNamedEntryGoes
  <2> QED BY <2>1, <2>2 DEF RegistryInv, RegistrySafe
<1> QED BY <1>1, RegistryInductive, PTL

-----------------------------------------------------------------------------
(* SqlText.  What the scanner knows after every token: its mode and depth. *)
Modes == {"code", "line-comment", "block-comment", "quoted"}
DepthAt(m, d, t) == IF RegionOf(m, t) = "code" /\ t = "(" THEN d + 1 ELSE d
DepthAfter(m, d, t) ==
    IF RegionOf(m, t) = "code" /\ t = ")" THEN IF DepthAt(m, d, t) = 0 THEN 0 ELSE DepthAt(m, d, t) - 1
    ELSE DepthAt(m, d, t)

Scans(m, d, s) ==
    /\ m \in [0..Len(s) -> Modes] /\ d \in [0..Len(s) -> Nat]
    /\ m[0] = "code" /\ d[0] = 0
    /\ \A k \in 0..(Len(s) - 1) : /\ m[k + 1] = ModeAfter(m[k], s[k + 1])
                                  /\ d[k + 1] = DepthAfter(m[k], d[k], s[k + 1])

(* What it reports of each.                                                *)
Reports(m, d, s) ==
    [i \in 1..Len(s) |->
        [char |-> s[i], region |-> RegionOf(m[i - 1], s[i]), depth |-> DepthAt(m[i - 1], d[i - 1], s[i])]]

(* Every text there can be: what may be typed and what is inserted.        *)
Chars == Tokens \cup DOMAIN Directives \cup Words \cup Signs
Texts == Seq(Chars)
Heard == [char : Chars, region : Modes, depth : Nat]
Hearings == [mode : Modes, depth : Nat, out : Seq(Heard)]

(* A text and what the scanner makes of it.                                *)
Scanned(m, d, s) ==
    /\ s \in Texts /\ Scans(m, d, s) /\ scanSql(s) = Reports(m, d, s)
    /\ ScanFrom(s).mode = m[Len(s)] /\ ScanFrom(s).depth = d[Len(s)]

LEMMA ModesAre ==
    ASSUME NEW m \in Modes, NEW t
    PROVE  RegionOf(m, t) \in Modes /\ ModeAfter(m, t) \in Modes
<1>1. RegionOf(m, t) \in Modes
  <2>1. CASE t \notin DOMAIN Directives
    BY <2>1 DEF RegionOf, Modes, IsDirective
  <2>2. CASE t \in DOMAIN Directives
    <3>1. t \notin Signs
      BY <2>2, TextAssumption
    <3> QED BY <2>2, <3>1 DEF RegionOf, Modes, IsDirective, Signs
  <2> QED BY <2>1, <2>2
<1> QED BY <1>1 DEF ModeAfter, Modes

(* Tokens in code.                                                         *)
LEMMA CodeTokens ==
    /\ \A t : t \notin Signs \cup DOMAIN Directives => RegionOf("code", t) = "code" /\ ModeAfter("code", t) = "code"
    /\ \A t \in {"nl", "semicolon", "(", ")"} : RegionOf("code", t) = "code" /\ ModeAfter("code", t) = "code"
    /\ \A t \in DOMAIN Directives : RegionOf("code", t) = "line-comment" /\ ModeAfter("code", t) = "line-comment"
    /\ ModeAfter("line-comment", "nl") = "code" /\ RegionOf("line-comment", "nl") = "code"
    /\ \A m, t : RegionOf(m, t) = "code" => m \in {"code", "line-comment"} /\ (m = "line-comment" => t = "nl")
<1>1. ASSUME NEW t, t \notin Signs \cup DOMAIN Directives PROVE RegionOf("code", t) = "code"
  BY <1>1 DEF RegionOf, IsDirective, Signs
<1>2. ASSUME NEW t \in {"nl", "semicolon", "(", ")"} PROVE RegionOf("code", t) = "code"
  <2>1. t \notin DOMAIN Directives
    BY TextAssumption DEF Signs
  <2> QED BY <2>1 DEF RegionOf, IsDirective
<1>3. ASSUME NEW t \in DOMAIN Directives PROVE RegionOf("code", t) = "line-comment"
  <2>1. t \notin Signs
    BY TextAssumption
  <2> QED BY <2>1 DEF RegionOf, IsDirective, Signs
<1>4. RegionOf("line-comment", "nl") = "code"
  BY DEF RegionOf
<1>5. ASSUME NEW m, NEW t, RegionOf(m, t) = "code" PROVE m \in {"code", "line-comment"} /\ (m = "line-comment" => t = "nl")
  <2>1. CASE t \notin DOMAIN Directives
    BY <1>5, <2>1 DEF RegionOf, IsDirective
  <2>2. CASE t \in DOMAIN Directives
    <3>1. t \notin Signs
      BY <2>2, TextAssumption
    <3> QED BY <1>5, <2>2, <3>1 DEF RegionOf, IsDirective, Signs
  <2> QED BY <2>1, <2>2
<1>6. \A t : ModeAfter("code", t) = RegionOf("code", t) /\ ModeAfter("line-comment", t) = RegionOf("line-comment", t)
  BY DEF ModeAfter
<1> QED BY <1>1, <1>2, <1>3, <1>4, <1>5, <1>6

LEMMA DepthsAre ==
    ASSUME NEW m, NEW d \in Nat, NEW t
    PROVE  DepthAt(m, d, t) \in Nat /\ DepthAfter(m, d, t) \in Nat
  BY DEF DepthAt, DepthAfter

(* One token more.                                                         *)
LEMMA ReportIs ==
    ASSUME NEW v \in Hearings, NEW t \in Chars
    PROVE  /\ Report(v, t) \in Hearings
           /\ Report(v, t).mode = ModeAfter(v.mode, t) /\ Report(v, t).depth = DepthAfter(v.mode, v.depth, t)
           /\ Report(v, t).out = Append(v.out, [char |-> t, region |-> RegionOf(v.mode, t), depth |-> DepthAt(v.mode, v.depth, t)])
<1>1. v.mode \in Modes /\ v.depth \in Nat /\ v.out \in Seq(Heard)
  BY DEF Hearings
<1>2. PICK e : e = [char |-> t, region |-> RegionOf(v.mode, t), depth |-> DepthAt(v.mode, v.depth, t)]
  OBVIOUS
<1>3. /\ RegionOf(v.mode, t) \in Modes /\ ModeAfter(v.mode, t) \in Modes
      /\ DepthAt(v.mode, v.depth, t) \in Nat /\ DepthAfter(v.mode, v.depth, t) \in Nat
  BY <1>1, ModesAre, DepthsAre
<1>4. e \in Heard
  BY <1>2, <1>3 DEF Heard
<1>5. Report(v, t) = [mode |-> ModeAfter(v.mode, t), depth |-> DepthAfter(v.mode, v.depth, t), out |-> Append(v.out, e)]
  BY <1>2 DEF Report, DepthAfter, DepthAt
<1>6. Append(v.out, e) \in Seq(Heard)
  BY <1>1, <1>4
<1> HIDE DEF Heard
<1> QED BY <1>2, <1>3, <1>5, <1>6 DEF Hearings

(* The fold of the scanner, one token after another.                       *)
LEMMA ScanFolds ==
    ASSUME NEW s \in Texts
    PROVE  \E g : /\ g[0] = [mode |-> "code", depth |-> 0, out |-> <<>>] /\ g[Len(s)] = ScanFrom(s)
                  /\ \A k \in Nat : k < Len(s) => g[k + 1] = Report(g[k], s[k + 1])
<1> DEFINE n == Len(s)
           w == [mode |-> "code", depth |-> 0, out |-> <<>>]
           step == [i \in 1..n |-> [v \in Hearings |-> Report(v, s[i])]]
           Folds(it) == it = [z \in SUBSET (1..n) |-> IF z = {} THEN w ELSE Report(it[z \ {Max(z)}], s[Max(z)])]
           It == CHOOSE it : Folds(it)
<1>1. n \in Nat /\ DOMAIN s = 1..n /\ \A i \in 1..n : s[i] \in Chars
  BY DEF Texts
<1>2. \A i \in 1..n, v \in Hearings : Report(v, s[i]) \in Hearings /\ step[i][v] = Report(v, s[i])
  BY <1>1, ReportIs
<1>3. IsStep(step, 1..n, Hearings)
  <2> HIDE DEF n
  <2> QED BY <1>2 DEF IsStep
<1>0. w \in Hearings
  BY DEF Hearings, Modes
<1>4. PICK h : IsFold(h, Hearings, w, n, step)
  <2> HIDE DEF step, n, w
  <2> QED BY <1>0, <1>1, <1>3, FoldExists
<1>5. Folds(h)
  <2> HIDE DEF w
  <2>1. ASSUME NEW z \in SUBSET (1..n), z # {} PROVE h[z] = Report(h[z \ {Max(z)}], s[Max(z)])
    <3>1. PICK m, r : m = Max(z) /\ r = z \ {Max(z)}
      OBVIOUS
    <3>2. m \in 1..n /\ r \in SUBSET (1..n)
      BY <1>1, <2>1, <3>1, MaxIs
    <3>3. h[z] = step[m][h[r]] /\ h[r] \in Hearings
      BY <1>4, <2>1, <3>1, <3>2 DEF IsFold
    <3> QED BY <1>2, <3>1, <3>2, <3>3
  <2> HIDE DEF n, step
  <2> QED BY <1>4, <2>1 DEF IsFold
<1>6. Folds(It)
  <2> HIDE DEF Folds
  <2> QED BY <1>5, Zenon
<1>7. ScanFrom(s) = It[1..n]
  BY <1>1, Zenon DEF ScanFrom, FoldLeft, MapThenFoldSet
<1> HIDE DEF It, w
<1>8. It[{}] = w
  BY <1>6
<1>9. ASSUME NEW k \in Nat, k < n PROVE It[1..(k + 1)] = Report(It[1..k], s[k + 1])
  <2>1. PICK m, z : m = Max(1..(k + 1)) /\ z = 1..(k + 1)
    OBVIOUS
  <2>2. z \in SUBSET (1..n) /\ z # {} /\ m = Max(z) /\ m = k + 1 /\ z \ {m} = 1..k
    BY <1>1, <1>9, <2>1, PrefixIs
  <2>3. It[z] = Report(It[z \ {m}], s[m])
    BY <1>6, <2>2
  <2> QED BY <2>1, <2>2, <2>3
<1>10. PICK g : g = [k \in Nat |-> It[1..k]]
  OBVIOUS
<1>11. 1..0 = {} /\ 0 \in Nat
  OBVIOUS
<1>12. g[0] = w /\ g[n] = It[1..n]
  BY <1>1, <1>8, <1>10, <1>11
<1>13. ASSUME NEW k \in Nat, k < n PROVE g[k + 1] = Report(g[k], s[k + 1])
  BY <1>9, <1>10, <1>13
<1> QED BY <1>7, <1>12, <1>13 DEF w

LEMMA ScanIs ==
    ASSUME NEW s \in Texts
    PROVE  \E m, d : Scanned(m, d, s)
<1>1. PICK n : n = Len(s) /\ n \in Nat /\ DOMAIN s = 1..n /\ \A i \in 1..n : s[i] \in Chars
  BY DEF Texts
<1>2. PICK g : /\ g[0] = [mode |-> "code", depth |-> 0, out |-> <<>>] /\ g[n] = ScanFrom(s)
               /\ \A k \in Nat : k < n => g[k + 1] = Report(g[k], s[k + 1])
  BY <1>1, ScanFolds
<1> DEFINE Event(i) == [char |-> s[i], region |-> RegionOf(g[i - 1].mode, s[i]),
                        depth |-> DepthAt(g[i - 1].mode, g[i - 1].depth, s[i])]
           Upto(k) == [i \in 1..k |-> Event(i)]
           T == {k \in Nat : k <= n => g[k] \in Hearings /\ g[k].out = Upto(k)}
<1>3. 0 \in T
  <2>1. g[0] \in Hearings
    BY <1>2 DEF Hearings, Modes
  <2>2. g[0].out = <<>>
    BY <1>2
  <2>3. Upto(0) = <<>>
    <3> HIDE DEF Event
    <3>1. 1..0 = {}
      OBVIOUS
    <3> QED BY <3>1
  <2> HIDE DEF Upto
  <2> QED BY <2>1, <2>2, <2>3
<1>4. ASSUME NEW k \in Nat, k \in T PROVE k + 1 \in T
  <2> SUFFICES ASSUME k + 1 <= n PROVE g[k + 1] \in Hearings /\ g[k + 1].out = Upto(k + 1)
    OBVIOUS
  <2> HIDE DEF Upto
  <2>1. g[k] \in Hearings /\ g[k].out = Upto(k) /\ s[k + 1] \in Chars /\ g[k + 1] = Report(g[k], s[k + 1])
    BY <1>1, <1>2, <1>4
  <2>2. PICK v, t, e : v = g[k] /\ t = s[k + 1] /\ e = Event(k + 1)
    OBVIOUS
  <2>3. e = [char |-> t, region |-> RegionOf(v.mode, t), depth |-> DepthAt(v.mode, v.depth, t)]
    BY <2>2
  <2> HIDE DEF Event
  <2>4. Report(v, t) \in Hearings /\ Report(v, t).out = Append(v.out, e)
    BY <2>1, <2>2, <2>3, ReportIs
  <2>5. PICK o : o = v.out
    OBVIOUS
  <2>6. o \in Seq(Heard) /\ o = Upto(k)
    BY <2>1, <2>2, <2>5 DEF Hearings
  <2>7. Append(o, Event(k + 1)) = Upto(k + 1)
    <3>1. Len(o) = k /\ \A i \in 1..k : o[i] = Event(i)
      BY <2>6 DEF Upto
    <3> HIDE DEF Heard
    <3> QED BY <2>6, <3>1 DEF Upto
  <2> QED BY <2>1, <2>2, <2>4, <2>5, <2>7
<1>5. Nat \subseteq T
  <2> HIDE DEF T
  <2> QED BY <1>3, <1>4, Induction
<1>6. \A k \in 0..n : g[k] \in Hearings
  <2> HIDE DEF Upto
  <2> QED BY <1>1, <1>5
<1>7. PICK m, d : m = [k \in 0..n |-> g[k].mode] /\ d = [k \in 0..n |-> g[k].depth]
  OBVIOUS
<1>8. m \in [0..n -> Modes] /\ d \in [0..n -> Nat]
  BY <1>6, <1>7 DEF Hearings
<1>9. m[0] = "code" /\ d[0] = 0 /\ m[n] = ScanFrom(s).mode /\ d[n] = ScanFrom(s).depth
  BY <1>1, <1>2, <1>7
<1>10. ASSUME NEW k \in 0..(n - 1) PROVE m[k + 1] = ModeAfter(m[k], s[k + 1]) /\ d[k + 1] = DepthAfter(m[k], d[k], s[k + 1])
  <2>1. k \in 0..n /\ k + 1 \in 0..n /\ k + 1 \in 1..n /\ g[k] \in Hearings /\ s[k + 1] \in Chars
    BY <1>1, <1>6
  <2>2. g[k + 1] = Report(g[k], s[k + 1])
    <3>1. k \in Nat /\ k < n
      BY <1>1
    <3> HIDE DEF Event, Upto, T
    <3> QED BY <1>2, <3>1
  <2> QED BY <1>7, <2>1, <2>2, ReportIs
<1>11. scanSql(s) = [i \in 1..n |-> Event(i)]
  <2>1. n \in T
    <3> HIDE DEF T
    <3> QED BY <1>1, <1>5
  <2> HIDE DEF Event
  <2> QED BY <1>1, <1>2, <2>1 DEF scanSql
<1>12. \A i \in 1..n : Event(i) = [char |-> s[i], region |-> RegionOf(m[i - 1], s[i]), depth |-> DepthAt(m[i - 1], d[i - 1], s[i])]
  <2>1. \A i \in 1..n : i - 1 \in 0..n
    BY <1>1
  <2>2. \A i \in 1..n : m[i - 1] = g[i - 1].mode /\ d[i - 1] = g[i - 1].depth
    BY <1>7, <2>1
  <2> QED BY <2>2
<1>13. scanSql(s) = Reports(m, d, s)
  <2> HIDE DEF Event
  <2> QED BY <1>1, <1>11, <1>12 DEF Reports
<1>14. Scans(m, d, s)
  BY <1>1, <1>8, <1>9, <1>10 DEF Scans
<1> QED BY <1>1, <1>9, <1>13, <1>14 DEF Scanned

(* The positions of code, and of terminators.                              *)
Coded(s) == {i \in DOMAIN s : IsCode(scanSql(s)[i])}
Closers(s) == {i \in DOMAIN s : IsEnd(scanSql(s)[i])}
RegionAt(m, s, i) == RegionOf(m[i - 1], s[i])

LEMMA HeardIs ==
    ASSUME NEW s, NEW m, NEW d, Scanned(m, d, s), NEW i \in 1..Len(s)
    PROVE  /\ DOMAIN s = 1..Len(s) /\ Len(s) \in Nat /\ s[i] \in Chars
           /\ m[i - 1] \in Modes /\ m[i] \in Modes /\ d[i - 1] \in Nat
           /\ m[i] = ModeAfter(m[i - 1], s[i]) /\ d[i] = DepthAfter(m[i - 1], d[i - 1], s[i])
           /\ scanSql(s)[i].region = RegionAt(m, s, i) /\ scanSql(s)[i].char = s[i]
           /\ scanSql(s)[i].depth = DepthAt(m[i - 1], d[i - 1], s[i])
           /\ i \in Coded(s) <=> RegionAt(m, s, i) \notin {"line-comment", "block-comment"} /\ s[i] # "nl"
           /\ i \in Closers(s) <=> RegionAt(m, s, i) = "code" /\ s[i] = "semicolon"
           /\ i \in Closers(s) => m[i - 1] = "code" /\ m[i] = "code" /\ s[i] = "semicolon"
<1>1. PICK n : n = Len(s) /\ n \in Nat /\ DOMAIN s = 1..n /\ \A j \in 1..n : s[j] \in Chars
  BY DEF Scanned, Texts
<1>2. scanSql(s) = Reports(m, d, s) /\ Scans(m, d, s)
  BY DEF Scanned
<1>3. PICK k : k = i - 1 /\ k \in 0..(n - 1) /\ k + 1 = i /\ k \in 0..n /\ i \in 0..n
  BY <1>1
<1>4. m[k] \in Modes /\ m[i] \in Modes /\ d[k] \in Nat
  BY <1>1, <1>2, <1>3 DEF Scans
<1>5. m[i] = ModeAfter(m[k], s[i]) /\ d[i] = DepthAfter(m[k], d[k], s[i])
  BY <1>1, <1>2, <1>3 DEF Scans
<1>6. scanSql(s)[i] = [char |-> s[i], region |-> RegionOf(m[k], s[i]), depth |-> DepthAt(m[k], d[k], s[i])]
  BY <1>1, <1>2, <1>3 DEF Reports
<1>7. /\ i \in Coded(s) <=> RegionOf(m[k], s[i]) \notin {"line-comment", "block-comment"} /\ s[i] # "nl"
      /\ i \in Closers(s) <=> RegionOf(m[k], s[i]) = "code" /\ s[i] = "semicolon"
  BY <1>1, <1>6 DEF Coded, Closers, IsCode, IsEnd
<1>8. RegionOf(m[k], s[i]) = "code" /\ s[i] = "semicolon" => m[k] = "code" /\ m[i] = "code"
  BY <1>5, CodeTokens
<1> QED BY <1>1, <1>3, <1>4, <1>5, <1>6, <1>7, <1>8 DEF RegionAt

(* l tokens of one text after o, and of another after p, are the same.     *)
Alike(s, o, t, p, l) ==
    /\ o \in Nat /\ p \in Nat /\ l \in Nat /\ o + l <= Len(s) /\ p + l <= Len(t)
    /\ \A k \in 1..l : s[o + k] = t[p + k]

(* Then they are read the same, if the mode before them is.                *)
LEMMA SameModes ==
    ASSUME NEW s, NEW m, NEW d, Scanned(m, d, s), NEW t, NEW mm, NEW dd, Scanned(mm, dd, t),
           NEW o, NEW p, NEW l, Alike(s, o, t, p, l), m[o] = mm[p]
    PROVE  \A k \in 0..l : m[o + k] = mm[p + k] /\ (d[o] = dd[p] => d[o + k] = dd[p + k])
<1> DEFINE T == {k \in Nat : k <= l => m[o + k] = mm[p + k] /\ (d[o] = dd[p] => d[o + k] = dd[p + k])}
<1>1. o \in Nat /\ p \in Nat /\ l \in Nat /\ o + l <= Len(s) /\ p + l <= Len(t) /\ Len(s) \in Nat /\ Len(t) \in Nat
  BY DEF Alike, Scanned, Texts
<1>2. 0 \in T
  BY <1>1
<1>3. ASSUME NEW k \in Nat, k \in T PROVE k + 1 \in T
  <2> SUFFICES ASSUME k + 1 <= l PROVE m[o + (k + 1)] = mm[p + (k + 1)] /\ (d[o] = dd[p] => d[o + (k + 1)] = dd[p + (k + 1)])
    OBVIOUS
  <2>1. PICK i, j : i = o + (k + 1) /\ j = p + (k + 1) /\ i \in 1..Len(s) /\ j \in 1..Len(t) /\ i - 1 = o + k /\ j - 1 = p + k
    BY <1>1
  <2>2. s[i] = t[j]
    <3>1. k + 1 \in 1..l
      BY <1>1
    <3> QED BY <2>1, <3>1 DEF Alike
  <2>3. m[i] = ModeAfter(m[i - 1], s[i]) /\ d[i] = DepthAfter(m[i - 1], d[i - 1], s[i])
    BY <2>1, HeardIs
  <2>4. mm[j] = ModeAfter(mm[j - 1], t[j]) /\ dd[j] = DepthAfter(mm[j - 1], dd[j - 1], t[j])
    BY <2>1, HeardIs
  <2>5. m[i - 1] = mm[j - 1] /\ (d[o] = dd[p] => d[i - 1] = dd[j - 1])
    BY <1>1, <1>3, <2>1
  <2> QED BY <2>1, <2>2, <2>3, <2>4, <2>5
<1>4. Nat \subseteq T
  <2> HIDE DEF T
  <2> QED BY <1>2, <1>3, Induction
<1> QED BY <1>1, <1>4

LEMMA SameHearing ==
    ASSUME NEW s, NEW m, NEW d, Scanned(m, d, s), NEW t, NEW mm, NEW dd, Scanned(mm, dd, t),
           NEW o, NEW p, NEW l, Alike(s, o, t, p, l), m[o] = mm[p], NEW k \in 1..l
    PROVE  /\ scanSql(s)[o + k].region = scanSql(t)[p + k].region
           /\ o + k \in Coded(s) <=> p + k \in Coded(t)
           /\ o + k \in Closers(s) <=> p + k \in Closers(t)
           /\ d[o] = dd[p] => scanSql(s)[o + k].depth = scanSql(t)[p + k].depth
           /\ s[o + k] = t[p + k] /\ o + k \in 1..Len(s) /\ p + k \in 1..Len(t)
<1>1. o \in Nat /\ p \in Nat /\ l \in Nat /\ o + l <= Len(s) /\ p + l <= Len(t) /\ Len(s) \in Nat /\ Len(t) \in Nat
  BY DEF Alike, Scanned, Texts
<1>2. PICK i, j : i = o + k /\ j = p + k /\ i \in 1..Len(s) /\ j \in 1..Len(t) /\ i - 1 = o + (k - 1) /\ j - 1 = p + (k - 1) /\ k - 1 \in 0..l
  BY <1>1
<1>3. s[i] = t[j]
  BY <1>2 DEF Alike
<1>4. m[i - 1] = mm[j - 1] /\ (d[o] = dd[p] => d[i - 1] = dd[j - 1])
  BY <1>2, SameModes
<1>5. RegionAt(m, s, i) = RegionAt(mm, t, j)
  BY <1>3, <1>4 DEF RegionAt
<1>6. /\ scanSql(s)[i].region = RegionAt(m, s, i) /\ scanSql(s)[i].depth = DepthAt(m[i - 1], d[i - 1], s[i])
      /\ i \in Coded(s) <=> RegionAt(m, s, i) \notin {"line-comment", "block-comment"} /\ s[i] # "nl"
      /\ i \in Closers(s) <=> RegionAt(m, s, i) = "code" /\ s[i] = "semicolon"
  BY <1>2, HeardIs
<1>7. /\ scanSql(t)[j].region = RegionAt(mm, t, j) /\ scanSql(t)[j].depth = DepthAt(mm[j - 1], dd[j - 1], t[j])
      /\ j \in Coded(t) <=> RegionAt(mm, t, j) \notin {"line-comment", "block-comment"} /\ t[j] # "nl"
      /\ j \in Closers(t) <=> RegionAt(mm, t, j) = "code" /\ t[j] = "semicolon"
  BY <1>2, HeardIs
<1> QED BY <1>2, <1>3, <1>4, <1>5, <1>6, <1>7

(* A statement and the text between two terminators that it is cut from.   *)
Pieces == [sql : Texts, start : Nat, end : Nat, codeStart : Nat]
Piece(s, from, to, r) ==
    /\ r \in Pieces
    /\ from <= r.start /\ r.start <= r.codeStart /\ r.codeStart <= r.end /\ r.end <= to
    /\ r.sql = SubSeq(s, r.start, r.end) /\ s[r.start] # "nl" /\ s[r.end] # "nl"
    /\ \A i \in from..to : i < r.start \/ r.end < i => s[i] = "nl"
    /\ r.codeStart \in Coded(s) /\ \A i \in from..to : i \in Coded(s) => r.codeStart <= i /\ i <= r.end

LEMMA ChunkIs ==
    ASSUME NEW s \in Texts, NEW from \in Nat, from >= 1, NEW to \in Nat, to <= Len(s)
    PROVE  /\ (\A i \in from..to : i \notin Coded(s)) => Chunk(s, from, to) = <<>>
           /\ (\E i \in from..to : i \in Coded(s)) => \E r : Chunk(s, from, to) = <<r>> /\ Piece(s, from, to, r)
<1>1. PICK n : n = Len(s) /\ n \in Nat /\ DOMAIN s = 1..n /\ \A j \in 1..n : s[j] \in Chars
  BY DEF Texts
<1>2. PICK solid, code : solid = {i \in from..to : s[i] # "nl"} /\ code = {i \in from..to : IsCode(scanSql(s)[i])}
  OBVIOUS
<1>3. code = {i \in from..to : i \in Coded(s)}
  BY <1>1, <1>2 DEF Coded
<1>4. Chunk(s, from, to) = IF code = {} THEN <<>>
        ELSE <<[sql |-> SubSeq(s, Min(solid), Max(solid)), start |-> Min(solid), end |-> Max(solid), codeStart |-> Min(code)]>>
  BY <1>2 DEF Chunk
<1>5. ASSUME code # {} PROVE \E r : Chunk(s, from, to) = <<r>> /\ Piece(s, from, to, r)
  <2>1. code \subseteq solid
    <3>1. \A i \in 1..n : IsCode(scanSql(s)[i]) => s[i] # "nl"
      <4> TAKE i \in 1..n
      <4>1. PICK m, d : Scanned(m, d, s)
        BY ScanIs
      <4>2. i \in Coded(s) => s[i] # "nl"
        BY <1>1, <4>1, HeardIs
      <4> QED BY <1>1, <4>2 DEF Coded
    <3> QED BY <1>1, <1>2, <3>1
  <2>2. solid \in SUBSET (1..n) /\ code \in SUBSET Nat /\ solid \in SUBSET Nat /\ solid # {}
    BY <1>1, <1>2, <1>5, <2>1
  <2>3. PICK a, b, c : a = Min(solid) /\ b = Max(solid) /\ c = Min(code)
    OBVIOUS
  <2>4. a \in solid /\ \A y \in solid : a <= y
    BY <2>2, <2>3, MinIs
  <2>5. b \in solid /\ \A y \in solid : y <= b
    BY <1>1, <2>2, <2>3, MaxIs
  <2>6. c \in code /\ \A y \in code : c <= y
    BY <1>5, <2>2, <2>3, MinIs
  <2>7. PICK r : r = [sql |-> SubSeq(s, a, b), start |-> a, end |-> b, codeStart |-> c]
    OBVIOUS
  <2>8. a \in 1..n /\ b \in 1..n /\ a <= c /\ c <= b /\ c \in Nat /\ from <= a /\ b <= to
    BY <1>1, <1>2, <2>1, <2>2, <2>4, <2>5, <2>6
  <2>9. SubSeq(s, a, b) \in Texts
    BY <1>1, <2>8 DEF Texts
  <2>10. r \in Pieces
    BY <2>7, <2>8, <2>9 DEF Pieces
  <2>11. /\ r.sql = SubSeq(s, r.start, r.end) /\ r.start = a /\ r.end = b /\ r.codeStart = c
    BY <2>7
  <2>12. \A i \in from..to : i < a \/ b < i => s[i] = "nl"
    <3> TAKE i \in from..to
    <3>1. s[i] # "nl" => a <= i /\ i <= b
      BY <1>2, <2>4, <2>5
    <3> QED BY <1>1, <2>8, <3>1
  <2>13. c \in Coded(s) /\ \A i \in from..to : i \in Coded(s) => c <= i /\ i <= b
    BY <1>3, <2>1, <2>5, <2>6
  <2>14. s[a] # "nl" /\ s[b] # "nl"
    BY <1>2, <2>4, <2>5
  <2>15. Piece(s, from, to, r)
    BY <2>8, <2>10, <2>11, <2>12, <2>13, <2>14 DEF Piece
  <2> QED BY <1>4, <1>5, <2>3, <2>7, <2>15
<1> QED BY <1>3, <1>4, <1>5

(* Where the statement that ends at e may begin.                           *)
From(s, e) == Max({0} \cup {x \in Ends(s) : x < e}) + 1

LEMMA FromIs ==
    ASSUME NEW s \in Texts, NEW e \in 1..(Len(s) + 1)
    PROVE  /\ Ends(s) = Closers(s) \cup {Len(s) + 1} /\ Closers(s) \subseteq 1..Len(s)
           /\ From(s, e) \in 1..e /\ From(s, e) - 1 \in {0} \cup Closers(s)
           /\ \A x \in Ends(s) : x < e => x < From(s, e)
<1>1. PICK n : n = Len(s) /\ n \in Nat /\ DOMAIN s = 1..n
  BY DEF Texts
<1>2. Ends(s) = Closers(s) \cup {n + 1} /\ Closers(s) \subseteq 1..n
  BY <1>1 DEF Ends, Closers
<1>3. PICK S : S = {0} \cup {x \in Ends(s) : x < e}
  OBVIOUS
<1>4. S \in SUBSET (0..n) /\ S # {}
  BY <1>1, <1>2, <1>3
<1>5. PICK f : f = Max(S)
  OBVIOUS
<1>6. f \in S /\ \A y \in S : y <= f
  BY <1>1, <1>4, <1>5, GreatestIs
<1>7. f \in {0} \cup Closers(s) /\ f \in Nat /\ f < e
  BY <1>1, <1>2, <1>3, <1>4, <1>6
<1>8. From(s, e) = f + 1
  BY <1>3, <1>5 DEF From
<1>9. \A x \in Ends(s) : x < e => x < f + 1
  BY <1>1, <1>2, <1>3, <1>6, <1>7
<1> QED BY <1>1, <1>2, <1>7, <1>8, <1>9

(* The statements found up to each position.                               *)
Splits(g, s) ==
    /\ g[0] = <<>> /\ g[Len(s) + 1] = splitSql(s)
    /\ \A k \in 0..Len(s) : g[k + 1] = IF k + 1 \in Ends(s) THEN g[k] \o Chunk(s, From(s, k + 1), k) ELSE g[k]
    /\ \A k \in 0..(Len(s) + 1) : g[k] \in Seq(Pieces)

LEMMA ChunkType ==
    ASSUME NEW s \in Texts, NEW k \in 0..Len(s)
    PROVE  Chunk(s, From(s, k + 1), k) \in Seq(Pieces)
<1>1. Len(s) \in Nat
  BY DEF Texts
<1>2. PICK f : f = From(s, k + 1) /\ f \in 1..(k + 1)
  BY <1>1, FromIs
<1>3. PICK c : c = Chunk(s, f, k) /\ (c = <<>> \/ \E r : c = <<r>> /\ Piece(s, f, k, r))
  BY <1>1, <1>2, ChunkIs
<1>4. c = <<>> \/ \E r \in Pieces : c = <<r>>
  BY <1>3 DEF Piece
<1>5. c \in Seq(Pieces)
  <2>1. ASSUME NEW P PROVE <<>> \in Seq(P) /\ \A r \in P : <<r>> \in Seq(P)
    OBVIOUS
  <2> QED BY <1>4, <2>1
<1>6. c = Chunk(s, From(s, k + 1), k)
  BY <1>2, <1>3
<1> QED BY <1>5, <1>6, Zenon

LEMMA SplitFolds ==
    ASSUME NEW s \in Texts
    PROVE  \E g : Splits(g, s)
<1> DEFINE N == Len(s) + 1
           q == [i \in 1..N |-> i]
           V == Seq(Pieces)
           Push(out, i) == IF i \notin Ends(s) THEN out ELSE out \o Chunk(s, From(s, i), i - 1)
           step == [i \in 1..N |-> [v \in V |-> Push(v, i)]]
           Folds(it) == it = [z \in SUBSET (1..N) |-> IF z = {} THEN <<>> ELSE Push(it[z \ {Max(z)}], q[Max(z)])]
           It == CHOOSE it : Folds(it)
<1>1. N \in Nat /\ DOMAIN q = 1..N /\ Len(q) = N /\ \A i \in 1..N : q[i] = i
  BY DEF Texts
<1>2. \A i \in 1..N, v \in V : Push(v, i) \in V /\ step[i][v] = Push(v, i)
  <2> TAKE i \in 1..N, v \in V
  <2>1. PICK k : k = i - 1 /\ k \in 0..Len(s) /\ k + 1 = i
    BY <1>1
  <2>2. Chunk(s, From(s, i), i - 1) \in Seq(Pieces)
    BY <2>1, ChunkType
  <2>3. PICK c : c = Chunk(s, From(s, i), i - 1)
    OBVIOUS
  <2> HIDE DEF Pieces
  <2>4. v \o c \in V
    BY <2>2, <2>3
  <2> QED BY <2>3, <2>4
<1>3. IsStep(step, 1..N, V)
  <2> HIDE DEF N, V, Push
  <2> QED BY <1>2 DEF IsStep
<1>4. <<>> \in V
  OBVIOUS
<1>5. PICK h : IsFold(h, V, <<>>, N, step)
  <2> HIDE DEF step, N, V
  <2> QED BY <1>1, <1>3, <1>4, FoldExists
<1>6. Folds(h)
  <2> HIDE DEF V, Push
  <2>1. ASSUME NEW z \in SUBSET (1..N), z # {} PROVE h[z] = Push(h[z \ {Max(z)}], q[Max(z)])
    <3>1. PICK m, r : m = Max(z) /\ r = z \ {Max(z)}
      OBVIOUS
    <3> HIDE DEF N, step, q
    <3>2. m \in 1..N /\ r \in SUBSET (1..N)
      BY <1>1, <2>1, <3>1, MaxIs
    <3>3. h[z] = step[m][h[r]] /\ h[r] \in V
      BY <1>5, <2>1, <3>1, <3>2 DEF IsFold
    <3>4. q[m] = m
      BY <1>1, <3>2
    <3> QED BY <1>2, <3>1, <3>2, <3>3, <3>4
  <2> HIDE DEF N, step, q
  <2> QED BY <1>5, <2>1 DEF IsFold
<1>7. Folds(It)
  <2> HIDE DEF Folds
  <2> QED BY <1>6, Zenon
<1>8. splitSql(s) = It[1..N]
  <2>1. DOMAIN q = 1..N
    BY <1>1
  <2> QED BY <2>1, Zenon DEF splitSql, From, FoldLeft, MapThenFoldSet
<1> HIDE DEF It
<1>9. It[{}] = <<>>
  <2> HIDE DEF Push, q
  <2> QED BY <1>7
<1>10. ASSUME NEW k \in Nat, k < N PROVE It[1..(k + 1)] = Push(It[1..k], k + 1)
  <2> HIDE DEF Push, N, q
  <2>1. PICK m, z : m = Max(1..(k + 1)) /\ z = 1..(k + 1)
    OBVIOUS
  <2>2. z \in SUBSET (1..N) /\ z # {} /\ m = Max(z) /\ m = k + 1 /\ z \ {m} = 1..k
    BY <1>1, <1>10, <2>1, PrefixIs
  <2>3. It[z] = Push(It[z \ {m}], q[m])
    BY <1>7, <2>2
  <2>4. q[m] = m
    BY <1>1, <1>10, <2>2
  <2> QED BY <2>1, <2>2, <2>3, <2>4
<1>11. PICK g : g = [k \in Nat |-> It[1..k]]
  OBVIOUS
<1>12. g[0] = <<>> /\ g[N] = It[1..N]
  <2>1. 1..0 = {} /\ 0 \in Nat
    OBVIOUS
  <2> HIDE DEF N
  <2> QED BY <1>1, <1>9, <1>11, <2>1
<1>13. ASSUME NEW k \in Nat, k < N PROVE g[k + 1] = Push(g[k], k + 1)
  <2> HIDE DEF N, Push
  <2> QED BY <1>10, <1>11, <1>13
<1>14. \A k \in 0..N : g[k] \in V
  <2> HIDE DEF V, Push, N
  <2> DEFINE T == {k \in Nat : k <= N => g[k] \in V}
  <2>1. 0 \in T
    BY <1>4, <1>12
  <2>2. ASSUME NEW k \in Nat, k \in T PROVE k + 1 \in T
    <3> SUFFICES ASSUME k + 1 <= N PROVE g[k + 1] \in V
      OBVIOUS
    <3>1. g[k] \in V /\ k < N /\ k + 1 \in 1..N
      BY <1>1, <2>2
    <3> QED BY <1>2, <1>13, <3>1
  <2>3. Nat \subseteq T
    <3> HIDE DEF T
    <3> QED BY <2>1, <2>2, Induction
  <2> QED BY <2>3, <1>1
<1>15. \A k \in 0..Len(s) : g[k + 1] = IF k + 1 \in Ends(s) THEN g[k] \o Chunk(s, From(s, k + 1), k) ELSE g[k]
  <2> TAKE k \in 0..Len(s)
  <2>1. k \in Nat /\ k < N /\ (k + 1) - 1 = k
    BY <1>1
  <2>2. g[k + 1] = Push(g[k], k + 1)
    BY <1>13, <2>1
  <2> QED BY <2>1, <2>2
<1> QED BY <1>8, <1>12, <1>14, <1>15 DEF Splits

(* A statement that ends before the terminator e.                          *)
Stands(s, e, r) == e \in Ends(s) /\ Piece(s, From(s, e), e - 1, r)

(* Statements in their order, with every one that ends up to k.            *)
SplitUpTo(st, s, k) ==
    /\ st \in Seq(Pieces)
    /\ \A j \in 1..Len(st) : \E e \in Ends(s) : e <= k /\ Stands(s, e, st[j])
    /\ \A j \in 1..Len(st) : \A i \in 1..(j - 1) : \E e \in Ends(s) : st[i].end < e /\ e < st[j].start
    /\ \A e \in Ends(s) : e <= k /\ (\E i \in From(s, e)..(e - 1) : i \in Coded(s)) =>
          \E j \in 1..Len(st) : Stands(s, e, st[j])

(* One statement more.                                                     *)
LEMMA OneMoreStatement ==
    ASSUME NEW s \in Texts, NEW k \in 0..Len(s), NEW st, SplitUpTo(st, s, k), k + 1 \in Ends(s),
           NEW r, Piece(s, From(s, k + 1), k, r)
    PROVE  SplitUpTo(Append(st, r), s, k + 1)
<1>1. PICK n : n = Len(s) /\ n \in Nat
  BY DEF Texts
<1>2. PICK f : f = From(s, k + 1) /\ f \in 1..(k + 1) /\ \A x \in Ends(s) : x < k + 1 => x < f
  BY <1>1, FromIs
<1>3. k \in Nat /\ k <= n /\ (k + 1) - 1 = k /\ Ends(s) \subseteq Nat
  BY <1>1, FromIs
<1>4. Stands(s, k + 1, r)
  BY <1>3 DEF Stands
<1>5. r \in Pieces /\ f <= r.start /\ r.start \in Nat
  BY <1>2 DEF Piece, Pieces
<1>6. st \in Seq(Pieces)
  BY DEF SplitUpTo
<1>0. PICK u : u = Append(st, r)
  OBVIOUS
<1>7. PICK N : N = Len(st) /\ N \in Nat /\ u = Append(st, r)
  BY <1>0, <1>6
<1>8. u \in Seq(Pieces) /\ Len(u) = N + 1 /\ u[N + 1] = r /\ \A j \in 1..N : u[j] = st[j]
  <2> HIDE DEF Pieces
  <2> QED BY <1>5, <1>6, <1>7
<1>9. \A j \in 1..(N + 1) : j \in 1..N \/ j = N + 1
  BY <1>7
<1>10. ASSUME NEW j \in 1..(N + 1) PROVE \E e \in Ends(s) : e <= k + 1 /\ Stands(s, e, u[j])
  <2>1. CASE j \in 1..N
    <3>1. PICK e \in Ends(s) : e <= k /\ Stands(s, e, st[j])
      BY <1>7, <2>1 DEF SplitUpTo
    <3>2. e <= k + 1 /\ u[j] = st[j]
      BY <1>3, <1>8, <2>1, <3>1
    <3> QED BY <3>1, <3>2
  <2>2. CASE j = N + 1
    BY <1>3, <1>4, <1>8, <2>2
  <2> QED BY <1>9, <2>1, <2>2
<1>11. ASSUME NEW j \in 1..(N + 1), NEW i \in 1..(j - 1) PROVE \E e \in Ends(s) : u[i].end < e /\ e < u[j].start
  <2>1. i \in 1..N
    BY <1>7
  <2>2. CASE j \in 1..N
    BY <1>7, <1>8, <2>1, <2>2 DEF SplitUpTo
  <2>3. CASE j = N + 1
    <3>1. PICK e \in Ends(s) : e <= k /\ Stands(s, e, st[i])
      BY <1>7, <2>1 DEF SplitUpTo
    <3>2. e < f /\ e \in Nat
      BY <1>2, <1>3, <3>1
    <3>3. st[i].end <= e - 1 /\ st[i].end \in Nat
      BY <3>1 DEF Stands, Piece, Pieces
    <3>4. st[i].end < e /\ e < r.start
      BY <1>2, <1>5, <3>2, <3>3
    <3> QED BY <1>8, <2>1, <2>3, <3>4
  <2> QED BY <1>9, <2>2, <2>3
<1>12. ASSUME NEW e \in Ends(s), e <= k + 1, \E i \in From(s, e)..(e - 1) : i \in Coded(s)
       PROVE  \E j \in 1..(N + 1) : Stands(s, e, u[j])
  <2>1. CASE e <= k
    <3>1. PICK j \in 1..N : Stands(s, e, st[j])
      BY <1>7, <1>12, <2>1 DEF SplitUpTo
    <3> QED BY <1>7, <1>8, <3>1
  <2>2. CASE e = k + 1
    BY <1>4, <1>7, <1>8, <2>2
  <2>3. e <= k \/ e = k + 1
    BY <1>3, <1>12
  <2> QED BY <2>1, <2>2, <2>3
<1> QED BY <1>7, <1>8, <1>10, <1>11, <1>12 DEF SplitUpTo

LEMMA StatementsAre ==
    ASSUME NEW s \in Texts
    PROVE  SplitUpTo(splitSql(s), s, Len(s) + 1)
<1>1. PICK n : n = Len(s) /\ n \in Nat
  BY DEF Texts
<1>2. PICK g : Splits(g, s)
  BY SplitFolds
<1>3. Ends(s) \subseteq 1..(n + 1)
  BY <1>1, FromIs
<1> DEFINE T == {k \in Nat : k <= n + 1 => SplitUpTo(g[k], s, k)}
<1>4. 0 \in T
  <2>1. g[0] = <<>>
    BY <1>2 DEF Splits
  <2>2. <<>> \in Seq(Pieces) /\ Len(<<>>) = 0 /\ \A e \in Ends(s) : ~(e <= 0)
    BY <1>1, <1>3
  <2>3. 1..0 = {}
    OBVIOUS
  <2>4. PICK st : st = g[0]
    OBVIOUS
  <2>5. SplitUpTo(st, s, 0)
    BY <2>1, <2>2, <2>3, <2>4 DEF SplitUpTo
  <2> QED BY <2>4, <2>5
<1>5. ASSUME NEW k \in Nat, k \in T PROVE k + 1 \in T
  <2> SUFFICES ASSUME k + 1 <= n + 1 PROVE SplitUpTo(g[k + 1], s, k + 1)
    OBVIOUS
  <2>1. k \in 0..Len(s) /\ k <= n /\ SplitUpTo(g[k], s, k)
    BY <1>1, <1>5
  <2>2. PICK f : f = From(s, k + 1) /\ f \in 1..(k + 1)
    BY <1>1, <2>1, FromIs
  <2>3. g[k + 1] = IF k + 1 \in Ends(s) THEN g[k] \o Chunk(s, f, k) ELSE g[k]
    BY <1>2, <2>1, <2>2 DEF Splits
  <2>4. g[k] \in Seq(Pieces)
    BY <2>1 DEF SplitUpTo
  <2>5. CASE k + 1 \in Ends(s) /\ \E i \in f..k : i \in Coded(s)
    <3>1. PICK r : Chunk(s, f, k) = <<r>> /\ Piece(s, f, k, r)
      BY <1>1, <2>1, <2>2, <2>5, ChunkIs
    <3>2. g[k] \o <<r>> = Append(g[k], r)
      <4>1. r \in Pieces
        BY <3>1 DEF Piece
      <4>2. PICK v : v = g[k]
        OBVIOUS
      <4>3. ASSUME NEW P, NEW w \in Seq(P), NEW x \in P PROVE w \o <<x>> = Append(w, x)
        OBVIOUS
      <4> QED BY <2>4, <4>1, <4>3
    <3>3. g[k + 1] = Append(g[k], r)
      BY <2>3, <2>5, <3>1, <3>2
    <3> QED BY <2>1, <2>2, <2>5, <3>1, <3>3, OneMoreStatement
  <2>6. CASE k + 1 \notin Ends(s) \/ \A i \in f..k : i \notin Coded(s)
    <3>1. g[k + 1] = g[k]
      <4>1. CASE k + 1 \notin Ends(s)
        BY <2>3, <4>1
      <4>2. CASE \A i \in f..k : i \notin Coded(s)
        <5>1. Chunk(s, f, k) = <<>>
          BY <1>1, <2>1, <2>2, <4>2, ChunkIs
        <5>2. ASSUME NEW P, NEW w \in Seq(P) PROVE w \o <<>> = w
          OBVIOUS
        <5> QED BY <2>3, <2>4, <5>1, <5>2
      <4> QED BY <2>6, <4>1, <4>2
    <3>2. PICK st : st = g[k]
      OBVIOUS
    <3>3. \A j \in 1..Len(st) : \E e \in Ends(s) : e <= k + 1 /\ Stands(s, e, st[j])
      <4> TAKE j \in 1..Len(st)
      <4>1. PICK e \in Ends(s) : e <= k /\ Stands(s, e, st[j])
        BY <2>1, <3>2 DEF SplitUpTo
      <4>2. e <= k + 1
        BY <1>3, <4>1
      <4> QED BY <4>1, <4>2
    <3>4. ASSUME NEW e \in Ends(s), e <= k + 1, \E i \in From(s, e)..(e - 1) : i \in Coded(s) PROVE e <= k
      <4>1. e # k + 1
        BY <2>2, <2>6, <3>4
      <4> QED BY <1>3, <3>4, <4>1
    <3>5. SplitUpTo(st, s, k + 1)
      BY <2>1, <3>2, <3>3, <3>4 DEF SplitUpTo
    <3> QED BY <3>1, <3>2, <3>5
  <2> QED BY <2>5, <2>6
<1>6. Nat \subseteq T
  <2> HIDE DEF T
  <2> QED BY <1>4, <1>5, Induction
<1>7. g[n + 1] = splitSql(s)
  BY <1>1, <1>2 DEF Splits
<1>8. n + 1 \in T
  <2> HIDE DEF T
  <2> QED BY <1>1, <1>6
<1> QED BY <1>1, <1>7, <1>8

LEMMA NewlinesInCode ==
    ASSUME NEW s, NEW m, NEW d, Scanned(m, d, s), NEW a \in 0..Len(s), NEW b \in 0..Len(s), a <= b,
           m[a] = "code", \A i \in (a + 1)..b : s[i] = "nl"
    PROVE  m[b] = "code"
<1>1. Len(s) \in Nat
  BY DEF Scanned, Texts
<1> DEFINE T == {k \in Nat : a + k <= b => m[a + k] = "code"}
<1>2. 0 \in T
  BY <1>1
<1>3. ASSUME NEW k \in Nat, k \in T PROVE k + 1 \in T
  <2> SUFFICES ASSUME a + (k + 1) <= b PROVE m[a + (k + 1)] = "code"
    OBVIOUS
  <2>1. PICK i : i = a + (k + 1) /\ i \in 1..Len(s) /\ i - 1 = a + k /\ i \in (a + 1)..b /\ a + k <= b
    BY <1>1
  <2>2. m[i - 1] = "code" /\ s[i] = "nl"
    BY <1>3, <2>1
  <2>3. m[i] = ModeAfter(m[i - 1], s[i])
    BY <2>1, HeardIs
  <2> QED BY <2>1, <2>2, <2>3, CodeTokens
<1>4. Nat \subseteq T
  <2> HIDE DEF T
  <2> QED BY <1>2, <1>3, Induction
<1>5. PICK k : k = b - a /\ k \in Nat /\ a + k = b
  BY <1>1
<1> QED BY <1>4, <1>5

LEMMA FromInCode ==
    ASSUME NEW s, NEW m, NEW d, Scanned(m, d, s), NEW e \in Ends(s)
    PROVE  m[From(s, e) - 1] = "code"
<1>1. PICK n : n = Len(s) /\ n \in Nat /\ s \in Texts
  BY DEF Scanned, Texts
<1>2. e \in 1..(n + 1)
  <2>1. 1 \in 1..(n + 1)
    BY <1>1
  <2> QED BY <1>1, <2>1, FromIs
<1>3. PICK f : f = From(s, e) - 1 /\ f \in {0} \cup Closers(s) /\ Closers(s) \subseteq 1..n
  BY <1>1, <1>2, FromIs
<1>4. m[0] = "code"
  BY DEF Scanned, Scans
<1>5. ASSUME f \in Closers(s) PROVE m[f] = "code"
  BY <1>1, <1>3, <1>5, HeardIs
<1> QED BY <1>3, <1>4, <1>5

(* Where a statement lies in its text, and that it begins in code.         *)
Placed(s, e, r, f) ==
    /\ e \in 1..(Len(s) + 1) /\ f \in 1..e /\ r.start \in 1..Len(s) /\ r.codeStart \in 1..Len(s) /\ r.end \in 1..Len(s)
    /\ f <= r.start /\ r.start <= r.codeStart /\ r.codeStart <= r.end /\ r.end < e
    /\ r.sql \in Texts /\ Len(r.sql) = r.end - r.start + 1 /\ Alike(s, r.start - 1, r.sql, 0, Len(r.sql))
    /\ \A i \in 1..Len(s) : f <= i /\ i < e => i \notin Closers(s)

LEMMA PlacedIs ==
    ASSUME NEW s, NEW m, NEW d, Scanned(m, d, s), NEW e, NEW r, Stands(s, e, r)
    PROVE  /\ Placed(s, e, r, From(s, e)) /\ m[r.start - 1] = "code" /\ m[From(s, e) - 1] = "code"
           /\ s[r.start] # "nl" /\ s[r.end] # "nl" /\ r.sql = SubSeq(s, r.start, r.end)
           /\ r.codeStart \in Coded(s) /\ r \in Pieces
           /\ \A i \in From(s, e)..(e - 1) : i \in Coded(s) => r.codeStart <= i /\ i <= r.end
<1>1. PICK n : n = Len(s) /\ n \in Nat /\ s \in Texts /\ DOMAIN s = 1..n
  BY DEF Scanned, Texts
<1>2. e \in Ends(s)
  BY DEF Stands
<1>3. e \in 1..(n + 1)
  <2>1. 1 \in 1..(n + 1)
    BY <1>1
  <2> QED BY <1>1, <1>2, <2>1, FromIs
<1>4. PICK f : f = From(s, e) /\ f \in 1..e /\ (\A x \in Ends(s) : x < e => x < f) /\ Closers(s) \subseteq Ends(s)
  BY <1>1, <1>3, FromIs
<1>5. Piece(s, f, e - 1, r)
  BY <1>4 DEF Stands
<1>6. /\ r.start \in Nat /\ r.codeStart \in Nat /\ r.end \in Nat /\ r \in Pieces /\ r.sql \in Texts
      /\ f <= r.start /\ r.start <= r.codeStart /\ r.codeStart <= r.end /\ r.end <= e - 1
  BY <1>5 DEF Piece, Pieces
<1>7. PICK a, b : a = r.start /\ b = r.end /\ a \in 1..n /\ b \in 1..n /\ a <= b /\ r.codeStart \in 1..n /\ b < e
  BY <1>1, <1>3, <1>4, <1>6
<1>8. r.sql = SubSeq(s, a, b)
  BY <1>5, <1>7 DEF Piece
<1>9. Len(r.sql) = b - a + 1 /\ \A i \in 1..(b - a + 1) : r.sql[i] = s[a + i - 1]
  <2>1. s \in Seq(Chars)
    BY <1>1 DEF Texts
  <2>2. ASSUME NEW P, NEW w \in Seq(P), NEW x \in 1..Len(w), NEW y \in 1..Len(w), x <= y
        PROVE  Len(SubSeq(w, x, y)) = y - x + 1 /\ \A i \in 1..(y - x + 1) : SubSeq(w, x, y)[i] = w[x + i - 1]
    BY <2>2
  <2>3. a \in 1..Len(s) /\ b \in 1..Len(s) /\ a <= b
    BY <1>1, <1>7
  <2>4. Len(SubSeq(s, a, b)) = b - a + 1 /\ \A i \in 1..(b - a + 1) : SubSeq(s, a, b)[i] = s[a + i - 1]
    BY <2>1, <2>2, <2>3
  <2> QED BY <1>8, <2>4
<1>10. Alike(s, a - 1, r.sql, 0, Len(r.sql))
  <2>1. PICK l : l = b - a + 1 /\ l \in Nat /\ l = Len(r.sql)
    BY <1>7, <1>9
  <2>2. \A k \in 1..l : s[(a - 1) + k] = r.sql[0 + k]
    <3> TAKE k \in 1..l
    <3>1. (a - 1) + k = a + k - 1 /\ 0 + k = k /\ k \in 1..(b - a + 1)
      BY <1>7, <2>1
    <3> QED BY <1>9, <3>1
  <2>3. a - 1 \in Nat /\ (a - 1) + l <= n /\ 0 + l <= l
    BY <1>1, <1>7, <2>1
  <2> QED BY <1>1, <2>1, <2>2, <2>3 DEF Alike
<1>11. \A i \in 1..n : f <= i /\ i < e => i \notin Closers(s)
  BY <1>1, <1>3, <1>4
<1>12. Placed(s, e, r, f)
  BY <1>1, <1>3, <1>4, <1>6, <1>7, <1>9, <1>10, <1>11 DEF Placed
<1>13. m[f - 1] = "code"
  BY <1>2, <1>4, FromInCode
<1>14. m[a - 1] = "code"
  <2>1. f - 1 \in 0..n /\ a - 1 \in 0..n /\ f - 1 <= a - 1
    BY <1>1, <1>3, <1>4, <1>6, <1>7
  <2>2. \A i \in ((f - 1) + 1)..(a - 1) : s[i] = "nl"
    <3> TAKE i \in ((f - 1) + 1)..(a - 1)
    <3>1. i \in f..(e - 1) /\ i < a
      BY <1>1, <1>3, <1>4, <1>7
    <3> QED BY <1>5, <1>7, <3>1 DEF Piece
  <2> QED BY <1>1, <1>13, <2>1, <2>2, NewlinesInCode
<1>15. s[a] # "nl" /\ s[b] # "nl" /\ r.codeStart \in Coded(s) /\ \A i \in f..(e - 1) : i \in Coded(s) => r.codeStart <= i /\ i <= r.end
  BY <1>5, <1>7 DEF Piece
<1> QED BY <1>4, <1>6, <1>7, <1>8, <1>12, <1>13, <1>14, <1>15

(* A statement on its own is one statement, the same.                      *)
LEMMA OneStatement ==
    ASSUME NEW s \in Texts, NEW e, NEW r, Stands(s, e, r)
    PROVE  /\ \A i \in 1..Len(r.sql) : scanSql(r.sql)[i].region = scanSql(s)[r.start + i - 1].region
           /\ splitSql(r.sql) = <<[sql |-> r.sql, start |-> 1, end |-> Len(r.sql), codeStart |-> r.codeStart - r.start + 1]>>
           /\ Closers(r.sql) = {}
<1>1. PICK m, d : Scanned(m, d, s)
  BY ScanIs
<1>2. PICK n, f : n = Len(s) /\ n \in Nat /\ f = From(s, e)
  BY DEF Texts
<1>3. /\ Placed(s, e, r, f) /\ m[r.start - 1] = "code" /\ s[r.start] # "nl" /\ s[r.end] # "nl" /\ r.codeStart \in Coded(s)
      /\ \A i \in f..(e - 1) : i \in Coded(s) => r.codeStart <= i /\ i <= r.end
  BY <1>1, <1>2, PlacedIs
<1>4. PICK a, b, c : a = r.start /\ b = r.end /\ c = r.codeStart
  OBVIOUS
<1>5. /\ e \in 1..(n + 1) /\ f \in 1..e /\ a \in 1..n /\ b \in 1..n /\ c \in 1..n /\ f <= a /\ a <= c /\ c <= b /\ b < e
      /\ \A i \in 1..n : f <= i /\ i < e => i \notin Closers(s)
  BY <1>2, <1>3, <1>4 DEF Placed
<1>6. PICK t : t = r.sql /\ t \in Texts /\ Len(t) = b - a + 1 /\ Alike(s, a - 1, t, 0, Len(t))
  BY <1>3, <1>4 DEF Placed
<1>7. PICK L : L = Len(t) /\ L \in Nat /\ L >= 1 /\ L = b - a + 1 /\ DOMAIN t = 1..L
  BY <1>5, <1>6 DEF Texts
<1>8. PICK mm, dd : Scanned(mm, dd, t)
  BY <1>6, ScanIs
<1>9. m[a - 1] = mm[0]
  BY <1>3, <1>4, <1>8 DEF Scanned, Scans
<1>10. ASSUME NEW k \in 1..L
       PROVE  /\ scanSql(t)[k].region = scanSql(s)[a + k - 1].region /\ t[k] = s[a + k - 1]
              /\ k \in Coded(t) <=> a + k - 1 \in Coded(s)
              /\ k \in Closers(t) <=> a + k - 1 \in Closers(s)
              /\ a + k - 1 \in f..(e - 1) /\ a + k - 1 \in 1..n
  <2>1. (a - 1) + k = a + k - 1 /\ 0 + k = k /\ a + k - 1 \in f..(e - 1) /\ a + k - 1 \in 1..n
    BY <1>2, <1>5, <1>7
  <2> QED BY <1>1, <1>6, <1>7, <1>8, <1>9, <2>1, SameHearing
<1>11. Closers(t) = {}
  <2>1. Closers(t) \subseteq 1..L
    BY <1>7 DEF Closers
  <2>2. \A k \in 1..L : k \notin Closers(t)
    <3> TAKE k \in 1..L
    <3> QED BY <1>2, <1>5, <1>10
  <2> QED BY <2>1, <2>2
<1>12. L + 1 \in 1..(L + 1) /\ Ends(t) = {L + 1} /\ From(t, L + 1) = 1
  <2>1. L + 1 \in 1..(L + 1)
    BY <1>7
  <2>2. Ends(t) = {} \cup {L + 1} /\ From(t, L + 1) \in 1..(L + 1) /\ From(t, L + 1) - 1 \in {0} \cup {}
    BY <1>6, <1>7, <1>11, <2>1, FromIs
  <2> QED BY <1>7, <2>1, <2>2
<1>13. PICK st : st = splitSql(t) /\ SplitUpTo(st, t, L + 1)
  BY <1>6, <1>7, StatementsAre
<1>14. \A j \in 1..Len(st) : Piece(t, 1, L, st[j])
  <2> TAKE j \in 1..Len(st)
  <2>1. PICK x \in Ends(t) : Stands(t, x, st[j])
    BY <1>13 DEF SplitUpTo
  <2>2. x = L + 1 /\ x - 1 = L
    BY <1>7, <1>12, <2>1
  <2> QED BY <1>12, <2>1, <2>2 DEF Stands
<1>15. st \in Seq(Pieces) /\ Len(st) \in Nat
  BY <1>13 DEF SplitUpTo
<1>16. Len(st) <= 1
  <2> SUFFICES ASSUME 2 <= Len(st) PROVE FALSE
    BY <1>15
  <2>1. 1 \in 1..(2 - 1) /\ 2 \in 1..Len(st)
    BY <1>15
  <2>2. PICK x \in Ends(t) : x < st[2].start
    BY <1>13, <2>1 DEF SplitUpTo
  <2>3. st[2].start <= L /\ st[2].start \in Nat
    <3>1. st[2].start \in Nat /\ st[2].start <= st[2].codeStart /\ st[2].codeStart <= st[2].end /\ st[2].end <= L
          /\ st[2].codeStart \in Nat /\ st[2].end \in Nat
      BY <1>14, <2>1 DEF Piece, Pieces
    <3> QED BY <1>7, <3>1
  <2> QED BY <1>7, <1>12, <2>2, <2>3
<1>17. PICK q : q = c - a + 1 /\ q \in 1..L /\ a + q - 1 = c
  BY <1>2, <1>5, <1>7
<1>18. q \in Coded(t)
  BY <1>3, <1>4, <1>10, <1>17
<1>19. Len(st) = 1
  <2>1. \E i \in From(t, L + 1)..((L + 1) - 1) : i \in Coded(t)
    BY <1>7, <1>12, <1>17, <1>18
  <2>2. PICK j \in 1..Len(st) : Stands(t, L + 1, st[j])
    BY <1>7, <1>12, <1>13, <2>1 DEF SplitUpTo
  <2>3. PICK l : l = Len(st) /\ l \in Nat /\ j \in 1..l /\ l <= 1
    BY <1>15, <1>16, <2>2
  <2> QED BY <2>3
<1>20. PICK p : p = st[1] /\ Piece(t, 1, L, p)
  BY <1>14, <1>19
<1>21. /\ p \in Pieces /\ p.start \in Nat /\ p.end \in Nat /\ p.codeStart \in Nat /\ 1 <= p.start /\ p.start <= p.codeStart
       /\ p.codeStart <= p.end /\ p.end <= L /\ p.codeStart \in Coded(t) /\ p.sql = SubSeq(t, p.start, p.end)
       /\ \A i \in 1..L : i < p.start \/ p.end < i => t[i] = "nl"
       /\ \A i \in 1..L : i \in Coded(t) => p.codeStart <= i
  BY <1>20 DEF Piece, Pieces
<1>22. t[1] # "nl" /\ t[L] # "nl"
  <2>1. 1 \in 1..L /\ L \in 1..L /\ a + 1 - 1 = a /\ a + L - 1 = b
    BY <1>2, <1>5, <1>7
  <2> QED BY <1>3, <1>4, <1>10, <2>1
<1>23. p.start = 1 /\ p.end = L
  BY <1>7, <1>21, <1>22
<1>24. p.codeStart = q
  <2>1. p.codeStart <= q
    BY <1>17, <1>18, <1>21
  <2>2. p.codeStart \in 1..L
    BY <1>7, <1>21
  <2>3. c <= a + p.codeStart - 1
    BY <1>3, <1>4, <1>10, <1>21, <2>2
  <2>4. PICK x : x = p.codeStart /\ x \in Nat /\ x <= q /\ c <= a + x - 1
    BY <1>21, <2>1, <2>3
  <2> QED BY <1>2, <1>5, <1>17, <2>4
<1>25. SubSeq(t, 1, L) = t
  BY <1>6, <1>7 DEF Texts
<1>26. p = [sql |-> t, start |-> 1, end |-> L, codeStart |-> q]
  BY <1>21, <1>23, <1>24, <1>25 DEF Pieces
<1>27. splitSql(t) = <<p>>
  <2>1. ASSUME NEW P, NEW w \in Seq(P), Len(w) = 1 PROVE w = <<w[1]>>
    BY <2>1
  <2> QED BY <1>13, <1>15, <1>19, <1>20, <2>1
<1> QED BY <1>4, <1>6, <1>7, <1>10, <1>11, <1>17, <1>26, <1>27

(* A file's statements, by where they stand.                               *)
LEMMA StatementsStand ==
    ASSUME NEW s \in Texts
    PROVE  /\ splitSql(s) \in Seq(Pieces) /\ DOMAIN splitSql(s) = 1..Len(splitSql(s)) /\ Len(splitSql(s)) \in Nat
           /\ \A k \in 1..Len(splitSql(s)) : \E e \in Ends(s) : Stands(s, e, splitSql(s)[k])
           /\ \A k \in 1..Len(splitSql(s)) : /\ splitSql(s)[k] \in Pieces
                 /\ splitSql(s)[k].start \in 1..Len(s) /\ splitSql(s)[k].end \in 1..Len(s) /\ splitSql(s)[k].codeStart \in 1..Len(s)
                 /\ splitSql(s)[k].start <= splitSql(s)[k].codeStart /\ splitSql(s)[k].codeStart <= splitSql(s)[k].end
           /\ \A k \in 1..Len(splitSql(s)), l \in 1..Len(splitSql(s)) :
                 l < k => splitSql(s)[l].end + 1 < splitSql(s)[k].start
<1>1. PICK n, st : n = Len(s) /\ n \in Nat /\ st = splitSql(s)
  BY DEF Texts
<1>2. SplitUpTo(st, s, n + 1)
  BY <1>1, StatementsAre
<1>3. st \in Seq(Pieces) /\ DOMAIN st = 1..Len(st) /\ Len(st) \in Nat
  BY <1>2 DEF SplitUpTo
<1>4. \A k \in 1..Len(st) : \E e \in Ends(s) : Stands(s, e, st[k])
  BY <1>2 DEF SplitUpTo
<1>5. PICK m, d : Scanned(m, d, s)
  BY ScanIs
<1>6. ASSUME NEW k \in 1..Len(st)
      PROVE  /\ st[k].start \in 1..n /\ st[k].end \in 1..n /\ st[k].codeStart \in 1..n /\ st[k] \in Pieces
             /\ st[k].start <= st[k].codeStart /\ st[k].codeStart <= st[k].end
  <2>1. PICK e \in Ends(s) : Stands(s, e, st[k])
    BY <1>4
  <2> QED BY <1>1, <1>5, <2>1, PlacedIs DEF Placed
<1>7. ASSUME NEW k \in 1..Len(st), NEW l \in 1..Len(st), l < k PROVE st[l].end + 1 < st[k].start
  <2>1. l \in 1..(k - 1)
    BY <1>3, <1>7
  <2>2. PICK e \in Ends(s) : st[l].end < e /\ e < st[k].start
    BY <1>2, <2>1 DEF SplitUpTo
  <2>3. st[l].end \in Nat /\ st[k].start \in Nat
    BY <1>6
  <2>4. e \in Nat
    <3>1. 1 \in 1..(n + 1) /\ Ends(s) \subseteq Nat
      BY <1>1, FromIs
    <3> QED BY <3>1
  <2> QED BY <2>2, <2>3, <2>4
<1> QED BY <1>1, <1>3, <1>4, <1>6, <1>7

LEMMA FaithfulSplit == text \in Texts => SplitIsFaithful
<1> SUFFICES ASSUME text \in Texts PROVE SplitIsFaithful
  OBVIOUS
<1>1. PICK n, st : n = Len(text) /\ n \in Nat /\ DOMAIN text = 1..n /\ st = Statements
  BY DEF Texts
<1>2. /\ DOMAIN st = 1..Len(st) /\ Len(st) \in Nat
      /\ \A k \in 1..Len(st) : \E e \in Ends(text) : Stands(text, e, st[k])
      /\ \A k \in 1..Len(st) : st[k].start \in 1..n /\ st[k].end \in 1..n
      /\ \A k \in 1..Len(st), l \in 1..Len(st) : l < k => st[l].end + 1 < st[k].start
  BY <1>1, StatementsStand DEF Statements
<1>3. PICK m, d : Scanned(m, d, text)
  BY ScanIs
<1>4. ASSUME NEW i \in 1..n, IsCode(scanSql(text)[i]), ~IsEnd(scanSql(text)[i])
      PROVE  \E k \in DOMAIN st : st[k].codeStart <= i /\ i <= st[k].end
  <2>1. i \in Coded(text) /\ i \notin Closers(text)
    BY <1>1, <1>4 DEF Coded, Closers
  <2>2. n + 1 \in 1..(n + 1)
    BY <1>1
  <2>3. Ends(text) = Closers(text) \cup {n + 1} /\ Closers(text) \subseteq 1..n
    BY <1>1, <2>2, FromIs
  <2>4. PICK S : S = {x \in Ends(text) : i <= x}
    OBVIOUS
  <2>5. S \subseteq Nat /\ n + 1 \in S
    BY <1>1, <2>3, <2>4
  <2>6. PICK e : e \in S /\ \A y \in S : e <= y
    <3>1. Min(S) \in S /\ \A y \in S : Min(S) <= y
      BY <2>5, MinIs
    <3> QED BY <3>1
  <2>7. e \in 1..(n + 1) /\ e \in Ends(text) /\ i <= e /\ e <= n + 1
    BY <1>1, <2>3, <2>4, <2>5, <2>6
  <2>8. i < e
    <3>1. i # e
      BY <1>1, <2>1, <2>3, <2>7
    <3> QED BY <1>1, <2>7, <3>1
  <2>9. PICK f : f = From(text, e) /\ f \in 1..e /\ f - 1 \in {0} \cup Closers(text)
    BY <1>1, <2>7, FromIs
  <2>10. f <= i
    <3> SUFFICES ASSUME i < f PROVE FALSE
      BY <1>1, <2>7, <2>9
    <3>1. f - 1 \in Closers(text) /\ i <= f - 1 /\ f - 1 < e
      BY <1>1, <2>3, <2>7, <2>9
    <3>2. f - 1 \in S
      BY <2>3, <2>4, <3>1
    <3>3. e <= f - 1
      BY <2>6, <3>2
    <3> QED BY <2>7, <2>9, <3>1, <3>3
  <2>11. i \in f..(e - 1)
    BY <1>1, <2>7, <2>8, <2>9, <2>10
  <2>12. PICK k \in 1..Len(st) : Stands(text, e, st[k])
    <3>1. SplitUpTo(st, text, n + 1)
      BY <1>1, StatementsAre DEF Statements
    <3> QED BY <2>1, <2>7, <2>9, <2>11, <3>1 DEF SplitUpTo
  <2>13. st[k].codeStart <= i /\ i <= st[k].end
    BY <1>3, <2>1, <2>9, <2>11, <2>12, PlacedIs
  <2> QED BY <1>2, <2>12, <2>13
<1>5. ASSUME NEW k \in DOMAIN st
      PROVE  /\ st[k].sql = SubSeq(text, st[k].start, st[k].end)
             /\ \A l \in 1..(k - 1) : st[l].end < st[k].start
             /\ \A i \in DOMAIN st[k].sql : scanSql(st[k].sql)[i].region = scanSql(text)[st[k].start + i - 1].region
             /\ splitSql(st[k].sql) = <<[sql |-> st[k].sql, start |-> 1, end |-> Len(st[k].sql),
                                          codeStart |-> st[k].codeStart - st[k].start + 1]>>
  <2>1. PICK e : Stands(text, e, st[k])
    BY <1>2
  <2>2. st[k].sql = SubSeq(text, st[k].start, st[k].end) /\ st[k].sql \in Texts
    BY <1>3, <2>1, PlacedIs DEF Placed
  <2>3. DOMAIN st[k].sql = 1..Len(st[k].sql)
    BY <2>2 DEF Texts
  <2>4. \A l \in 1..(k - 1) : st[l].end < st[k].start
    <3> TAKE l \in 1..(k - 1)
    <3>1. l \in 1..Len(st) /\ l < k /\ k \in 1..Len(st)
      BY <1>2
    <3>2. st[l].end + 1 < st[k].start /\ st[l].end \in 1..n /\ st[k].start \in 1..n
      BY <1>2, <3>1
    <3> QED BY <3>2
  <2>5. PICK r : r = st[k]
    OBVIOUS
  <2>6. /\ \A i \in 1..Len(r.sql) : scanSql(r.sql)[i].region = scanSql(text)[r.start + i - 1].region
        /\ splitSql(r.sql) = <<[sql |-> r.sql, start |-> 1, end |-> Len(r.sql), codeStart |-> r.codeStart - r.start + 1]>>
    BY <2>1, <2>5, OneStatement
  <2> QED BY <2>2, <2>3, <2>4, <2>5, <2>6
<1> QED BY <1>1, <1>4, <1>5 DEF SplitIsFaithful

LEMMA NearestRuns == text \in Texts => NearestStatementRuns
<1> SUFFICES ASSUME text \in Texts, Statements # <<>>, NEW at \in 1..(Len(text) + 1)
             PROVE  LET started == {k \in DOMAIN Statements : Statements[k].start <= at}
                    IN  statementAt(Statements, at) = IF started = {} THEN 1 ELSE Max(started)
  BY DEF NearestStatementRuns
<1>1. PICK n, st : n = Len(text) /\ n \in Nat /\ st = Statements
  BY DEF Texts
<1>2. /\ DOMAIN st = 1..Len(st) /\ Len(st) \in Nat
      /\ \A k \in 1..Len(st) : st[k].start \in 1..n /\ st[k].end \in 1..n /\ st[k].start <= st[k].end
      /\ \A k \in 1..Len(st), l \in 1..Len(st) : l < k => st[l].end + 1 < st[k].start
  <2>1. \A k \in 1..Len(st) : /\ st[k].start \in 1..n /\ st[k].end \in 1..n /\ st[k].codeStart \in 1..n
                               /\ st[k].start <= st[k].codeStart /\ st[k].codeStart <= st[k].end
    BY <1>1, StatementsStand DEF Statements
  <2>2. \A k \in 1..Len(st) : st[k].start <= st[k].end
    <3> TAKE k \in 1..Len(st)
    <3> QED BY <1>1, <2>1
  <2> QED BY <1>1, <2>1, <2>2, StatementsStand DEF Statements
<1>3. PICK N : N = Len(st) /\ N \in Nat
  BY <1>2
<1>4. PICK inside, before, started :
          /\ inside = {k \in 1..N : st[k].start <= at /\ at <= st[k].end + 1}
          /\ before = {k \in 1..N : st[k].end + 1 < at}
          /\ started = {k \in 1..N : st[k].start <= at}
  OBVIOUS
<1>5. statementAt(st, at) = IF inside # {} THEN Min(inside) ELSE IF before # {} THEN Max(before) ELSE 1
  BY <1>2, <1>3, <1>4 DEF statementAt
<1>6. at \in Nat /\ inside \in SUBSET Nat /\ started \in SUBSET (1..N)
  BY <1>1, <1>4
<1>7. ASSUME inside # {} PROVE started # {} /\ Min(inside) = Max(started)
  <2>1. PICK k : k = Min(inside) /\ k \in inside
    BY <1>6, <1>7, MinIs
  <2>2. k \in started /\ k \in 1..N /\ at <= st[k].end + 1
    BY <1>4, <2>1
  <2>3. PICK x : x = Max(started) /\ x \in started /\ k <= x
    BY <1>3, <1>6, <2>2, MaxIs
  <2>4. x \in 1..N /\ st[x].start <= at
    BY <1>4, <2>3
  <2>5. ~(k < x)
    <3> SUFFICES ASSUME k < x PROVE FALSE
      OBVIOUS
    <3>1. st[k].end + 1 < st[x].start /\ st[k].end \in Nat /\ st[x].start \in Nat
      BY <1>2, <1>3, <2>2, <2>4
    <3> QED BY <1>6, <2>2, <2>4, <3>1
  <2>6. k = x
    BY <1>3, <2>2, <2>3, <2>4, <2>5
  <2> QED BY <2>1, <2>2, <2>3, <2>6
<1>8. ASSUME inside = {} PROVE before = started
  <2>1. ASSUME NEW k \in 1..N PROVE st[k].end + 1 < at <=> st[k].start <= at
    <3>1. st[k].start \in Nat /\ st[k].end \in Nat /\ st[k].start <= st[k].end
      BY <1>2, <1>3
    <3>2. ~(st[k].start <= at /\ at <= st[k].end + 1)
      BY <1>4, <1>8
    <3> QED BY <1>6, <3>1, <3>2
  <2> QED BY <1>4, <2>1
<1>9. statementAt(st, at) = IF started = {} THEN 1 ELSE Max(started)
  <2>1. CASE inside # {}
    BY <1>5, <1>7, <2>1
  <2>2. CASE inside = {}
    BY <1>5, <1>8, <2>2
  <2> QED BY <2>1, <2>2
<1>10. started = {k \in DOMAIN Statements : Statements[k].start <= at}
  BY <1>1, <1>2, <1>3, <1>4
<1> QED BY <1>1, <1>9, <1>10

(* Two sequences one after the other.                                      *)
LEMMA ConcatIs ==
    ASSUME NEW P, NEW u \in Seq(P), NEW v \in Seq(P)
    PROVE  /\ u \o v \in Seq(P) /\ Len(u \o v) = Len(u) + Len(v)
           /\ \A k \in 1..Len(u) : (u \o v)[k] = u[k]
           /\ \A k \in 1..Len(v) : (u \o v)[Len(u) + k] = v[k]
  OBVIOUS

(* The beginning of a text.                                                *)
LEMMA PrefixText ==
    ASSUME NEW s \in Texts, NEW j \in 0..Len(s)
    PROVE  /\ SubSeq(s, 1, j) \in Texts /\ Len(SubSeq(s, 1, j)) = j
           /\ \A k \in 1..j : SubSeq(s, 1, j)[k] = s[k]
           /\ \A k \in 0..j : SubSeq(SubSeq(s, 1, j), 1, k) = SubSeq(s, 1, k)
<1>1. ASSUME NEW P, NEW w \in Seq(P), NEW l \in 0..Len(w)
      PROVE  /\ SubSeq(w, 1, l) \in Seq(P) /\ Len(SubSeq(w, 1, l)) = l
             /\ \A k \in 1..l : SubSeq(w, 1, l)[k] = w[k]
  OBVIOUS
<1>2. ASSUME NEW P, NEW w \in Seq(P), NEW l \in 0..Len(w)
      PROVE  \A k \in 0..l : SubSeq(SubSeq(w, 1, l), 1, k) = SubSeq(w, 1, k)
  <2> TAKE k \in 0..l
  <2>1. k \in 0..Len(w) /\ l \in Nat
    OBVIOUS
  <2>2. PICK x : x = SubSeq(w, 1, l)
    OBVIOUS
  <2>3. x \in Seq(P) /\ Len(x) = l /\ \A y \in 1..l : x[y] = w[y]
    BY <1>1, <2>2
  <2>4. k \in 0..Len(x)
    BY <2>3
  <2>5. SubSeq(x, 1, k) \in Seq(P) /\ Len(SubSeq(x, 1, k)) = k /\ \A y \in 1..k : SubSeq(x, 1, k)[y] = x[y]
    BY <1>1, <2>3, <2>4
  <2>6. SubSeq(w, 1, k) \in Seq(P) /\ Len(SubSeq(w, 1, k)) = k /\ \A y \in 1..k : SubSeq(w, 1, k)[y] = w[y]
    BY <1>1, <2>1
  <2>7. \A y \in 1..k : SubSeq(x, 1, k)[y] = SubSeq(w, 1, k)[y]
    <3> TAKE y \in 1..k
    <3>1. y \in 1..l
      BY <2>1
    <3> QED BY <2>3, <2>5, <2>6, <3>1
  <2>8. ASSUME NEW u \in Seq(P), NEW v \in Seq(P), Len(u) = Len(v), \A y \in 1..Len(u) : u[y] = v[y] PROVE u = v
    BY <2>8
  <2> QED BY <2>2, <2>5, <2>6, <2>7, <2>8
<1> QED BY <1>1, <1>2 DEF Texts

LEMMA TrimIs ==
    ASSUME NEW s \in Texts
    PROVE  \E j \in 0..Len(s) : TrimEnd(s) = SubSeq(s, 1, j) /\ \A i \in (j + 1)..Len(s) : s[i] = "nl"
<1>1. PICK n : n = Len(s) /\ n \in Nat /\ DOMAIN s = 1..n
  BY DEF Texts
<1>2. PICK solid : solid = {i \in 1..n : s[i] # "nl"}
  OBVIOUS
<1>3. TrimEnd(s) = IF solid = {} THEN <<>> ELSE SubSeq(s, 1, Max(solid))
  BY <1>1, <1>2 DEF TrimEnd
<1>4. CASE solid = {}
  <2>1. ASSUME NEW P, NEW w \in Seq(P) PROVE SubSeq(w, 1, 0) = <<>>
    OBVIOUS
  <2>2. TrimEnd(s) = SubSeq(s, 1, 0) /\ \A i \in (0 + 1)..n : s[i] = "nl"
    BY <1>1, <1>2, <1>3, <1>4, <2>1 DEF Texts
  <2> QED BY <1>1, <2>2
<1>5. CASE solid # {}
  <2>1. PICK j : j = Max(solid) /\ j \in solid /\ \A y \in solid : y <= j
    <3>1. solid \in SUBSET (1..n)
      BY <1>2
    <3> QED BY <1>1, <1>5, <3>1, MaxIs
  <2>2. j \in 0..n /\ \A i \in (j + 1)..n : s[i] = "nl"
    <3>1. j \in 1..n
      BY <1>2, <2>1
    <3>2. \A i \in (j + 1)..n : s[i] = "nl"
      <4> TAKE i \in (j + 1)..n
      <4>1. i \in 1..n /\ ~(i <= j)
        BY <1>1, <3>1
      <4> QED BY <1>2, <2>1, <4>1
    <3> QED BY <1>1, <3>1, <3>2
  <2> QED BY <1>1, <1>3, <1>5, <2>1, <2>2
<1> QED BY <1>4, <1>5

LEMMA BodyIs ==
    ASSUME NEW s \in Texts
    PROVE  \E j \in 0..Len(s) : Body(s) = SubSeq(s, 1, j) /\ \A i \in (j + 1)..Len(s) : s[i] \in {"nl", "semicolon"}
<1>1. PICK n : n = Len(s) /\ n \in Nat
  BY DEF Texts
<1>2. PICK j \in 0..n : TrimEnd(s) = SubSeq(s, 1, j) /\ \A i \in (j + 1)..n : s[i] = "nl"
  BY <1>1, TrimIs
<1>3. PICK t : t = SubSeq(s, 1, j) /\ t \in Texts /\ Len(t) = j /\ \A k \in 1..j : t[k] = s[k]
  BY <1>1, <1>2, PrefixText
<1>4. CASE t # <<>> /\ Last(t) = "semicolon"
  <2>1. j >= 1 /\ j \in Nat /\ j - 1 \in 0..j
    <3>1. ASSUME NEW P, NEW w \in Seq(P), w # <<>> PROVE Len(w) \in Nat /\ Len(w) >= 1
      BY <3>1
    <3> QED BY <1>1, <1>2, <1>3, <1>4, <3>1 DEF Texts
  <2>2. s[j] = "semicolon"
    <3>1. j \in 1..j
      BY <2>1
    <3> QED BY <1>3, <1>4, <3>1 DEF Last
  <2>3. PICK u : u = SubSeq(t, 1, j - 1) /\ u = Front(t) /\ u \in Texts /\ Len(u) = j - 1
    BY <1>3, <2>1, PrefixText DEF Front
  <2>4. u = SubSeq(s, 1, j - 1) /\ \A k \in 1..(j - 1) : u[k] = s[k]
    <3>1. j - 1 \in 0..Len(s)
      BY <1>1, <1>2, <2>1
    <3> QED BY <1>1, <1>2, <1>3, <2>1, <2>3, <3>1, PrefixText
  <2>5. PICK l \in 0..(j - 1) : TrimEnd(u) = SubSeq(u, 1, l) /\ \A i \in (l + 1)..(j - 1) : u[i] = "nl"
    BY <2>3, TrimIs
  <2>6. l \in 0..n /\ l \in 0..Len(u) /\ l \in Nat
    BY <1>1, <1>2, <2>1, <2>3, <2>5
  <2>7. SubSeq(u, 1, l) = SubSeq(s, 1, l)
    <3>1. j - 1 \in 0..Len(s) /\ l \in 0..(j - 1)
      BY <1>1, <1>2, <2>1, <2>5
    <3> QED BY <2>4, <3>1, PrefixText
  <2>8. Body(s) = SubSeq(s, 1, l)
    BY <1>2, <1>3, <1>4, <2>3, <2>5, <2>7 DEF Body
  <2>9. \A i \in (l + 1)..n : s[i] \in {"nl", "semicolon"}
    <3> TAKE i \in (l + 1)..n
    <3>1. i \in (l + 1)..(j - 1) \/ i = j \/ i \in (j + 1)..n
      BY <1>1, <1>2, <2>1, <2>6
    <3>2. ASSUME i \in (l + 1)..(j - 1) PROVE s[i] = "nl"
      <4>1. i \in 1..(j - 1)
        BY <2>6, <3>2
      <4> QED BY <2>4, <2>5, <3>2, <4>1
    <3> QED BY <1>2, <2>2, <3>1, <3>2
  <2> QED BY <1>1, <2>6, <2>8, <2>9
<1>5. CASE ~(t # <<>> /\ Last(t) = "semicolon")
  <2>1. Body(s) = SubSeq(s, 1, j)
    BY <1>2, <1>3, <1>5 DEF Body
  <2> QED BY <1>1, <1>2, <2>1
<1> QED BY <1>4, <1>5

LEMMA TopLevelIs ==
    ASSUME NEW s, NEW m, NEW d, Scanned(m, d, s)
    PROVE  /\ topLevelOnly(s) \subseteq 1..Len(s)
           /\ \A i \in 1..Len(s) : i \in topLevelOnly(s) <=>
                 /\ RegionOf(m[i - 1], s[i]) = "code" /\ DepthAt(m[i - 1], d[i - 1], s[i]) = 0 /\ s[i] \notin {"(", ")", "nl"}
           /\ \A i \in topLevelOnly(s) : m[i - 1] = "code" /\ d[i - 1] = 0 /\ d[i] = 0
<1>1. PICK n : n = Len(s) /\ n \in Nat /\ DOMAIN s = 1..n
  BY DEF Scanned, Texts
<1>2. topLevelOnly(s) \subseteq 1..n
  BY <1>1 DEF topLevelOnly
<1>3. ASSUME NEW i \in 1..n
      PROVE  i \in topLevelOnly(s) <=>
                 /\ RegionOf(m[i - 1], s[i]) = "code" /\ DepthAt(m[i - 1], d[i - 1], s[i]) = 0 /\ s[i] \notin {"(", ")", "nl"}
  BY <1>1, HeardIs DEF topLevelOnly, RegionAt
<1>4. ASSUME NEW i \in topLevelOnly(s) PROVE m[i - 1] = "code" /\ d[i - 1] = 0 /\ d[i] = 0
  <2>1. i \in 1..n
    BY <1>2
  <2>2. RegionOf(m[i - 1], s[i]) = "code" /\ DepthAt(m[i - 1], d[i - 1], s[i]) = 0 /\ s[i] \notin {"(", ")", "nl"}
    BY <1>3, <2>1
  <2>3. m[i - 1] = "code"
    BY <2>2, CodeTokens
  <2>4. d[i - 1] = 0 /\ d[i] = DepthAfter(m[i - 1], d[i - 1], s[i])
    BY <1>1, <2>1, <2>2, HeardIs DEF DepthAt
  <2>5. d[i] = 0
    BY <2>2, <2>4 DEF DepthAfter
  <2> QED BY <2>3, <2>4, <2>5
<1> QED BY <1>1, <1>2, <1>3, <1>4

(* Texts that begin alike are at the same level as far as they do.         *)
LEMMA SameLevels ==
    ASSUME NEW s, NEW m, NEW d, Scanned(m, d, s), NEW t, NEW mm, NEW dd, Scanned(mm, dd, t),
           NEW l \in Nat, l <= Len(s), l <= Len(t), \A k \in 1..l : s[k] = t[k]
    PROVE  /\ Alike(s, 0, t, 0, l) /\ m[0] = mm[0]
           /\ \A k \in 0..l : m[k] = mm[k] /\ d[k] = dd[k]
           /\ \A k \in 1..l : k \in topLevelOnly(s) <=> k \in topLevelOnly(t)
<1>1. Len(s) \in Nat /\ Len(t) \in Nat
  BY DEF Scanned, Texts
<1>2. \A k \in 0..l : 0 + k = k
  OBVIOUS
<1>3. Alike(s, 0, t, 0, l)
  BY <1>1, <1>2 DEF Alike
<1>4. m[0] = mm[0] /\ d[0] = dd[0]
  BY DEF Scanned, Scans
<1>5. \A k \in 0..l : m[k] = mm[k] /\ d[k] = dd[k]
  <2>1. \A k \in 0..l : m[0 + k] = mm[0 + k] /\ (d[0] = dd[0] => d[0 + k] = dd[0 + k])
    BY <1>3, <1>4, SameModes
  <2> QED BY <1>2, <1>4, <2>1
<1>6. ASSUME NEW k \in 1..l PROVE k \in topLevelOnly(s) <=> k \in topLevelOnly(t)
  <2>1. k \in 1..Len(s) /\ k \in 1..Len(t) /\ k - 1 \in 0..l
    BY <1>1
  <2>2. m[k - 1] = mm[k - 1] /\ d[k - 1] = dd[k - 1]
    BY <1>5, <2>1
  <2> QED BY <2>1, <2>2, TopLevelIs
<1> QED BY <1>3, <1>4, <1>5, <1>6

(* A token in code, outside every group, is read there.                    *)
LEMMA ReadAtTop ==
    ASSUME NEW s, NEW m, NEW d, Scanned(m, d, s), NEW i \in 1..Len(s), m[i - 1] = "code", d[i - 1] = 0,
           s[i] \in {"limit", "top"}
    PROVE  i \in topLevelOnly(s) /\ hasRowLimit(s)
<1>1. s[i] \notin Signs \cup DOMAIN Directives /\ s[i] \notin {"(", ")", "nl"}
  BY TextAssumption DEF Words, Signs
<1>2. RegionOf(m[i - 1], s[i]) = "code"
  BY <1>1, CodeTokens
<1>3. DepthAt(m[i - 1], d[i - 1], s[i]) = 0
  BY <1>1 DEF DepthAt
<1>4. i \in topLevelOnly(s)
  BY <1>1, <1>2, <1>3, TopLevelIs
<1> QED BY <1>4 DEF hasRowLimit

LEMMA TopTakesEffect ==
    ASSUME NEW s \in Texts, applyTop(s) # s
    PROVE  /\ applyTop(s) \in Texts /\ hasRowLimit(applyTop(s))
           /\ \A i \in topLevelOnly(s) : s[i] \notin SetOperators
<1>1. PICK n : n = Len(s) /\ n \in Nat
  BY DEF Texts
<1>2. PICK m, d : Scanned(m, d, s)
  BY ScanIs
<1>3. PICK top, selects : top = topLevelOnly(s) /\ selects = {i \in top : s[i] = "select"}
  OBVIOUS
<1>4. top \subseteq 1..n
  BY <1>1, <1>2, <1>3, TopLevelIs
<1>5. applyTop(s) = IF selects = {} \/ \E i \in top : s[i] \in SetOperators THEN s
                    ELSE InsertAt(s, Min(selects) + 1, "top")
  BY <1>3 DEF applyTop
<1>6. selects # {} /\ \A i \in top : s[i] \notin SetOperators
  BY <1>5
<1>7. PICK i : i = Min(selects) /\ i \in selects
  <2>1. selects \in SUBSET Nat
    BY <1>3, <1>4
  <2> QED BY <1>6, <2>1, MinIs
<1>8. i \in top /\ s[i] = "select" /\ i \in 1..n /\ (i + 1) - 1 = i
  BY <1>3, <1>4, <1>7
<1>9. PICK t : t = InsertAt(s, i + 1, "top")
  OBVIOUS
<1>10. t \in Texts /\ Len(t) = n + 1 /\ (\A k \in 1..i : t[k] = s[k]) /\ t[i + 1] = "top"
  <2>1. ASSUME NEW P, NEW w \in Seq(P), NEW x \in P, NEW j \in 1..Len(w)
        PROVE  /\ InsertAt(w, j + 1, x) \in Seq(P) /\ Len(InsertAt(w, j + 1, x)) = Len(w) + 1
               /\ (\A k \in 1..j : InsertAt(w, j + 1, x)[k] = w[k]) /\ InsertAt(w, j + 1, x)[j + 1] = x
    <3>1. PICK a, b, c : a = SubSeq(w, 1, j) /\ b = <<x>> /\ c = SubSeq(w, j + 1, Len(w))
      OBVIOUS
    <3>2. a \in Seq(P) /\ Len(a) = j /\ \A k \in 1..j : a[k] = w[k]
      BY <3>1
    <3>3. b \in Seq(P) /\ Len(b) = 1 /\ b[1] = x
      BY <3>1
    <3>4. c \in Seq(P) /\ Len(c) = Len(w) - j
      BY <3>1
    <3>5. InsertAt(w, j + 1, x) = a \o b \o c
      <4>1. (j + 1) - 1 = j
        OBVIOUS
      <4> QED BY <3>1, <4>1 DEF InsertAt
    <3>6. a \o b \in Seq(P) /\ Len(a \o b) = j + 1 /\ (\A k \in 1..j : (a \o b)[k] = w[k]) /\ (a \o b)[j + 1] = x
      <4>1. /\ a \o b \in Seq(P) /\ Len(a \o b) = Len(a) + Len(b) /\ (\A k \in 1..Len(a) : (a \o b)[k] = a[k])
            /\ (\A k \in 1..Len(b) : (a \o b)[Len(a) + k] = b[k])
        BY <3>2, <3>3, ConcatIs
      <4> QED BY <3>2, <3>3, <4>1
    <3>7. PICK y : y = a \o b
      OBVIOUS
    <3>8. y \o c \in Seq(P) /\ Len(y \o c) = Len(y) + Len(c) /\ \A k \in 1..Len(y) : (y \o c)[k] = y[k]
      BY <3>4, <3>6, <3>7, ConcatIs
    <3>9. Len(y) = j + 1 /\ (j + 1) + (Len(w) - j) = Len(w) + 1
      BY <3>6, <3>7
    <3>10. j + 1 \in 1..(j + 1) /\ \A k \in 1..j : k \in 1..(j + 1)
      OBVIOUS
    <3> QED BY <3>4, <3>5, <3>6, <3>7, <3>8, <3>9, <3>10
  <2>2. "top" \in Chars
    BY DEF Chars, Words
  <2>3. s \in Seq(Chars) /\ i \in 1..Len(s)
    BY <1>1, <1>8 DEF Texts
  <2>4. /\ InsertAt(s, i + 1, "top") \in Seq(Chars) /\ Len(InsertAt(s, i + 1, "top")) = Len(s) + 1
        /\ (\A k \in 1..i : InsertAt(s, i + 1, "top")[k] = s[k]) /\ InsertAt(s, i + 1, "top")[i + 1] = "top"
    BY <2>1, <2>2, <2>3
  <2> QED BY <1>1, <1>9, <2>4 DEF Texts
<1>11. PICK mm, dd : Scanned(mm, dd, t)
  BY <1>10, ScanIs
<1>12. mm[i] = m[i] /\ dd[i] = d[i]
  <2>1. i \in Nat /\ i <= Len(s) /\ i <= Len(t) /\ \A k \in 1..i : s[k] = t[k]
    BY <1>1, <1>8, <1>10
  <2>2. i \in 0..i
    BY <2>1
  <2> QED BY <1>2, <1>11, <2>1, <2>2, SameLevels
<1>13. m[i] = "code" /\ d[i] = 0
  <2>1. m[i - 1] = "code" /\ d[i] = 0
    BY <1>2, <1>3, <1>8, TopLevelIs
  <2>2. m[i] = ModeAfter(m[i - 1], s[i])
    BY <1>1, <1>2, <1>8, HeardIs
  <2>3. s[i] \notin Signs \cup DOMAIN Directives
    BY <1>8, TextAssumption DEF Words, ReaderWords, Signs
  <2> QED BY <2>1, <2>2, <2>3, CodeTokens
<1>14. hasRowLimit(t)
  <2>1. PICK k : k = i + 1 /\ k - 1 = i /\ k \in 1..Len(t)
    BY <1>1, <1>8, <1>10
  <2> QED BY <1>10, <1>11, <1>12, <1>13, <2>1, ReadAtTop
<1> QED BY <1>3, <1>5, <1>6, <1>7, <1>9, <1>10, <1>14

(* The limit is read, and stands for the body's own levels.                *)
LEMMA LimitIsRead ==
    ASSUME NEW s \in Texts
    PROVE  /\ Body(s) \in Texts
           /\ \A i \in topLevelOnly(s) : (i \in topLevelOnly(Body(s)) /\ Body(s)[i] = s[i]) \/ s[i] = "semicolon"
           /\ EndsInCode(Body(s)) => hasRowLimit(Append(Body(s), "limit"))
<1>1. PICK n : n = Len(s) /\ n \in Nat
  BY DEF Texts
<1>2. PICK j \in 0..n : Body(s) = SubSeq(s, 1, j) /\ \A i \in (j + 1)..n : s[i] \in {"nl", "semicolon"}
  BY <1>1, BodyIs
<1>3. PICK b : b = Body(s) /\ b \in Texts /\ Len(b) = j /\ \A k \in 1..j : b[k] = s[k]
  BY <1>1, <1>2, PrefixText
<1>4. PICK m, d : Scanned(m, d, s)
  BY ScanIs
<1>5. PICK mm, dd : Scanned(mm, dd, b)
  BY <1>3, ScanIs
<1>6. \A i \in 1..j : i \in topLevelOnly(s) <=> i \in topLevelOnly(b)
  <2>1. j \in Nat /\ j <= Len(s) /\ j <= Len(b) /\ \A k \in 1..j : s[k] = b[k]
    BY <1>1, <1>2, <1>3
  <2> QED BY <1>4, <1>5, <2>1, SameLevels
<1>7. ASSUME NEW i \in topLevelOnly(s) PROVE (i \in topLevelOnly(b) /\ b[i] = s[i]) \/ s[i] = "semicolon"
  <2>1. i \in 1..n /\ s[i] # "nl"
    BY <1>1, <1>4, <1>7, TopLevelIs
  <2>2. i \in 1..j \/ i \in (j + 1)..n
    BY <1>1, <1>2, <2>1
  <2> QED BY <1>2, <1>3, <1>6, <1>7, <2>1, <2>2
<1>8. ASSUME EndsInCode(b) PROVE hasRowLimit(Append(b, "limit"))
  <2>1. PICK t : t = Append(b, "limit")
    OBVIOUS
  <2>2. t \in Texts /\ Len(t) = j + 1 /\ (\A k \in 1..j : t[k] = b[k]) /\ t[j + 1] = "limit"
    <3>1. ASSUME NEW P, NEW w \in Seq(P), NEW x \in P
          PROVE  /\ Append(w, x) \in Seq(P) /\ Len(Append(w, x)) = Len(w) + 1 /\ Append(w, x)[Len(w) + 1] = x
                 /\ \A k \in 1..Len(w) : Append(w, x)[k] = w[k]
      OBVIOUS
    <3>2. "limit" \in Chars
      BY DEF Chars, Words
    <3> QED BY <1>3, <2>1, <3>1, <3>2 DEF Texts
  <2>3. PICK mt, dt : Scanned(mt, dt, t)
    BY <2>2, ScanIs
  <2>4. mt[j] = mm[j] /\ dt[j] = dd[j]
    <3>1. j \in Nat /\ j <= Len(t) /\ j <= Len(b) /\ (\A k \in 1..j : t[k] = b[k]) /\ j \in 0..j
      BY <1>1, <1>2, <1>3, <2>2
    <3> QED BY <1>5, <2>3, <3>1, SameLevels
  <2>5. mm[j] = "code" /\ dd[j] = 0
    BY <1>3, <1>5, <1>8 DEF Scanned, EndsInCode
  <2>6. PICK k : k = j + 1 /\ k - 1 = j /\ k \in 1..Len(t)
    BY <1>1, <1>2, <2>2
  <2>7. mt[k - 1] = "code" /\ dt[k - 1] = 0 /\ t[k] \in {"limit", "top"}
    BY <2>2, <2>4, <2>5, <2>6
  <2>8. hasRowLimit(t)
    BY <2>3, <2>6, <2>7, ReadAtTop
  <2> QED BY <2>1, <2>8
<1> QED BY <1>3, <1>7, <1>8

LEMMA LimitsTakeEffect == text \in Texts => LimitTakesEffect /\ TopBindsTheWhole
<1> SUFFICES ASSUME text \in Texts, NEW k \in DOMAIN Statements
             PROVE  LET s == Statements[k].sql
                    IN  /\ \A syntax \in {"limit", "top"} :
                              LET limited == applyRowLimit(s, syntax)
                              IN  limited \notin {s, Body(s)} /\ EndsInCode(Body(s)) =>
                                      hasRowLimit(limited) /\ applyRowLimit(limited, syntax) = limited
                        /\ applyRowLimit(s, "top") \notin {s, Body(s)} =>
                              /\ hasRowLimit(applyRowLimit(s, "top"))
                              /\ \A i \in topLevelOnly(s) : s[i] \notin SetOperators
  BY DEF LimitTakesEffect, TopBindsTheWhole
<1>1. PICK s : s = Statements[k].sql /\ s \in Texts
  <2>1. Statements[k] \in Pieces
    BY StatementsStand DEF Statements
  <2> QED BY <2>1 DEF Pieces
<1>2. \A t, y : hasRowLimit(t) => applyRowLimit(t, y) = t
  BY DEF applyRowLimit, Limitable
<1>3. ASSUME applyRowLimit(s, "top") \notin {s, Body(s)}
      PROVE  /\ hasRowLimit(applyRowLimit(s, "top"))
             /\ \A i \in topLevelOnly(s) : s[i] \notin SetOperators
  <2>1. applyRowLimit(s, "top") = applyTop(Body(s)) /\ applyTop(Body(s)) # Body(s)
    BY <1>3 DEF applyRowLimit
  <2>2. /\ hasRowLimit(applyTop(Body(s)))
        /\ \A i \in topLevelOnly(Body(s)) : Body(s)[i] \notin SetOperators
    BY <1>1, <2>1, LimitIsRead, TopTakesEffect
  <2>3. ASSUME NEW i \in topLevelOnly(s) PROVE s[i] \notin SetOperators
    <3>1. (i \in topLevelOnly(Body(s)) /\ Body(s)[i] = s[i]) \/ s[i] = "semicolon"
      BY <1>1, LimitIsRead
    <3>2. "semicolon" \notin SetOperators
      BY DEF SetOperators
    <3> QED BY <2>2, <3>1, <3>2
  <2> QED BY <2>1, <2>2, <2>3
<1>4. ASSUME applyRowLimit(s, "limit") \notin {s, Body(s)}, EndsInCode(Body(s))
      PROVE  hasRowLimit(applyRowLimit(s, "limit"))
  <2>1. applyRowLimit(s, "limit") = Append(Body(s), "limit")
    BY <1>4 DEF applyRowLimit
  <2> QED BY <1>1, <1>4, <2>1, LimitIsRead
<1> QED BY <1>1, <1>2, <1>3, <1>4

(* A directive's value is the rest of its line, and never empty.           *)
LEMMA ValueIs ==
    ASSUME NEW s \in Texts, NEW i \in parseDirectives(s)
    PROVE  /\ i \in 1..Len(s) /\ s[i] \in DOMAIN Directives /\ s[i] # "nl" /\ ValueOf(s, i) # <<>>
           /\ \A j \in i..Len(s) : s[j] = "nl" /\ (\A k \in i..(j - 1) : s[k] # "nl") => ValueOf(s, i) = SubSeq(s, i, j - 1)
<1>1. PICK n : n = Len(s) /\ n \in Nat /\ DOMAIN s = 1..n
  BY DEF Texts
<1>2. i \in 1..n /\ s[i] \in DOMAIN Directives
  BY <1>1 DEF parseDirectives, IsDirective
<1>3. s[i] # "nl"
  BY <1>2, TextAssumption DEF Signs
<1>4. PICK breaks : breaks = {j \in i..n : s[j] = "nl"}
  OBVIOUS
<1>5. ValueOf(s, i) = SubSeq(s, i, IF breaks = {} THEN n ELSE Min(breaks) - 1)
  BY <1>1, <1>4 DEF ValueOf
<1>6. ASSUME breaks # {} PROVE Min(breaks) \in breaks /\ \A y \in breaks : Min(breaks) <= y
  <2>1. breaks \in SUBSET Nat
    BY <1>2, <1>4
  <2> QED BY <1>6, <2>1, MinIs
<1>7. PICK b : b = (IF breaks = {} THEN n ELSE Min(breaks) - 1)
  OBVIOUS
<1>8. b \in i..n
  <2>1. CASE breaks = {}
    BY <1>1, <1>2, <1>7, <2>1
  <2>2. CASE breaks # {}
    <3>1. PICK j : j = Min(breaks) /\ j \in i..n /\ s[j] = "nl"
      BY <1>4, <1>6, <2>2
    <3>2. j # i
      BY <1>3, <3>1
    <3> QED BY <1>1, <1>2, <1>7, <2>2, <3>1, <3>2
  <2> QED BY <2>1, <2>2
<1>9. ValueOf(s, i) # <<>>
  <2>1. ASSUME NEW P, NEW w \in Seq(P), NEW x \in 1..Len(w), NEW y \in x..Len(w) PROVE SubSeq(w, x, y) # <<>>
    <3>1. Len(SubSeq(w, x, y)) = y - x + 1
      OBVIOUS
    <3>2. y - x + 1 # 0 /\ Len(<<>>) = 0
      OBVIOUS
    <3> QED BY <3>1, <3>2
  <2> QED BY <1>1, <1>2, <1>5, <1>7, <1>8, <2>1 DEF Texts
<1>10. ASSUME NEW j \in i..n, s[j] = "nl", \A k \in i..(j - 1) : s[k] # "nl" PROVE ValueOf(s, i) = SubSeq(s, i, j - 1)
  <2>1. j \in breaks
    BY <1>4, <1>10
  <2>2. PICK x : x = Min(breaks) /\ x \in breaks /\ x <= j
    BY <1>6, <2>1
  <2>3. x \in i..n /\ s[x] = "nl"
    BY <1>4, <2>2
  <2>4. x = j
    <3>1. ~(x \in i..(j - 1))
      BY <1>10, <2>3
    <3> QED BY <1>1, <1>2, <1>10, <2>2, <2>3, <3>1
  <2>5. breaks # {}
    BY <2>1
  <2> QED BY <1>5, <2>2, <2>4, <2>5
<1> QED BY <1>1, <1>2, <1>3, <1>9, <1>10

LEMMA NoneIsLost == text \in Texts => NoConnectionIsLost
<1> SUFFICES ASSUME text \in Texts, NEW k \in DOMAIN Statements, NEW i \in parseDirectives(text),
                    Directives[text[i]] = "conn", Statements[k].start <= i, i <= Statements[k].end
             PROVE  LET s == Statements[k]
                    IN  \/ strandedConnection(text, s) # <<>>
                        \/ /\ i < s.codeStart
                           /\ \/ configAt(text, s.codeStart).connection = ValueOf(text, i)
                              \/ \E j \in parseDirectives(text) : i < j /\ j < s.codeStart
  BY DEF NoConnectionIsLost
<1>1. PICK n : n = Len(text) /\ n \in Nat
  BY DEF Texts
<1>2. PICK r : r = Statements[k] /\ r.codeStart \in 1..n
  BY <1>1, StatementsStand DEF Statements
<1>3. parseDirectives(text) \subseteq 1..n
  BY <1>1, ValueIs
<1>4. i \in 1..n /\ i \in Nat /\ r.codeStart \in Nat
  BY <1>1, <1>2, <1>3
<1>5. CASE r.codeStart <= i
  <2>1. PICK inside : inside = {x \in parseDirectives(text) : r.codeStart <= x /\ x <= r.end /\ Directives[text[x]] = "conn"}
    OBVIOUS
  <2>2. i \in inside /\ inside \in SUBSET Nat /\ inside # {}
    BY <1>2, <1>3, <1>5, <2>1
  <2>3. Min(inside) \in parseDirectives(text)
    <3>1. Min(inside) \in inside
      BY <2>2, MinIs
    <3> QED BY <2>1, <3>1
  <2>4. ValueOf(text, Min(inside)) # <<>>
    BY <2>3, ValueIs
  <2>5. strandedConnection(text, r) = ValueOf(text, Min(inside))
    BY <2>1, <2>2 DEF strandedConnection
  <2> QED BY <1>2, <2>4, <2>5
<1>6. CASE i < r.codeStart
  <2>1. PICK seen : seen = {x \in parseDirectives(text) : x < r.codeStart /\ Directives[text[x]] = "conn"}
    OBVIOUS
  <2>2. i \in seen /\ seen \in SUBSET (1..n) /\ seen # {}
    BY <1>3, <1>6, <2>1
  <2>3. PICK q : q = Max(seen) /\ q \in seen /\ i <= q
    BY <1>1, <2>2, MaxIs
  <2>4. q \in parseDirectives(text) /\ q < r.codeStart /\ q \in 1..n
    BY <2>1, <2>2, <2>3
  <2>5. Effective(text, "conn", r.codeStart) = ValueOf(text, q)
    BY <2>1, <2>2, <2>3 DEF Effective
  <2>6. ValueOf(text, q) # <<>>
    BY <2>4, ValueIs
  <2>7. configAt(text, r.codeStart).connection = ValueOf(text, q)
    BY <2>5, <2>6 DEF configAt
  <2>8. q = i \/ i < q
    BY <1>4, <2>3, <2>4
  <2> QED BY <1>2, <1>6, <2>4, <2>7, <2>8
<1> QED BY <1>4, <1>5, <1>6

(* A text and the same with a block placed below it: q tokens first.       *)
Below(s, p, d, q) ==
    /\ s \in Texts /\ p \in Texts /\ Len(p) = Len(s) + q + 3 /\ q \in 0..2 /\ d \in DOMAIN Directives
    /\ \A k \in 1..Len(s) : p[k] = s[k]
    /\ p[Len(s) + q + 1] = d /\ p[Len(s) + q + 2] = "nl" /\ p[Len(s) + q + 3] = "select"
    /\ endsOpenStatement(s) => q = 2 /\ p[Len(s) + 1] = "semicolon" /\ p[Len(s) + 2] = "nl"
    /\ ~endsOpenStatement(s) => (q = 1 /\ p[Len(s) + 1] = "nl") \/ (q = 0 /\ (Len(s) = 0 \/ s[Len(s)] = "nl"))

LEMMA BlockIs ==
    ASSUME NEW s \in Texts, NEW d \in DOMAIN Directives
    PROVE  \E q : Below(s, s \o placeBlock(s, <<d, "nl", "select">>), d, q)
<1>1. PICK n : n = Len(s) /\ n \in Nat
  BY DEF Texts
<1>2. PICK pre : pre = (IF endsOpenStatement(s) THEN <<"semicolon", "nl">>
                        ELSE IF s # <<>> /\ Last(s) # "nl" THEN <<"nl">> ELSE <<>>)
  OBVIOUS
<1>3. PICK c : c = <<d, "nl", "select">>
  OBVIOUS
<1>4. PICK b : b = placeBlock(s, c) /\ b = pre \o c
  BY <1>2 DEF placeBlock
<1>5. d \in Chars /\ "nl" \in Chars /\ "select" \in Chars /\ "semicolon" \in Chars
  BY DEF Chars, Signs, Words, ReaderWords
<1>6. c \in Seq(Chars) /\ Len(c) = 3 /\ c[1] = d /\ c[2] = "nl" /\ c[3] = "select"
  <2>1. ASSUME NEW P, NEW x \in P, NEW y \in P, NEW z \in P
        PROVE  <<x, y, z>> \in Seq(P) /\ Len(<<x, y, z>>) = 3 /\ <<x, y, z>>[1] = x /\ <<x, y, z>>[2] = y /\ <<x, y, z>>[3] = z
    OBVIOUS
  <2> QED BY <1>3, <1>5, <2>1
<1>7. ASSUME NEW P, NEW x \in P, NEW y \in P
      PROVE  /\ <<>> \in Seq(P) /\ Len(<<>>) = 0 /\ <<x>> \in Seq(P) /\ Len(<<x>>) = 1 /\ <<x>>[1] = x
             /\ <<x, y>> \in Seq(P) /\ Len(<<x, y>>) = 2 /\ <<x, y>>[1] = x /\ <<x, y>>[2] = y
  OBVIOUS
<1>8. ASSUME NEW P, NEW w \in Seq(P) PROVE w = <<>> <=> Len(w) = 0
  OBVIOUS
<1>9. s = <<>> <=> n = 0
  BY <1>1, <1>8 DEF Texts
<1>10. /\ pre \in Seq(Chars)
       /\ endsOpenStatement(s) => Len(pre) = 2 /\ pre[1] = "semicolon" /\ pre[2] = "nl"
       /\ ~endsOpenStatement(s) => (Len(pre) = 1 /\ pre[1] = "nl") \/ (Len(pre) = 0 /\ (n = 0 \/ s[n] = "nl"))
  <2>1. CASE endsOpenStatement(s)
    <3>1. pre = <<"semicolon", "nl">>
      BY <1>2, <2>1
    <3> QED BY <1>5, <1>7, <2>1, <3>1
  <2>2. CASE ~endsOpenStatement(s) /\ s # <<>> /\ Last(s) # "nl"
    <3>1. pre = <<"nl">>
      BY <1>2, <2>2
    <3> QED BY <1>5, <1>7, <2>2, <3>1
  <2>3. CASE ~endsOpenStatement(s) /\ ~(s # <<>> /\ Last(s) # "nl")
    <3>1. pre = <<>>
      BY <1>2, <2>3
    <3>2. n = 0 \/ s[n] = "nl"
      BY <1>1, <1>9, <2>3 DEF Last
    <3> QED BY <1>5, <1>7, <2>3, <3>1, <3>2
  <2> QED BY <2>1, <2>2, <2>3
<1>11. PICK q : q = Len(pre) /\ q \in 0..2
  <2>1. Len(pre) = 2 \/ Len(pre) = 1 \/ Len(pre) = 0
    BY <1>10
  <2>2. PICK q : q = Len(pre)
    OBVIOUS
  <2>3. q \in 0..2
    BY <2>1, <2>2
  <2> QED BY <2>2, <2>3
<1>12. b \in Seq(Chars) /\ Len(b) = q + 3 /\ (\A k \in 1..q : b[k] = pre[k]) /\ \A k \in 1..3 : b[q + k] = c[k]
  <2>0. pre \in Seq(Chars) /\ c \in Seq(Chars)
    BY <1>6, <1>10
  <2>1. pre \o c \in Seq(Chars) /\ Len(pre \o c) = Len(pre) + Len(c) /\ (\A k \in 1..Len(pre) : (pre \o c)[k] = pre[k])
        /\ (\A k \in 1..Len(c) : (pre \o c)[Len(pre) + k] = c[k])
    BY <2>0, ConcatIs
  <2> QED BY <1>4, <1>6, <1>11, <2>1
<1>13. PICK p : p = s \o b
  OBVIOUS
<1>14. p \in Texts /\ Len(p) = n + (q + 3) /\ (\A k \in 1..n : p[k] = s[k]) /\ \A k \in 1..(q + 3) : p[n + k] = b[k]
  <2>0. s \in Seq(Chars) /\ b \in Seq(Chars)
    BY <1>12 DEF Texts
  <2>1. s \o b \in Seq(Chars) /\ Len(s \o b) = Len(s) + Len(b) /\ (\A k \in 1..Len(s) : (s \o b)[k] = s[k])
        /\ (\A k \in 1..Len(b) : (s \o b)[Len(s) + k] = b[k])
    BY <2>0, ConcatIs
  <2> QED BY <1>1, <1>12, <1>13, <2>1 DEF Texts
<1>15. \A k \in 1..q : p[n + k] = pre[k]
  BY <1>11, <1>12, <1>14
<1>16. p[n + q + 1] = d /\ p[n + q + 2] = "nl" /\ p[n + q + 3] = "select"
  <2>1. ASSUME NEW k \in 1..3 PROVE p[n + q + k] = c[k]
    <3>1. q + k \in 1..(q + 3) /\ n + (q + k) = n + q + k
      BY <1>1, <1>11
    <3>2. p[n + (q + k)] = b[q + k]
      BY <1>14, <3>1
    <3> QED BY <1>12, <3>1, <3>2
  <2> QED BY <1>6, <2>1
<1>17. Len(p) = n + q + 3
  BY <1>1, <1>11, <1>14
<1>18. Below(s, p, d, q)
  <2>1. endsOpenStatement(s) => q = 2 /\ p[n + 1] = "semicolon" /\ p[n + 2] = "nl"
    BY <1>10, <1>11, <1>15
  <2>2. ~endsOpenStatement(s) => (q = 1 /\ p[n + 1] = "nl") \/ (q = 0 /\ (n = 0 \/ s[n] = "nl"))
    BY <1>10, <1>11, <1>15
  <2> QED BY <1>1, <1>11, <1>14, <1>16, <1>17, <2>1, <2>2 DEF Below
<1> QED BY <1>3, <1>4, <1>13, <1>18

(* How the text with the block is read.                                    *)
LEMMA BelowIsRead ==
    ASSUME NEW s, NEW p, NEW d, NEW q, Below(s, p, d, q), ScanFrom(s).mode = "code"
    PROVE  /\ \A k \in 1..Len(s) : (k \in Coded(p) <=> k \in Coded(s)) /\ (k \in Closers(p) <=> k \in Closers(s))
           /\ Len(p) \in Coded(p) /\ \A k \in (Len(s) + 1)..(Len(p) - 1) : k \in Coded(p) => k \in Closers(p)
           /\ \A k \in (Len(s) + 1)..Len(p) : k \in Closers(p) <=> k = Len(s) + 1 /\ endsOpenStatement(s)
<1>1. PICK n : n = Len(s) /\ n \in Nat /\ q \in 0..2 /\ Len(p) = n + q + 3 /\ s \in Texts /\ p \in Texts
  BY DEF Below, Texts
<1>2. PICK m, dd : Scanned(m, dd, s)
  BY <1>1, ScanIs
<1>3. PICK mp, dp : Scanned(mp, dp, p)
  BY <1>1, ScanIs
<1>4. Alike(p, 0, s, 0, n) /\ mp[0] = m[0] /\ \A k \in 0..n : mp[k] = m[k]
  <2>1. n \in Nat /\ n <= Len(p) /\ n <= Len(s) /\ \A k \in 1..n : p[k] = s[k]
    BY <1>1 DEF Below
  <2> QED BY <1>2, <1>3, <2>1, SameLevels
<1>5. mp[n] = "code"
  <2>1. n \in 0..n /\ m[n] = "code"
    BY <1>1, <1>2 DEF Scanned
  <2> QED BY <1>4, <2>1
<1>6. ASSUME NEW k \in 1..n PROVE (k \in Coded(p) <=> k \in Coded(s)) /\ (k \in Closers(p) <=> k \in Closers(s))
  <2>1. 0 + k = k
    OBVIOUS
  <2> QED BY <1>2, <1>3, <1>4, <2>1, SameHearing
<1>7. ASSUME NEW k \in 1..Len(p)
      PROVE  /\ mp[k] = ModeAfter(mp[k - 1], p[k])
             /\ k \in Coded(p) <=> RegionOf(mp[k - 1], p[k]) \notin {"line-comment", "block-comment"} /\ p[k] # "nl"
             /\ k \in Closers(p) <=> RegionOf(mp[k - 1], p[k]) = "code" /\ p[k] = "semicolon"
  BY <1>3, HeardIs DEF RegionAt
<1>8. ASSUME NEW k \in 1..Len(p), mp[k - 1] = "code", p[k] = "nl" PROVE mp[k] = "code" /\ k \notin Coded(p) /\ k \notin Closers(p)
  BY <1>7, <1>8, CodeTokens
<1>9. endsOpenStatement(s) => mp[n + 2] = "code" /\ n + 1 \in Closers(p) /\ n + 2 \notin Coded(p) /\ n + 2 \notin Closers(p)
  <2> SUFFICES ASSUME endsOpenStatement(s) PROVE mp[n + 2] = "code" /\ n + 1 \in Closers(p) /\ n + 2 \notin Coded(p) /\ n + 2 \notin Closers(p)
    OBVIOUS
  <2>1. q = 2 /\ p[n + 1] = "semicolon" /\ p[n + 2] = "nl"
    BY <1>1 DEF Below
  <2>2. PICK x, y : x = n + 1 /\ y = n + 2 /\ x \in 1..Len(p) /\ y \in 1..Len(p) /\ x - 1 = n /\ y - 1 = x
    BY <1>1, <2>1
  <2>3. mp[x] = "code" /\ x \in Closers(p)
    <3>1. mp[x - 1] = "code" /\ p[x] = "semicolon"
      BY <1>5, <2>1, <2>2
    <3>2. RegionOf("code", "semicolon") = "code" /\ ModeAfter("code", "semicolon") = "code"
      BY CodeTokens
    <3> QED BY <1>7, <2>2, <3>1, <3>2
  <2>4. mp[y] = "code" /\ y \notin Coded(p) /\ y \notin Closers(p)
    <3>1. mp[y - 1] = "code" /\ p[y] = "nl"
      BY <2>1, <2>2, <2>3
    <3> QED BY <1>8, <2>2, <3>1
  <2> QED BY <2>2, <2>3, <2>4
<1>10. ~endsOpenStatement(s) => mp[n + q] = "code" /\ \A k \in (n + 1)..(n + q) : k \notin Coded(p) /\ k \notin Closers(p)
  <2> SUFFICES ASSUME ~endsOpenStatement(s)
               PROVE  mp[n + q] = "code" /\ \A k \in (n + 1)..(n + q) : k \notin Coded(p) /\ k \notin Closers(p)
    OBVIOUS
  <2>1. (q = 1 /\ p[n + 1] = "nl") \/ q = 0
    BY <1>1 DEF Below
  <2>2. CASE q = 0
    <3>1. n + q = n /\ (n + 1)..(n + q) = {}
      BY <1>1, <2>2
    <3> QED BY <1>5, <3>1
  <2>3. CASE q = 1 /\ p[n + 1] = "nl"
    <3>1. PICK x : x = n + 1 /\ x \in 1..Len(p) /\ x - 1 = n /\ n + q = x /\ (n + 1)..(n + q) = {x}
      BY <1>1, <2>3
    <3>2. mp[x] = "code" /\ x \notin Coded(p) /\ x \notin Closers(p)
      <4>1. mp[x - 1] = "code" /\ p[x] = "nl"
        BY <1>5, <2>3, <3>1
      <4> QED BY <1>8, <3>1, <4>1
    <3> QED BY <3>1, <3>2
  <2> QED BY <2>1, <2>2, <2>3
<1>11. mp[n + q] = "code"
  <2>1. endsOpenStatement(s) => q = 2
    BY DEF Below
  <2> QED BY <1>9, <1>10, <2>1
<1>12. PICK u : u = n + q /\ u \in Nat /\ u >= n /\ Len(p) = u + 3 /\ p[u + 1] = d /\ p[u + 2] = "nl" /\ p[u + 3] = "select" /\ d \in DOMAIN Directives
  BY <1>1 DEF Below
<1>13. mp[u + 1] = "line-comment" /\ u + 1 \notin Coded(p) /\ u + 1 \notin Closers(p)
  <2>1. PICK x : x = u + 1 /\ x \in 1..Len(p) /\ x - 1 = u
    BY <1>12
  <2>2. mp[x - 1] = "code" /\ p[x] = d
    BY <1>11, <1>12, <2>1
  <2>3. RegionOf("code", d) = "line-comment" /\ ModeAfter("code", d) = "line-comment"
    BY <1>12, CodeTokens
  <2> QED BY <1>7, <2>1, <2>2, <2>3
<1>14. mp[u + 2] = "code" /\ u + 2 \notin Coded(p) /\ u + 2 \notin Closers(p)
  <2>1. PICK x : x = u + 2 /\ x \in 1..Len(p) /\ x - 1 = u + 1
    BY <1>12
  <2>2. mp[x - 1] = "line-comment" /\ p[x] = "nl"
    BY <1>12, <1>13, <2>1
  <2>3. ModeAfter("line-comment", "nl") = "code"
    BY CodeTokens
  <2> QED BY <1>7, <2>1, <2>2, <2>3
<1>15. u + 3 \in Coded(p) /\ u + 3 \notin Closers(p)
  <2>1. PICK x : x = u + 3 /\ x \in 1..Len(p) /\ x - 1 = u + 2
    BY <1>12
  <2>2. mp[x - 1] = "code" /\ p[x] = "select"
    BY <1>12, <1>14, <2>1
  <2>3. "select" \notin Signs \cup DOMAIN Directives
    BY TextAssumption DEF Words, ReaderWords, Signs
  <2>4. RegionOf("code", "select") = "code"
    BY <2>3, CodeTokens
  <2> QED BY <1>7, <2>1, <2>2, <2>4
<1>16. ASSUME NEW k \in (n + 1)..Len(p)
       PROVE  \/ (k = n + 1 \/ k = n + 2) /\ endsOpenStatement(s)
              \/ k \in (n + 1)..(n + q) /\ ~endsOpenStatement(s)
              \/ k = u + 1 \/ k = u + 2 \/ k = u + 3
  <2>1. endsOpenStatement(s) => q = 2
    BY DEF Below
  <2>2. k \in (n + 1)..(n + q) \/ k = u + 1 \/ k = u + 2 \/ k = u + 3
    BY <1>1, <1>12
  <2>3. q = 2 /\ k \in (n + 1)..(n + q) => k = n + 1 \/ k = n + 2
    BY <1>1
  <2> QED BY <2>1, <2>2, <2>3
<1>17. \A k \in (n + 1)..Len(p) : k \in Closers(p) <=> k = n + 1 /\ endsOpenStatement(s)
  <2> TAKE k \in (n + 1)..Len(p)
  <2>1. n + 1 # n + 2 /\ (endsOpenStatement(s) => u + 1 # n + 1 /\ u + 2 # n + 1 /\ u + 3 # n + 1)
    <3>1. endsOpenStatement(s) => q = 2
      BY DEF Below
    <3> QED BY <1>1, <1>12, <3>1
  <2> QED BY <1>9, <1>10, <1>13, <1>14, <1>15, <1>16, <2>1
<1>18. \A k \in (n + 1)..(Len(p) - 1) : k \in Coded(p) => k \in Closers(p)
  <2> TAKE k \in (n + 1)..(Len(p) - 1)
  <2>1. k \in (n + 1)..Len(p) /\ k # u + 3
    BY <1>1, <1>12
  <2> QED BY <1>9, <1>10, <1>13, <1>14, <1>16, <2>1
<1> QED BY <1>1, <1>6, <1>12, <1>15, <1>17, <1>18

(* A part that both texts have, in either.                                 *)
LEMMA SamePart ==
    ASSUME NEW s \in Texts, NEW p \in Texts, NEW n \in Nat, n <= Len(s), n <= Len(p), \A k \in 1..n : p[k] = s[k],
           NEW a \in 1..n, NEW b \in 0..n, a <= b + 1
    PROVE  SubSeq(p, a, b) = SubSeq(s, a, b)
<1>1. ASSUME NEW P, NEW w \in Seq(P), b <= Len(w)
      PROVE  SubSeq(w, a, b) \in Seq(P) /\ Len(SubSeq(w, a, b)) = b - a + 1 /\ \A k \in 1..(b - a + 1) : SubSeq(w, a, b)[k] = w[a + k - 1]
  BY <1>1
<1>2. PICK u, v : u = SubSeq(p, a, b) /\ v = SubSeq(s, a, b)
  OBVIOUS
<1>3. p \in Seq(Chars) /\ s \in Seq(Chars) /\ b <= Len(p) /\ b <= Len(s)
  BY DEF Texts
<1>4. u \in Seq(Chars) /\ Len(u) = b - a + 1 /\ \A k \in 1..(b - a + 1) : u[k] = p[a + k - 1]
  BY <1>1, <1>2, <1>3
<1>5. v \in Seq(Chars) /\ Len(v) = b - a + 1 /\ \A k \in 1..(b - a + 1) : v[k] = s[a + k - 1]
  BY <1>1, <1>2, <1>3
<1>6. \A k \in 1..(b - a + 1) : u[k] = v[k]
  <2> TAKE k \in 1..(b - a + 1)
  <2>1. a + k - 1 \in 1..n
    OBVIOUS
  <2> QED BY <1>4, <1>5, <2>1
<1>7. ASSUME NEW P, NEW x \in Seq(P), NEW y \in Seq(P), Len(x) = Len(y), \A k \in 1..Len(x) : x[k] = y[k] PROVE x = y
  BY <1>7
<1> QED BY <1>2, <1>4, <1>5, <1>6, <1>7

LEMMA SameChunk ==
    ASSUME NEW s \in Texts, NEW p \in Texts, Len(s) <= Len(p), \A k \in 1..Len(s) : p[k] = s[k],
           \A k \in 1..Len(s) : k \in Coded(p) <=> k \in Coded(s), NEW f \in Nat, f >= 1, NEW k \in Nat, k <= Len(s)
    PROVE  Chunk(p, f, k) = Chunk(s, f, k)
<1>1. PICK n : n = Len(s) /\ n \in Nat /\ DOMAIN s = 1..n /\ Len(p) \in Nat /\ DOMAIN p = 1..Len(p) /\ f..k \subseteq 1..n
  BY DEF Texts
<1>2. PICK solid, code : solid = {i \in f..k : s[i] # "nl"} /\ code = {i \in f..k : i \in Coded(s)}
  OBVIOUS
<1>3. solid = {i \in f..k : p[i] # "nl"} /\ code = {i \in f..k : i \in Coded(p)}
  BY <1>1, <1>2
<1>4. code = {i \in f..k : IsCode(scanSql(s)[i])}
  BY <1>1, <1>2 DEF Coded
<1>5. code = {i \in f..k : IsCode(scanSql(p)[i])}
  BY <1>1, <1>3 DEF Coded
<1>6. Chunk(s, f, k) = IF code = {} THEN <<>>
        ELSE <<[sql |-> SubSeq(s, Min(solid), Max(solid)), start |-> Min(solid), end |-> Max(solid), codeStart |-> Min(code)]>>
  BY <1>2, <1>4, Zenon DEF Chunk
<1>7. Chunk(p, f, k) = IF code = {} THEN <<>>
        ELSE <<[sql |-> SubSeq(p, Min(solid), Max(solid)), start |-> Min(solid), end |-> Max(solid), codeStart |-> Min(code)]>>
  BY <1>3, <1>5, Zenon DEF Chunk
<1>8. ASSUME code # {} PROVE SubSeq(p, Min(solid), Max(solid)) = SubSeq(s, Min(solid), Max(solid))
  <2>1. code \subseteq solid
    <3>1. PICK m, d : Scanned(m, d, s)
      BY ScanIs
    <3>2. \A i \in 1..n : i \in Coded(s) => s[i] # "nl"
      BY <1>1, <3>1, HeardIs
    <3> QED BY <1>1, <1>2, <3>2
  <2>2. solid \in SUBSET (1..n) /\ solid \in SUBSET Nat /\ solid # {}
    BY <1>1, <1>2, <1>8, <2>1
  <2>3. PICK a, b : a = Min(solid) /\ b = Max(solid)
    OBVIOUS
  <2>4. a \in solid /\ \A y \in solid : a <= y
    BY <2>2, <2>3, MinIs
  <2>5. b \in solid
    BY <1>1, <2>2, <2>3, MaxIs
  <2>6. a \in 1..n /\ b \in 0..n /\ a <= b + 1
    BY <1>1, <2>2, <2>4, <2>5
  <2>7. n <= Len(s) /\ n <= Len(p) /\ \A i \in 1..n : p[i] = s[i]
    BY <1>1
  <2>8. SubSeq(p, a, b) = SubSeq(s, a, b)
    BY <1>1, <2>6, <2>7, SamePart
  <2> QED BY <2>3, <2>8
<1>9. CASE code = {}
  <2>1. Chunk(s, f, k) = <<>> /\ Chunk(p, f, k) = <<>>
    BY <1>6, <1>7, <1>9, Zenon
  <2> QED BY <2>1
<1>10. CASE code # {}
  <2>1. PICK a, b, c : a = Min(solid) /\ b = Max(solid) /\ c = Min(code)
    OBVIOUS
  <2>2. PICK x : x = SubSeq(s, a, b) /\ x = SubSeq(p, a, b)
    BY <1>8, <1>10, <2>1
  <2>3. Chunk(s, f, k) = <<[sql |-> x, start |-> a, end |-> b, codeStart |-> c]>>
    BY <1>6, <1>10, <2>1, <2>2
  <2>4. Chunk(p, f, k) = <<[sql |-> x, start |-> a, end |-> b, codeStart |-> c]>>
    BY <1>7, <1>10, <2>1, <2>2
  <2> QED BY <2>3, <2>4
<1> QED BY <1>9, <1>10

(* The block is one statement more.                                        *)
LEMMA BlockIsSplit ==
    ASSUME NEW s, NEW p, NEW d, NEW q, Below(s, p, d, q), ScanFrom(s).mode = "code"
    PROVE  \E r \in Pieces : splitSql(p) = Append(splitSql(s), r) /\ r.codeStart = Len(p) /\ r.end = Len(p)
<1>1. PICK n, N : n = Len(s) /\ n \in Nat /\ q \in 0..2 /\ N = Len(p) /\ N = n + q + 3 /\ s \in Texts /\ p \in Texts
  BY DEF Below, Texts
<1>2. /\ \A k \in 1..n : p[k] = s[k] /\ (k \in Coded(p) <=> k \in Coded(s)) /\ (k \in Closers(p) <=> k \in Closers(s))
      /\ N \in Coded(p) /\ \A k \in (n + 1)..(N - 1) : k \in Coded(p) => k \in Closers(p)
      /\ \A k \in (n + 1)..N : k \in Closers(p) <=> k = n + 1 /\ endsOpenStatement(s)
  <2>1. \A k \in 1..n : p[k] = s[k]
    BY <1>1 DEF Below
  <2>2. /\ \A k \in 1..n : (k \in Coded(p) <=> k \in Coded(s)) /\ (k \in Closers(p) <=> k \in Closers(s))
        /\ N \in Coded(p) /\ \A k \in (n + 1)..(N - 1) : k \in Coded(p) => k \in Closers(p)
        /\ \A k \in (n + 1)..N : k \in Closers(p) <=> k = n + 1 /\ endsOpenStatement(s)
    BY <1>1, BelowIsRead
  <2> QED BY <2>1, <2>2
<1>3. PICK gs : Splits(gs, s)
  BY <1>1, SplitFolds
<1>4. PICK gp : Splits(gp, p)
  BY <1>1, SplitFolds
<1>5. /\ Ends(s) = Closers(s) \cup {n + 1} /\ Closers(s) \subseteq 1..n
      /\ Ends(p) = Closers(p) \cup {N + 1} /\ Closers(p) \subseteq 1..N
  <2>1. 1 \in 1..(n + 1) /\ 1 \in 1..(N + 1)
    BY <1>1
  <2> QED BY <1>1, <2>1, FromIs
<1>6. \A x \in 1..n : x \in Ends(p) <=> x \in Ends(s)
  BY <1>1, <1>2, <1>5
<1>7. ASSUME NEW e \in 1..(n + 1) PROVE From(p, e) = From(s, e)
  <2>1. \A x : x \in Ends(p) /\ x < e <=> x \in Ends(s) /\ x < e
    <3> TAKE x
    <3>1. x \in Ends(p) \/ x \in Ends(s) => x \in Nat /\ x >= 1
      BY <1>1, <1>5
    <3>2. x \in Nat /\ x >= 1 /\ x < e => x \in 1..n
      BY <1>1
    <3> QED BY <1>6, <3>1, <3>2
  <2>2. {x \in Ends(p) : x < e} = {x \in Ends(s) : x < e}
    BY <2>1
  <2> QED BY <2>2 DEF From
<1>8. ASSUME NEW k \in 0..n PROVE Chunk(p, From(p, k + 1), k) = Chunk(s, From(s, k + 1), k)
  <2>1. k + 1 \in 1..(n + 1) /\ k \in Nat /\ k <= Len(s) /\ Len(s) <= Len(p)
    BY <1>1
  <2>2. PICK f : f = From(s, k + 1) /\ f = From(p, k + 1) /\ f \in Nat /\ f >= 1
    <3>1. From(s, k + 1) \in 1..(k + 1)
      BY <1>1, <2>1, FromIs
    <3> QED BY <1>7, <2>1, <3>1
  <2>3. \A i \in 1..Len(s) : p[i] = s[i] /\ (i \in Coded(p) <=> i \in Coded(s))
    BY <1>1, <1>2
  <2>4. Chunk(p, f, k) = Chunk(s, f, k)
    BY <1>1, <2>1, <2>2, <2>3, SameChunk
  <2> QED BY <2>2, <2>4
<1>9. /\ \A k \in 0..n : gs[k + 1] = IF k + 1 \in Ends(s) THEN gs[k] \o Chunk(s, From(s, k + 1), k) ELSE gs[k]
      /\ \A k \in 0..N : gp[k + 1] = IF k + 1 \in Ends(p) THEN gp[k] \o Chunk(p, From(p, k + 1), k) ELSE gp[k]
      /\ gs[0] = <<>> /\ gp[0] = <<>> /\ gs[n + 1] = splitSql(s) /\ gp[N + 1] = splitSql(p)
      /\ \A k \in 0..(n + 1) : gs[k] \in Seq(Pieces)
  BY <1>1, <1>3, <1>4 DEF Splits
<1>10. gp[n] = gs[n]
  <2> DEFINE T == {k \in Nat : k <= n => gp[k] = gs[k]}
  <2>1. 0 \in T
    BY <1>9
  <2>2. ASSUME NEW k \in Nat, k \in T PROVE k + 1 \in T
    <3> SUFFICES ASSUME k + 1 <= n PROVE gp[k + 1] = gs[k + 1]
      OBVIOUS
    <3>1. k \in 0..n /\ k \in 0..N /\ k + 1 \in 1..n /\ gp[k] = gs[k]
      BY <1>1, <2>2
    <3>2. k + 1 \in Ends(p) <=> k + 1 \in Ends(s)
      BY <1>6, <3>1
    <3>3. Chunk(p, From(p, k + 1), k) = Chunk(s, From(s, k + 1), k)
      BY <1>8, <3>1
    <3>4. gs[k + 1] = IF k + 1 \in Ends(s) THEN gs[k] \o Chunk(s, From(s, k + 1), k) ELSE gs[k]
      BY <1>9, <3>1
    <3>5. gp[k + 1] = IF k + 1 \in Ends(p) THEN gp[k] \o Chunk(p, From(p, k + 1), k) ELSE gp[k]
      BY <1>9, <3>1
    <3> QED BY <3>1, <3>2, <3>3, <3>4, <3>5
  <2>3. Nat \subseteq T
    <3> HIDE DEF T
    <3> QED BY <2>1, <2>2, Induction
  <2> QED BY <1>1, <2>3
<1>11. n \in 0..n /\ n \in 0..N /\ n + 1 \in Ends(s) /\ n + 1 \in 1..(n + 1)
  BY <1>1, <1>5
<1>12. splitSql(s) = gs[n] \o Chunk(s, From(s, n + 1), n)
  BY <1>9, <1>11
(* What the statements of s are made of by position w, and where the block *)
(* may begin.                                                              *)
<1>13. PICK w \in {n, n + 1} :
          /\ gp[w] = splitSql(s)
          /\ \A k \in (w + 1)..N : k \notin Closers(p)
          /\ \A k \in From(p, N + 1)..(N - 1) : k \notin Coded(p)
  <2>1. CASE endsOpenStatement(s)
    <3>1. n + 1 \in Closers(p) /\ n + 1 \in Ends(p)
      BY <1>1, <1>2, <1>5, <2>1
    <3>2. gp[n + 1] = gp[n] \o Chunk(p, From(p, n + 1), n)
      BY <1>9, <1>11, <3>1
    <3>3. gp[n + 1] = splitSql(s)
      BY <1>8, <1>10, <1>11, <1>12, <3>2
    <3>4. \A k \in ((n + 1) + 1)..N : k \notin Closers(p)
      <4> TAKE k \in ((n + 1) + 1)..N
      <4>1. k \in (n + 1)..N /\ k # n + 1
        BY <1>1
      <4> QED BY <1>2, <4>1
    <3>5. \A k \in From(p, N + 1)..(N - 1) : k \notin Coded(p)
      <4>1. N + 1 \in 1..(N + 1) /\ n + 1 < N + 1
        BY <1>1
      <4>2. From(p, N + 1) \in Nat /\ n + 1 < From(p, N + 1)
        <5>1. From(p, N + 1) \in 1..(N + 1) /\ \A x \in Ends(p) : x < N + 1 => x < From(p, N + 1)
          BY <1>1, <4>1, FromIs
        <5> QED BY <1>1, <3>1, <4>1, <5>1
      <4> TAKE k \in From(p, N + 1)..(N - 1)
      <4>3. k \in ((n + 1) + 1)..N /\ k \in (n + 1)..(N - 1)
        BY <1>1, <4>2
      <4> QED BY <1>2, <3>4, <4>3
    <3>6. n + 1 \in {n, n + 1}
      OBVIOUS
    <3> QED BY <3>3, <3>4, <3>5, <3>6
  <2>2. CASE ~endsOpenStatement(s)
    <3>1. PICK f : f = From(s, n + 1) /\ f \in 1..(n + 1) /\ \A x \in Ends(s) : x < n + 1 => x < f
      BY <1>1, <1>11, FromIs
    <3>2. \A i \in f..n : i \notin Coded(s)
      <4> TAKE i \in f..n
      <4> SUFFICES ASSUME i \in Coded(s) PROVE FALSE
        OBVIOUS
      <4>1. DOMAIN s = 1..n /\ i \in 1..n
        BY <1>1, <3>1 DEF Texts
      <4>2. PICK j \in i..Len(s) : IsEnd(scanSql(s)[j])
        BY <2>2, <4>1 DEF endsOpenStatement, Coded
      <4>3. j \in 1..n /\ f <= j
        BY <1>1, <3>1, <4>1
      <4>4. j \in Closers(s)
        BY <4>1, <4>2, <4>3 DEF Closers
      <4>5. j \in Ends(s) /\ j < n + 1
        BY <1>1, <1>5, <4>3, <4>4
      <4> QED BY <3>1, <4>3, <4>5
    <3>3. Chunk(s, f, n) = <<>>
      <4>1. f \in Nat /\ f >= 1 /\ n <= Len(s)
        BY <1>1, <3>1
      <4> QED BY <1>1, <3>2, <4>1, ChunkIs
    <3>4. gp[n] = splitSql(s)
      <4>1. ASSUME NEW P, NEW x \in Seq(P) PROVE x \o <<>> = x
        OBVIOUS
      <4>2. gs[n] \in Seq(Pieces) /\ splitSql(s) = gs[n] \o <<>>
        <5>1. n \in 0..(n + 1)
          BY <1>1
        <5> QED BY <1>9, <1>12, <3>1, <3>3, <5>1
      <4> QED BY <1>10, <4>1, <4>2
    <3>5. \A k \in (n + 1)..N : k \notin Closers(p)
      BY <1>2, <2>2
    <3>6. \A k \in From(p, N + 1)..(N - 1) : k \notin Coded(p)
      <4>1. From(p, N + 1) = f
        <5>1. \A x : x \in Ends(p) /\ x < N + 1 <=> x \in Ends(s) /\ x < n + 1
          <6> TAKE x
          <6>1. x \in Ends(p) /\ x < N + 1 => x \in 1..n
            <7>1. x \in Ends(p) /\ x < N + 1 => x \in Closers(p) /\ x \in 1..N /\ N + 1 \in Nat
              BY <1>1, <1>5
            <7>2. x \in 1..N => x \in 1..n \/ x \in (n + 1)..N
              BY <1>1
            <7> QED BY <3>5, <7>1, <7>2
          <6>2. x \in Ends(s) /\ x < n + 1 => x \in 1..n
            BY <1>1, <1>5
          <6>3. x \in 1..n => x < N + 1 /\ x < n + 1
            BY <1>1
          <6> QED BY <1>6, <6>1, <6>2, <6>3
        <5>2. {x \in Ends(p) : x < N + 1} = {x \in Ends(s) : x < n + 1}
          BY <5>1
        <5> QED BY <3>1, <5>2 DEF From
      <4> TAKE k \in From(p, N + 1)..(N - 1)
      <4>2. k \in f..n \/ k \in (n + 1)..(N - 1)
        BY <1>1, <3>1, <4>1
      <4>3. k \in f..n => k \in 1..n
        BY <1>1, <3>1
      <4>4. k \in (n + 1)..(N - 1) => k \in (n + 1)..N
        BY <1>1
      <4> QED BY <1>2, <3>2, <3>5, <4>2, <4>3, <4>4
    <3>7. n \in {n, n + 1}
      OBVIOUS
    <3> QED BY <3>4, <3>5, <3>6, <3>7
  <2> QED BY <2>1, <2>2
<1>14. gp[N] = splitSql(s)
  <2> DEFINE T == {k \in Nat : w + k <= N => gp[w + k] = splitSql(s)}
  <2>1. 0 \in T
    <3>1. w + 0 = w
      BY <1>1, <1>13
    <3> QED BY <1>13, <3>1
  <2>2. ASSUME NEW k \in Nat, k \in T PROVE k + 1 \in T
    <3> SUFFICES ASSUME w + (k + 1) <= N PROVE gp[w + (k + 1)] = splitSql(s)
      OBVIOUS
    <3>1. PICK x : x = w + k /\ x \in 0..N /\ x + 1 = w + (k + 1) /\ x + 1 \in (w + 1)..N /\ x + 1 # N + 1
      BY <1>1, <1>13
    <3>2. gp[x] = splitSql(s)
      BY <1>1, <1>13, <2>2, <3>1
    <3>3. x + 1 \notin Ends(p)
      BY <1>5, <1>13, <3>1
    <3>4. gp[x + 1] = gp[x]
      BY <1>9, <3>1, <3>3
    <3> QED BY <3>1, <3>2, <3>4
  <2>3. Nat \subseteq T
    <3> HIDE DEF T
    <3> QED BY <2>1, <2>2, Induction
  <2>4. PICK k : k \in Nat /\ w + k = N
    <3>1. w \in Nat /\ N - w \in Nat /\ w + (N - w) = N
      BY <1>1, <1>13
    <3> QED BY <3>1
  <2>5. k \in T
    <3> HIDE DEF T
    <3> QED BY <2>3, <2>4
  <2>6. w + k <= N
    BY <1>1, <2>4
  <2> QED BY <2>4, <2>5, <2>6
<1>15. PICK f : f = From(p, N + 1) /\ f \in 1..(N + 1) /\ f <= N
  <2>1. N + 1 \in 1..(N + 1) /\ N \in Nat
    BY <1>1
  <2>2. From(p, N + 1) \in 1..(N + 1) /\ From(p, N + 1) - 1 \in {0} \cup Closers(p)
    BY <1>1, <2>1, FromIs
  <2>3. N \notin Closers(p)
    BY <1>1, <1>13
  <2>4. N >= 1
    BY <1>1
  <2> QED BY <2>1, <2>2, <2>3, <2>4
<1>16. PICK r : Chunk(p, f, N) = <<r>> /\ Piece(p, f, N, r)
  <2>1. f \in Nat /\ f >= 1 /\ N \in Nat /\ N <= Len(p) /\ N \in f..N
    BY <1>1, <1>15
  <2> QED BY <1>1, <1>2, <2>1, ChunkIs
<1>17. splitSql(p) = Append(splitSql(s), r) /\ r \in Pieces
  <2>1. N \in 0..N /\ N + 1 \in Ends(p)
    BY <1>1, <1>5
  <2>2. splitSql(p) = gp[N] \o Chunk(p, f, N)
    BY <1>9, <1>15, <2>1
  <2>3. ASSUME NEW P, NEW x \in Seq(P), NEW y \in P PROVE x \o <<y>> = Append(x, y)
    OBVIOUS
  <2>4. r \in Pieces /\ splitSql(s) \in Seq(Pieces)
    BY <1>1, <1>16, StatementsStand DEF Piece
  <2>5. splitSql(p) = splitSql(s) \o <<r>>
    BY <1>14, <1>16, <2>2
  <2> QED BY <2>3, <2>4, <2>5
<1>18. r.codeStart = N /\ r.end = N
  <2>1. PICK c, e : c = r.codeStart /\ e = r.end /\ c \in Nat /\ e \in Nat /\ r.start \in Nat
    BY <1>17 DEF Pieces
  <2>2. f <= r.start /\ r.start <= c /\ c <= e /\ e <= N /\ c \in Coded(p)
    BY <1>16, <2>1 DEF Piece
  <2>3. c \in f..N /\ N \in Nat
    BY <1>1, <1>15, <2>1, <2>2
  <2>4. c \notin f..(N - 1)
    BY <1>13, <1>15, <2>2
  <2> QED BY <1>15, <2>1, <2>2, <2>3, <2>4
<1> QED BY <1>1, <1>17, <1>18

(* What is above the block keeps its directives, and their values.         *)
LEMMA AboveIsKept ==
    ASSUME NEW s, NEW p, NEW d, NEW q, Below(s, p, d, q), LastLineIsFree(s), NEW c \in 1..Len(s)
    PROVE  configAt(p, c) = configAt(s, c)
<1>1. PICK n, N : n = Len(s) /\ n \in Nat /\ N = Len(p) /\ N \in Nat /\ n <= N /\ s \in Texts /\ p \in Texts
                 /\ DOMAIN s = 1..n /\ DOMAIN p = 1..N
  BY DEF Below, Texts
<1>2. \A k \in 1..n : p[k] = s[k]
  BY <1>1 DEF Below
<1>3. \A i \in 1..n : i \in parseDirectives(p) <=> i \in parseDirectives(s)
  <2> TAKE i \in 1..n
  <2>1. i \in 1..N /\ p[i] = s[i]
    BY <1>1, <1>2
  <2>2. i # 1 => i - 1 \in 1..n /\ p[i - 1] = s[i - 1]
    BY <1>1, <1>2
  <2> QED BY <1>1, <2>1, <2>2 DEF parseDirectives
<1>4. ASSUME NEW i \in parseDirectives(s) PROVE ValueOf(p, i) = ValueOf(s, i)
  <2>1. i \in 1..n /\ i \in parseDirectives(p) /\ s[i] # "nl"
    BY <1>1, <1>3, ValueIs
  <2>2. PICK breaks : breaks = {j \in i..n : s[j] = "nl"}
    OBVIOUS
  <2>3. breaks \in SUBSET Nat /\ breaks # {}
    <3>1. \E j \in i..n : s[j] = "nl"
      BY <1>1 DEF LastLineIsFree
    <3> QED BY <1>1, <2>1, <2>2, <3>1
  <2>4. PICK j : j \in breaks /\ \A y \in breaks : j <= y
    BY <2>3, MinIs
  <2>5. j \in i..n /\ s[j] = "nl" /\ j \in i..N /\ j \in 1..n
    BY <1>1, <2>1, <2>2, <2>4
  <2>6. \A k \in i..(j - 1) : s[k] # "nl" /\ p[k] = s[k]
    <3> TAKE k \in i..(j - 1)
    <3>1. k \in i..n /\ k \in 1..n /\ ~(j <= k)
      BY <1>1, <2>1, <2>5
    <3> QED BY <1>2, <2>2, <2>4, <3>1
  <2>7. p[j] = "nl"
    BY <1>2, <2>5
  <2>8. ValueOf(s, i) = SubSeq(s, i, j - 1)
    BY <1>1, <2>5, <2>6, ValueIs
  <2>9. ValueOf(p, i) = SubSeq(p, i, j - 1)
    BY <1>1, <2>1, <2>5, <2>6, <2>7, ValueIs
  <2>10. j - 1 \in 0..n /\ i <= (j - 1) + 1
    BY <1>1, <2>1, <2>5
  <2>11. SubSeq(p, i, j - 1) = SubSeq(s, i, j - 1)
    BY <1>1, <1>2, <2>1, <2>10, SamePart
  <2> QED BY <2>8, <2>9, <2>11
<1>5. ASSUME NEW key PROVE Effective(p, key, c) = Effective(s, key, c)
  <2>1. PICK seen : seen = {i \in parseDirectives(s) : i < c /\ Directives[s[i]] = key}
    OBVIOUS
  <2>2. seen = {i \in parseDirectives(p) : i < c /\ Directives[p[i]] = key}
    <3>1. parseDirectives(s) \subseteq 1..n /\ parseDirectives(p) \subseteq 1..N
      BY <1>1 DEF parseDirectives
    <3>2. \A i \in 1..N : i < c => i \in 1..n
      BY <1>1
    <3>3. \A i \in 1..n : i \in 1..N /\ p[i] = s[i]
      BY <1>1, <1>2
    <3> QED BY <1>3, <2>1, <3>1, <3>2, <3>3
  <2>3. Effective(s, key, c) = IF seen = {} THEN <<>> ELSE ValueOf(s, Max(seen))
    BY <2>1 DEF Effective
  <2>4. Effective(p, key, c) = IF seen = {} THEN <<>> ELSE ValueOf(p, Max(seen))
    BY <2>2 DEF Effective
  <2>5. ASSUME seen # {} PROVE ValueOf(p, Max(seen)) = ValueOf(s, Max(seen))
    <3>1. seen \in SUBSET (1..n)
      BY <1>1, <2>1 DEF parseDirectives
    <3>2. Max(seen) \in parseDirectives(s)
      <4>1. Max(seen) \in seen
        BY <1>1, <2>5, <3>1, MaxIs
      <4> QED BY <2>1, <4>1
    <3> QED BY <1>4, <3>2
  <2> QED BY <2>3, <2>4, <2>5
<1>6. Effective(p, "conn", c) = Effective(s, "conn", c) /\ Effective(p, "kind", c) = Effective(s, "kind", c)
  BY <1>5
<1> QED BY <1>6 DEF configAt

(* And what the block runs on.                                             *)
LEMMA BlockConnects ==
    ASSUME NEW s, NEW p, NEW d, NEW q, Below(s, p, d, q), Directives[d] = "conn",
           NEW r \in Pieces, r.codeStart = Len(p), r.end = Len(p)
    PROVE  configAt(p, Len(p)).connection = <<d>> /\ strandedConnection(p, r) = <<>>
<1>0. PICK n, N : n = Len(s) /\ n \in Nat /\ q \in 0..2 /\ N = Len(p) /\ N = n + q + 3 /\ s \in Texts /\ p \in Texts /\ DOMAIN p = 1..N
  BY DEF Below, Texts
<1>1. PICK u : /\ n = Len(s) /\ n \in Nat /\ q \in 0..2 /\ N = Len(p) /\ u = n + q + 1 /\ u \in 1..N /\ N = u + 2
              /\ s \in Texts /\ p \in Texts /\ DOMAIN p = 1..N /\ N \in Nat
  BY <1>0
<1>2. p[u] = d /\ p[u + 1] = "nl" /\ p[u + 2] = "select" /\ d \in DOMAIN Directives
  <2>1. p[n + q + 1] = d /\ p[n + q + 2] = "nl" /\ p[n + q + 3] = "select"
    BY <1>1 DEF Below
  <2>2. u + 1 = n + q + 2 /\ u + 2 = n + q + 3
    BY <1>1
  <2> QED BY <1>1, <2>1, <2>2 DEF Below
<1>3. "nl" \notin DOMAIN Directives /\ "select" \notin DOMAIN Directives /\ d # "nl"
  BY <1>2, TextAssumption DEF Words, ReaderWords, Signs
<1>4. u \in parseDirectives(p)
  <2>1. u = 1 \/ p[u - 1] = "nl"
    <3>1. CASE endsOpenStatement(s)
      <4>1. q = 2 /\ p[n + 2] = "nl" /\ u - 1 = n + 2
        BY <1>1, <3>1 DEF Below
      <4> QED BY <4>1
    <3>2. CASE ~endsOpenStatement(s)
      <4>1. (q = 1 /\ p[n + 1] = "nl") \/ (q = 0 /\ (n = 0 \/ s[n] = "nl"))
        BY <1>1, <3>2 DEF Below
      <4>2. CASE q = 1 /\ p[n + 1] = "nl"
        <5>1. u - 1 = n + 1
          BY <1>1, <4>2
        <5> QED BY <4>2, <5>1
      <4>3. CASE q = 0 /\ n = 0
        BY <1>1, <4>3
      <4>4. CASE q = 0 /\ n # 0 /\ s[n] = "nl"
        <5>1. u - 1 = n /\ n \in 1..n
          BY <1>1, <4>4
        <5>2. p[n] = s[n]
          BY <1>1, <5>1 DEF Below
        <5> QED BY <4>4, <5>1, <5>2
      <4> QED BY <4>1, <4>2, <4>3, <4>4
    <3> QED BY <3>1, <3>2
  <2> QED BY <1>1, <1>2, <2>1 DEF parseDirectives, IsDirective
<1>5. PICK seen : seen = {i \in parseDirectives(p) : i < N /\ Directives[p[i]] = "conn"}
  OBVIOUS
<1>6. parseDirectives(p) \subseteq 1..N
  BY <1>1 DEF parseDirectives
<1>7. u \in seen /\ seen \in SUBSET (1..N)
  BY <1>1, <1>2, <1>4, <1>5, <1>6
<1>8. Max(seen) = u
  <2>1. PICK x : x = Max(seen) /\ x \in seen /\ u <= x
    BY <1>1, <1>7, MaxIs
  <2>2. x \in 1..N /\ x < N /\ p[x] \in DOMAIN Directives
    BY <1>5, <1>7, <2>1 DEF parseDirectives, IsDirective
  <2>3. x # u + 1
    BY <1>2, <1>3, <2>2
  <2> QED BY <1>1, <2>1, <2>2, <2>3
<1>9. ValueOf(p, u) = <<d>>
  <2>1. u + 1 \in u..N /\ (u + 1) - 1 = u /\ \A k \in u..u : k = u
    BY <1>1
  <2>2. \A k \in u..((u + 1) - 1) : p[k] # "nl"
    BY <1>2, <1>3, <2>1
  <2>3. ValueOf(p, u) = SubSeq(p, u, (u + 1) - 1)
    BY <1>1, <1>2, <1>4, <2>1, <2>2, ValueIs
  <2>4. ASSUME NEW P, NEW w \in Seq(P), NEW k \in 1..Len(w) PROVE SubSeq(w, k, k) = <<w[k]>>
    <3>1. SubSeq(w, k, k) \in Seq(P) /\ Len(SubSeq(w, k, k)) = 1 /\ SubSeq(w, k, k)[1] = w[k]
      OBVIOUS
    <3>2. ASSUME NEW x \in Seq(P), Len(x) = 1 PROVE x = <<x[1]>>
      BY <3>2
    <3> QED BY <3>1, <3>2
  <2>5. SubSeq(p, u, u) = <<p[u]>>
    BY <1>1, <2>4 DEF Texts
  <2> QED BY <1>2, <2>1, <2>3, <2>5
<1>10. Effective(p, "conn", N) = <<d>>
  BY <1>5, <1>7, <1>8, <1>9 DEF Effective
<1>11. configAt(p, N).connection = <<d>>
  <2>1. <<d>> # <<>>
    OBVIOUS
  <2> QED BY <1>10, <2>1 DEF configAt
<1>12. strandedConnection(p, r) = <<>>
  <2>1. PICK inside : inside = {i \in parseDirectives(p) : r.codeStart <= i /\ i <= r.end /\ Directives[p[i]] = "conn"}
    OBVIOUS
  <2>2. inside = {}
    <3> SUFFICES ASSUME NEW i \in inside PROVE FALSE
      OBVIOUS
    <3>1. i \in 1..N /\ N <= i /\ p[i] \in DOMAIN Directives
      BY <1>1, <1>6, <2>1 DEF parseDirectives, IsDirective
    <3>2. i = N
      BY <1>1, <3>1
    <3> QED BY <1>1, <1>2, <1>3, <3>1, <3>2
  <2> QED BY <2>1, <2>2 DEF strandedConnection
<1> QED BY <1>1, <1>11, <1>12

LEMMA PlacedBlockKeeps == text \in Texts => PlacedBlockKeepsItsConnection
<1> SUFFICES ASSUME text \in Texts, NEW d \in DOMAIN Directives, Directives[d] = "conn",
                    ScanFrom(text).mode = "code", LastLineIsFree(text)
             PROVE  LET placed == text \o placeBlock(text, <<d, "nl", "select">>)
                        stmts == splitSql(placed)
                        own == stmts[Len(stmts)]
                        configs(s) == [k \in DOMAIN splitSql(s) |->
                                          configAt(s, splitSql(s)[k].codeStart).connection]
                    IN  /\ configs(placed) = Append(configs(text), <<d>>)
                        /\ strandedConnection(placed, own) = <<>>
                        /\ Len(stmts) = Len(Statements) + 1
  BY DEF PlacedBlockKeepsItsConnection
<1> DEFINE configs(s) == [k \in DOMAIN splitSql(s) |-> configAt(s, splitSql(s)[k].codeStart).connection]
<1>1. PICK p, q : p = text \o placeBlock(text, <<d, "nl", "select">>) /\ Below(text, p, d, q)
  BY BlockIs
<1>2. PICK st, stmts : st = splitSql(text) /\ stmts = splitSql(p)
  OBVIOUS
<1>3. PICK r \in Pieces : stmts = Append(st, r) /\ r.codeStart = Len(p) /\ r.end = Len(p)
  BY <1>1, <1>2, BlockIsSplit
<1>4. st \in Seq(Pieces) /\ DOMAIN st = 1..Len(st) /\ Len(st) \in Nat /\ \A k \in 1..Len(st) : st[k].codeStart \in 1..Len(text)
  BY <1>2, StatementsStand
<1>5. PICK K : K = Len(st) /\ K \in Nat
  BY <1>4
<1>6. stmts \in Seq(Pieces) /\ Len(stmts) = K + 1 /\ DOMAIN stmts = 1..(K + 1) /\ stmts[K + 1] = r /\ \A k \in 1..K : stmts[k] = st[k]
  <2>1. ASSUME NEW P, NEW w \in Seq(P), NEW x \in P
        PROVE  /\ Append(w, x) \in Seq(P) /\ Len(Append(w, x)) = Len(w) + 1 /\ DOMAIN Append(w, x) = 1..(Len(w) + 1)
               /\ Append(w, x)[Len(w) + 1] = x /\ \A k \in 1..Len(w) : Append(w, x)[k] = w[k]
    OBVIOUS
  <2> QED BY <1>3, <1>4, <1>5, <2>1
<1>7. configAt(p, Len(p)).connection = <<d>> /\ strandedConnection(p, r) = <<>>
  BY <1>1, <1>3, BlockConnects
<1>8. ASSUME NEW k \in 1..K PROVE configAt(p, stmts[k].codeStart).connection = configAt(text, st[k].codeStart).connection
  <2>1. st[k].codeStart \in 1..Len(text) /\ stmts[k] = st[k]
    BY <1>4, <1>5, <1>6
  <2>2. configAt(p, st[k].codeStart) = configAt(text, st[k].codeStart)
    BY <1>1, <2>1, AboveIsKept
  <2> QED BY <2>1, <2>2
<1>9. configs(p) = Append(configs(text), <<d>>)
  <2>1. PICK f : f = [k \in 1..K |-> configAt(text, st[k].codeStart).connection]
    OBVIOUS
  <2>2. configs(text) = f
    BY <1>2, <1>4, <1>5, <2>1
  <2>3. PICK g : g = [k \in 1..(K + 1) |-> configAt(p, stmts[k].codeStart).connection]
    OBVIOUS
  <2>4. configs(p) = g
    BY <1>2, <1>6, <2>3
  <2>5. g[K + 1] = <<d>> /\ \A k \in 1..K : g[k] = f[k]
    <3>1. K + 1 \in 1..(K + 1) /\ \A k \in 1..K : k \in 1..(K + 1)
      BY <1>5
    <3>2. g[K + 1] = <<d>>
      BY <1>3, <1>6, <1>7, <2>3, <3>1
    <3>3. \A k \in 1..K : g[k] = f[k]
      BY <1>8, <2>1, <2>3, <3>1
    <3> QED BY <3>2, <3>3
  <2>6. g = Append(f, <<d>>)
    <3>1. PICK P : P = {f[k] : k \in 1..K} \cup {<<d>>}
      OBVIOUS
    <3>2. f \in Seq(P) /\ Len(f) = K
      <4>1. f \in [1..K -> P]
        BY <2>1, <3>1
      <4> QED BY <1>5, <4>1
    <3>3. PICK x : x = <<d>> /\ x \in P
      BY <3>1
    <3>4. g \in [1..(K + 1) -> P]
      <4>1. \A k \in 1..(K + 1) : g[k] \in P
        <5> TAKE k \in 1..(K + 1)
        <5>1. k = K + 1 \/ k \in 1..K
          BY <1>5
        <5> QED BY <2>5, <3>1, <5>1
      <4> QED BY <2>3, <4>1
    <3>5. g \in Seq(P) /\ Len(g) = K + 1
      BY <1>5, <3>4
    <3>6. g[K + 1] = x /\ \A k \in 1..K : g[k] = f[k]
      BY <2>5, <3>3
    <3>7. g = Append(f, x)
      BY <1>5, <3>2, <3>3, <3>5, <3>6
    <3> QED BY <3>3, <3>7
  <2> QED BY <2>2, <2>4, <2>6
<1>10. stmts[Len(stmts)] = r
  BY <1>6
<1> QED BY <1>1, <1>2, <1>3, <1>5, <1>6, <1>7, <1>9, <1>10 DEF Statements

(* Whatever has been typed is a text.                                      *)
THEOREM TextsAre == TextSpec => []TextTypeOK
<1>1. TextInit => TextTypeOK
  BY TextAssumption DEF TextInit, TextTypeOK
<1>2. TextTypeOK /\ [TextNext]_text => TextTypeOK'
  <2> SUFFICES ASSUME TextTypeOK, [TextNext]_text PROVE TextTypeOK'
    OBVIOUS
  <2>1. CASE UNCHANGED text
    BY <2>1 DEF TextTypeOK
  <2>2. CASE TextNext
    <3>1. PICK t \in Tokens : Len(text) < MaxLen /\ text' = Append(text, t)
      BY <2>2 DEF TextNext, TypeToken
    <3>2. text' \in Seq(Tokens) /\ Len(text') = Len(text) + 1 /\ Len(text) \in Nat
      BY <3>1 DEF TextTypeOK
    <3>3. Len(text') <= MaxLen
      BY <3>1, <3>2, TextAssumption
    <3> QED BY <3>2, <3>3 DEF TextTypeOK
  <2> QED BY <2>1, <2>2
<1> QED BY <1>1, <1>2, PTL DEF TextSpec

(* The lemmas speak of texts of any length over any signs the code tells   *)
(* apart; what is typed is one of them.                                    *)
LEMMA TypedIsText == TextTypeOK => text \in Texts
<1>1. Tokens \subseteq Chars
  BY DEF Chars
<1> QED BY <1>1 DEF TextTypeOK, Texts

(* What runs is a statement of the file: splitting loses no code, and a    *)
(* statement sent on its own is read as it was in the file (split.ts); a   *)
(* row limit is added where the engine reads it, and once (limit.ts).      *)
THEOREM StatementsStaySound == TextSpec => []StatementsAreSound
<1>1. TextTypeOK => StatementsAreSound
  BY TypedIsText, FaithfulSplit, NearestRuns, LimitsTakeEffect DEF StatementsAreSound
<1> QED BY <1>1, TextsAre, PTL

(* A statement runs on the connection its file names for it, or the one    *)
(* that stands inside it is reported (directives.ts); a block placed below *)
(* is one more statement on its own connection, and those above keep       *)
(* theirs (insert.ts).                                                     *)
THEOREM ConnectionsStay == TextSpec => []ConnectionsAreKept
<1>1. TextTypeOK => ConnectionsAreKept
  BY TypedIsText, NoneIsLost, PlacedBlockKeeps DEF ConnectionsAreKept
<1> QED BY <1>1, TextsAre, PTL
=============================================================================
