---------------------------- MODULE Interaction ----------------------------
(***************************************************************************)
(* What the interaction broker promises the code that asks (a provider's   *)
(* connect, the vault, an OAuth flow): a question is put to a fixed        *)
(* audience, and exactly once it is either answered by a member of that    *)
(* audience or fails.  Members may leave; nobody joins.                    *)
(***************************************************************************)
CONSTANTS Clients,    \* every client connection that may ever exist
          Ids,        \* the questions
          NoClient    \* "answered by nobody"

VARIABLES status,     \* status[i]: how far question i has got
          audience,   \* audience[i]: who may still answer it
          answeredBy  \* answeredBy[i]: whose answer was taken

avars == <<status, audience, answeredBy>>

Statuses == {"unasked", "waiting", "answered", "failed"}

AInit ==
    /\ status = [i \in Ids |-> "unasked"]
    /\ audience = [i \in Ids |-> {}]
    /\ answeredBy = [i \in Ids |-> NoClient]

Pose(i, who) ==
    /\ status[i] = "unasked" /\ who # {}
    /\ status' = [status EXCEPT ![i] = "waiting"]
    /\ audience' = [audience EXCEPT ![i] = who]
    /\ UNCHANGED answeredBy

Resolve(i, c) ==
    /\ status[i] = "waiting" /\ c \in audience[i]
    /\ status' = [status EXCEPT ![i] = "answered"]
    /\ answeredBy' = [answeredBy EXCEPT ![i] = c]
    /\ UNCHANGED audience

Reject(i) ==
    /\ status[i] = "waiting"
    /\ status' = [status EXCEPT ![i] = "failed"]
    /\ UNCHANGED <<audience, answeredBy>>

(* A departing client leaves every audience; the questions it leaves with  *)
(* no audience at all fail at that same moment.                            *)
Leave(c) ==
    /\ audience' = [i \in Ids |-> IF status[i] = "waiting" THEN audience[i] \ {c}
                                                          ELSE audience[i]]
    /\ status' = [i \in Ids |-> IF status[i] = "waiting" /\ audience'[i] = {}
                                THEN "failed" ELSE status[i]]
    /\ UNCHANGED answeredBy

ANext ==
    \/ \E i \in Ids, who \in SUBSET Clients : Pose(i, who)
    \/ \E i \in Ids, c \in Clients : Resolve(i, c)
    \/ \E i \in Ids : Reject(i)
    \/ \E c \in Clients : Leave(c)

(* A question that was put is settled sooner or later.                     *)
ASettles == \A i \in Ids : status[i] = "waiting" ~> status[i] \in {"answered", "failed"}

ASpec == AInit /\ [][ANext]_avars
=============================================================================
