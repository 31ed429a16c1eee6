------------------------------- MODULE Kafka -------------------------------
(***************************************************************************)
(* The bounded read of a Kafka topic (daemon/src/providers/kafka.ts): how  *)
(* many messages of each partition to take, from where, and when the read  *)
(* is over.  A partition's log may have gaps - compacted or aborted        *)
(* messages, transaction markers - and goes on growing.  KafkaJS drops     *)
(* what it has fetched before a pending seek, so a read begins where it    *)
(* seeks to.                                                               *)
(***************************************************************************)
EXTENDS Naturals, FiniteSets, Functions

CONSTANTS Partitions,   \* numbers, so that a sort of equals is stable
          MaxOffset,    \* bound: offsets of a partition
          Samples       \* sampleMessages

ASSUME KafkaAssumption ==
    Partitions \subseteq Nat /\ IsFiniteSet(Partitions) /\ MaxOffset \in Nat /\ Samples \subseteq Nat

VARIABLES
    log,         \* log[p]: the offsets of p that hold a message
    low, high,   \* watermarks of the moment the read began
    window,      \* window[p]: from, through and quota; what is wanted of p
    remaining,   \* remaining[p]
    cursor,      \* cursor[p]: where the consumer is
    lines,       \* what the read has kept
    outcome      \* of the read

kafkaVars == <<log, low, high, window, remaining, cursor, lines, outcome>>

Offsets == 0..MaxOffset
Unwanted == [from |-> 0, through |-> 0, quota |-> 0]
KafkaTypeOK ==
    /\ log \in [Partitions -> SUBSET Offsets]
    /\ low \in [Partitions -> Offsets] /\ high \in [Partitions -> 0..(MaxOffset + 1)]
    /\ window \in [Partitions -> [from : 0..(MaxOffset + 1), through : Offsets, quota : 0..(MaxOffset + 1)]]
    /\ remaining \in [Partitions -> 0..(MaxOffset + 1)]
    /\ cursor \in [Partitions -> 0..(MaxOffset + 1)]
    /\ lines \subseteq Partitions \X Offsets
    /\ outcome \in {"reading", "read", "timeout"}

Size(p) == high[p] - low[p]

(* Partitions that have something, smallest first.                         *)
Live(sizes) == {p \in DOMAIN sizes : sizes[p] > 0}
Smaller(sizes, p, q) == sizes[p] < sizes[q] \/ (sizes[p] = sizes[q] /\ p < q)
Before(sizes, p) == {q \in Live(sizes) : Smaller(sizes, q, p)}

(* Its fair share of a budget, among those that are not served before it,  *)
(* or all it has.                                                          *)
Take(sizes, p, budget) ==
    LET fair == budget \div Cardinality(Live(sizes) \ Before(sizes, p))
    IN  IF sizes[p] < fair THEN sizes[p] ELSE fair

(* What is left of the sample when these have been served.                 *)
Left(sizes, sample) ==
    LET last(served) == CHOOSE p \in served : \A q \in served \ {p} : Smaller(sizes, q, p)
        left[served \in SUBSET Live(sizes)] ==
            IF served = {} THEN sample
            ELSE LET p == last(served) IN left[served \ {p}] - Take(sizes, p, left[served \ {p}])
    IN  left

(* Water-filling: what one cannot use goes to the rest.                    *)
Quotas(sizes, sample) ==
    [p \in Live(sizes) |-> Take(sizes, p, Left(sizes, sample)[Before(sizes, p)])]

(* windowFor: the last of what is there, or the first.  Partitions that    *)
(* have nothing, or get nothing, are not read.                             *)
windowFor(sizes, sample, position) ==
    LET quota == Quotas(sizes, sample)
    IN  [p \in Partitions |->
            IF p \in DOMAIN quota /\ quota[p] > 0
            THEN [from |-> IF position = "latest" THEN high[p] - quota[p] ELSE low[p],
                  through |-> high[p] - 1, quota |-> quota[p]]
            ELSE Unwanted]

KafkaInit ==
    /\ low \in [Partitions -> {0, 1}]
    /\ high \in [Partitions -> Offsets] /\ \A p \in Partitions : high[p] >= low[p]
    /\ log \in [Partitions -> SUBSET Offsets]
    /\ \A p \in Partitions : \A o \in log[p] : low[p] <= o /\ o < high[p]
    /\ \E sample \in Samples, position \in {"latest", "earliest"} :
           window = windowFor([p \in Partitions |-> Size(p)], sample, position)
    /\ remaining = [p \in Partitions |-> window[p].quota]
    /\ cursor = [p \in Partitions |-> window[p].from]
    /\ lines = {}
    /\ outcome = IF \A p \in Partitions : window[p].quota = 0 THEN "read" ELSE "reading"

(* Somebody produces to p; markers that are no messages may come between.  *)
Produce(p) ==
    /\ outcome = "reading"
    /\ \E o \in Offsets : /\ o >= high[p] /\ \A x \in log[p] : x < o
                          /\ log' = [log EXCEPT ![p] = @ \cup {o}]
    /\ UNCHANGED <<low, high, window, remaining, cursor, lines, outcome>>

(* Mutant of LeftAfter: only the quota ends a partition.                   *)
LeftAfterQuota(p, o) == remaining[p] - 1

(* A partition is done with once its quota is filled or its last message   *)
(* has been handed over.                                                   *)
LeftAfter(p, o) == IF o >= window[p].through THEN 0 ELSE remaining[p] - 1

NextOf(p) == {o \in log[p] : o >= cursor[p] /\ \A x \in log[p] : x >= cursor[p] => o <= x}

(* eachMessage.  One that is not wanted any more is passed over.           *)
Deliver(p) ==
    /\ outcome = "reading" /\ window[p].quota > 0
    /\ \E o \in NextOf(p) :
           /\ cursor' = [cursor EXCEPT ![p] = o + 1]
           /\ IF remaining[p] = 0
              THEN UNCHANGED <<remaining, lines, outcome>>
              ELSE /\ lines' = lines \cup {<<p, o>>}
                   /\ remaining' = [remaining EXCEPT ![p] = LeftAfter(p, o)]
                   /\ outcome' = IF \A x \in Partitions : remaining'[x] = 0 THEN "read" ELSE outcome
    /\ UNCHANGED <<log, low, high, window>>

(* READ_DEADLINE_MS: the whole read fails.                                 *)
Deadline ==
    /\ outcome = "reading"
    /\ outcome' = "timeout"
    /\ UNCHANGED <<log, low, high, window, remaining, cursor, lines>>

KafkaNext ==
    \/ \E p \in Partitions : Produce(p) \/ Deliver(p)
    \/ Deadline

(* The cluster answers: what a partition still holds is delivered.         *)
KafkaFair == \A p \in Partitions : WF_kafkaVars(Deliver(p))

KafkaSpec == KafkaInit /\ [][KafkaNext]_kafkaVars /\ KafkaFair

Wanted == {p \in Partitions : window[p].quota > 0}
Total(sizes) == FoldFunctionOnSet(LAMBDA x, y : x + y, 0, sizes, DOMAIN sizes)

(* The budget is spent whole, or everything there is is taken; and no      *)
(* partition gets less than another while it has messages left             *)
(* (kafka.ts:244-261).                                                     *)
BudgetIsSpent ==
    \A sample \in Samples :
        LET sizes == [p \in Partitions |-> Size(p)]
            quota == Quotas(sizes, sample)
            all == Total(sizes)
        IN  /\ Total(quota) = IF sample < all THEN sample ELSE all
            /\ \A p, q \in DOMAIN quota : quota[p] + 1 < quota[q] => quota[p] = sizes[p]

(* A finished read holds, of each partition it wanted, the messages from   *)
(* where it began without a gap of its own making, no more than the quota; *)
(* fewer only if the message of the last offset was reached.               *)
ReadIsTheWindow ==
    outcome = "read" => \A p \in Wanted :
        LET got == {o \in Offsets : <<p, o>> \in lines}
        IN  /\ Cardinality(got) <= window[p].quota
            /\ \A o \in log[p] : window[p].from <= o /\ (\E g \in got : o < g) => o \in got
            /\ Cardinality(got) < window[p].quota => \E g \in got : g >= window[p].through

(* A read that is waiting for nothing the cluster can give it is one whose *)
(* last offset holds no message.                                           *)
StuckOnlyOnAGap ==
    outcome = "reading" /\ ~(\E p \in Wanted : remaining[p] > 0 /\ NextOf(p) # {}) =>
        \E p \in Wanted : remaining[p] > 0 /\ window[p].through \notin log[p]

(* kafka.ts:67-69: every read knows the offsets it is aiming at, so the    *)
(* deadline only fires when the cluster stops answering.                   *)
ReadEnds == <>(outcome # "reading")
ReadEndsWithoutGaps == (\A p \in Wanted : window[p].through \in log[p]) => ReadEnds

(* A read takes what was asked for, where it was asked for, and waits for  *)
(* nothing else (kafka.ts:60-80, 244-261).                                 *)
KafkaSafe == KafkaTypeOK /\ BudgetIsSpent /\ ReadIsTheWindow /\ StuckOnlyOnAGap
=============================================================================
