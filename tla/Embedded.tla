------------------------------ MODULE Embedded -----------------------------
(***************************************************************************)
(* Sessions that run their statements in an embedded DuckDB: a directory   *)
(* (daemon/src/providers/dir.ts), an object store (s3.ts) and Kafka        *)
(* (kafka.ts; its reads are in module Kafka).  Each opens its DuckDB at    *)
(* the first query and closes what it then holds; what differs is who else *)
(* may be opening one.  The object store's tree is a paged listing through *)
(* one client that a failed listing destroys.  Which kind of session it    *)
(* is, is chosen in Init.                                                  *)
(***************************************************************************)
EXTENDS Naturals, FiniteSets

CONSTANTS StoreKinds,   \* "dir", "s3", "kafka"
          Queries, Browses,
          MaxHandles,   \* bound: DuckDB instances and S3 clients ever made
          Files,        \* what may be in the directory, or the keys of a level
          Marker,       \* the key that equals the level's own prefix
          MaxFiles,     \* maxFiles of the walk
          PageSize      \* keys in a page of a listing

ASSUME EmbeddedAssumption ==
    /\ StoreKinds \subseteq {"dir", "s3", "kafka"}
    /\ Marker \in Files /\ IsFiniteSet(Files) /\ {MaxHandles, MaxFiles} \subseteq Nat /\ PageSize \in Nat \ {0}

VARIABLES
    store,     \* which kind of session
    usable,    \* close has not been called
    duck,      \* the instance the session holds, 0 for none
    opening,   \* the instance its `opening` promise is making, 0 for none
    instances,    \* instances[h]: a DuckDB instance
    run,       \* run[q]: a query
    disk,      \* files in the directory now
    index,     \* files the last walk found
    client,    \* the S3 client the session holds, 0 for none
    clients,   \* clients made so far
    rejected,  \* clients a request has failed on (history)
    listing    \* listing[b]: an expand of one level of the tree

embeddedVars == <<store, usable, duck, opening, instances, run, disk, index, client, clients, rejected, listing>>
duckVars == <<duck, opening, instances, run>>
treeVars == <<client, clients, rejected, listing>>

Handles == 1..MaxHandles
NoHandle == [state |-> "none", files |-> {}, late |-> FALSE]
Unlisted == [stage |-> "idle", on |-> 0, seen |-> {}, nodes |-> {}, broken |-> FALSE]

EmbeddedTypeOK ==
    /\ store \in StoreKinds /\ usable \in BOOLEAN
    /\ {duck, opening} \subseteq 0..MaxHandles
    /\ instances \in [Handles -> [state : {"none", "loading", "live", "orphan", "gone"},
                               files : SUBSET Files, late : BOOLEAN]]
    /\ run \in [Queries -> [stage : {"idle", "waiting", "running", "done"}, on : 0..MaxHandles,
                            code : {"none", "ok", "sql", "config", "cancelled", "timeout"}]]
    /\ disk \subseteq Files /\ index \subseteq Files /\ Cardinality(index) <= MaxFiles
    /\ {client, clients} \subseteq 0..MaxHandles /\ rejected \subseteq Handles
    /\ listing \in [Browses -> [stage : {"idle", "listing", "listed", "failed"}, on : 0..MaxHandles,
                                seen : SUBSET Files, nodes : SUBSET Files, broken : BOOLEAN]]

(* walkDirectory: breadth first, and no more than maxFiles; readdir decides*)
(* which come first.                                                       *)
WalkOutcomes(found) == {kept \in SUBSET found :
                    Cardinality(kept) = IF Cardinality(found) < MaxFiles THEN Cardinality(found) ELSE MaxFiles}

EmbeddedInit ==
    /\ store \in StoreKinds /\ usable = TRUE
    /\ duck = 0 /\ opening = 0 /\ client = 0 /\ clients = 0 /\ rejected = {}
    /\ instances = [h \in Handles |-> NoHandle]
    /\ run = [q \in Queries |-> [stage |-> "idle", on |-> 0, code |-> "none"]]
    /\ disk \in (IF store = "dir" THEN SUBSET Files ELSE {{}})
    /\ index \in WalkOutcomes(disk)
    /\ listing = [b \in Browses |-> Unlisted]

(* Mutant of Coalesced: every first query opens an instance of its own.    *)
CoalescedNever == FALSE

(* The object store and Kafka keep the promise of the instance being made; *)
(* the directory session does not.                                         *)
Coalesced == store # "dir" /\ opening # 0

Enter(q, h, stage) == run' = [run EXCEPT ![q] = [stage |-> stage, on |-> h, code |-> "none"]]

(* duckdb(): the instance there is, the one being made, or a new one.      *)
RunQuery(q) ==
    /\ usable /\ run[q].stage = "idle"
    /\ \/ /\ duck # 0 /\ Enter(q, duck, "running")
          /\ UNCHANGED <<opening, instances>>
       \/ /\ duck = 0 /\ Coalesced /\ Enter(q, opening, "waiting")
          /\ UNCHANGED <<opening, instances>>
       \/ /\ duck = 0 /\ ~Coalesced
          /\ \E h \in Handles :
                 /\ instances[h].state = "none" /\ \A g \in 1..(h - 1) : instances[g].state # "none"
                 /\ instances' = [instances EXCEPT ![h].state = "loading"]
                 /\ opening' = IF store = "dir" THEN 0 ELSE h
                 /\ Enter(q, h, "waiting")
    /\ UNCHANGED <<store, usable, duck, disk, index, treeVars>>

LoadWaiters(h) == {q \in Queries : run[q].stage = "waiting" /\ run[q].on = h}
Awake(h, stage, code) ==
    run' = [q \in Queries |-> IF q \in LoadWaiters(h) THEN [stage |-> stage, on |-> h, code |-> code] ELSE run[q]]

(* Loaded, connected and set up; a directory's view holds the index of now.*)
(* The session takes it even if it has been closed meanwhile.              *)
Loaded(h) ==
    /\ instances[h].state = "loading"
    /\ instances' = [instances EXCEPT ![h].state = "live", ![h].files = index]
    /\ duck' = h
    /\ opening' = IF store = "kafka" /\ opening = h THEN 0 ELSE opening
    /\ Awake(h, "running", "none")
    /\ UNCHANGED <<store, usable, disk, index, treeVars>>

(* No DuckDB installed, or its setup fails once it is connected: then the  *)
(* instance is forgotten, not closed.                                      *)
LoadFails(h, connected) ==
    /\ instances[h].state = "loading"
    /\ connected => store # "kafka"
    /\ instances' = [instances EXCEPT ![h].state = IF connected THEN "orphan" ELSE "gone"]
    /\ opening' = IF store = "dir" THEN opening ELSE 0
    /\ Awake(h, "done", "config")
    /\ UNCHANGED <<store, usable, duck, disk, index, treeVars>>

(* run() has materialised the result, or failed; a closed instance fails.  *)
Ran(q, code) ==
    /\ run[q].stage = "running" /\ code \in {"ok", "sql"}
    /\ code = "ok" => instances[run[q].on].state = "live"
    /\ run' = [run EXCEPT ![q].stage = "done", ![q].code = code]
    /\ UNCHANGED <<store, usable, duck, opening, instances, disk, index, treeVars>>

(* interruption(): the caller of an object-store query stops waiting; the  *)
(* others have nothing to stop.                                            *)
StopWaiting(q, why) ==
    /\ store = "s3" /\ run[q].stage = "running" /\ why \in {"cancelled", "timeout"}
    /\ run' = [run EXCEPT ![q].stage = "done", ![q].code = why]
    /\ UNCHANGED <<store, usable, duck, opening, instances, disk, index, treeVars>>

Closing == [h \in Handles |-> IF h = duck THEN [instances[h] EXCEPT !.state = "gone"]
                              ELSE [instances[h] EXCEPT !.late = @ \/ instances[h].state = "loading"]]

CloseStore ==
    /\ usable
    /\ usable' = FALSE
    /\ instances' = Closing
    /\ duck' = 0 /\ client' = 0
    /\ opening' = 0
    /\ UNCHANGED <<store, run, disk, index, clients, rejected, listing>>

FileChanges(f) ==
    /\ store = "dir"
    /\ disk' = IF f \in disk THEN disk \ {f} ELSE disk \cup {f}
    /\ UNCHANGED <<store, usable, duckVars, index, treeVars>>

(* dir: the root of the tree is walked again at every expand.              *)
BrowseRoot ==
    /\ store = "dir" /\ usable
    /\ index' \in WalkOutcomes(disk)
    /\ UNCHANGED <<store, usable, duckVars, disk, treeVars>>

(* s3: the lister there is, or a new client.                               *)
ExpandLevel(b) ==
    /\ store = "s3" /\ usable /\ listing[b].stage = "idle"
    /\ client = 0 => clients < MaxHandles
    /\ clients' = IF client = 0 THEN clients + 1 ELSE clients
    /\ client' = IF client = 0 THEN clients + 1 ELSE client
    /\ listing' = [listing EXCEPT ![b] = [Unlisted EXCEPT !.stage = "listing", !.on = client']]
    /\ UNCHANGED <<store, usable, duckVars, disk, index, rejected>>

NodesOf(page) == page \ {Marker}

(* One page; the next is asked for while there is a token.  A truncated    *)
(* page without one is taken for the last.                                 *)
Page(b, truncated, token) ==
    /\ listing[b].stage = "listing"
    /\ \E page \in SUBSET (Files \ listing[b].seen) :
           LET seen == listing[b].seen \cup page
           IN  /\ Cardinality(page) <= PageSize /\ (truncated <=> seen # Files)
               /\ page # {}
               /\ listing' = [listing EXCEPT ![b].seen = seen, ![b].nodes = @ \cup NodesOf(page),
                                             ![b].broken = truncated /\ ~token,
                                             ![b].stage = IF truncated /\ token THEN "listing" ELSE "listed"]
    /\ UNCHANGED <<store, usable, duckVars, disk, index, client, clients, rejected>>

(* Whatever failed, the client of now is destroyed.                        *)
ClientAfterFailure == 0

PageFails(b) ==
    /\ listing[b].stage = "listing"
    /\ listing' = [listing EXCEPT ![b].stage = "failed"]
    /\ rejected' = rejected \cup {listing[b].on}
    /\ client' = ClientAfterFailure
    /\ UNCHANGED <<store, usable, duckVars, disk, index, clients>>

EmbeddedNext ==
    \/ \E q \in Queries : RunQuery(q) \/ (\E code \in {"ok", "sql"} : Ran(q, code))
                          \/ (\E why \in {"cancelled", "timeout"} : StopWaiting(q, why))
    \/ \E h \in Handles : Loaded(h) \/ (\E connected \in BOOLEAN : LoadFails(h, connected))
    \/ \E f \in Files : FileChanges(f)
    \/ BrowseRoot \/ CloseStore
    \/ \E b \in Browses : ExpandLevel(b) \/ PageFails(b) \/ (\E truncated, token \in BOOLEAN : Page(b, truncated, token))

EmbeddedSpec == EmbeddedInit /\ [][EmbeddedNext]_embeddedVars

(* Two queries arriving together do not build two DuckDB instances         *)
(* (s3.ts:686, kafka.ts:857): an open session has one at most.  A directory*)
(* session may build one for each (dir.ts:412-433).                        *)
OneInstance ==
    usable /\ store # "dir" => Cardinality({h \in Handles : instances[h].state \in {"loading", "live"}}) <= 1

(* After close nothing the session made stays open, except an instance that*)
(* was still being made, one whose setup failed, and in a directory session*)
(* one that a second first query replaced (s3.ts:758, dir.ts:400).         *)
NothingLeftOpen ==
    ~usable => \A h \in Handles :
        instances[h].state = "live" => instances[h].late \/ (store = "dir" /\ \E g \in Handles \ {h} : instances[g].state # "none")

(* The client the next expand starts on is never one a request has failed  *)
(* on (s3.ts:744-746), though a late failure destroys a fresh client too.  *)
FreshClientAfterFailure == client \notin rejected

(* An expanded level shows every key of it once and not its own marker,    *)
(* whatever the pages, unless a truncated page came without a token        *)
(* (s3.ts:208-259).                                                        *)
LevelIsWhole ==
    \A b \in Browses : listing[b].stage = "listed" =>
        listing[b].nodes = (IF listing[b].broken THEN listing[b].seen ELSE Files) \ {Marker}

(* dir.ts:217-219: the tree and SELECT * FROM dbrex_files cannot disagree  *)
(* about what is in the folder.                                            *)
ViewIsTheTree == store = "dir" /\ duck # 0 => instances[duck].files = index

(* One instance, closed with its session, and whole levels of the tree,    *)
(* however queries, expands and close interleave (s3.ts, dir.ts, kafka.ts).*)
EmbeddedSafe == EmbeddedTypeOK /\ OneInstance /\ NothingLeftOpen /\ FreshClientAfterFailure /\ LevelIsWhole
=============================================================================
