---------------------------- MODULE ResultStore ----------------------------
(***************************************************************************)
(* The result store (daemon/src/store/results.ts): one directory per       *)
(* result, one index file, eviction down to 90% of a cap, and a sweep at   *)
(* startup that reconciles the two after a crash.  The store's own code is *)
(* synchronous, so nothing else in the daemon runs between two of its      *)
(* steps, but the process may die there.  A read of rows awaits, and       *)
(* anything may happen meanwhile.                                          *)
(***************************************************************************)
EXTENDS Naturals, FiniteSetsExt

CONSTANTS Results,    \* result ids; random in the code, never used twice
          Size,       \* Size[r]: bytes of rows
          Caps,       \* values maxBytes may be set to; unlimited is one nothing reaches
          Readers,    \* calls of readRows under way
          NoResult,
          MaxUses     \* bound: how often results are written or read

ASSUME StoreAssumption ==
    /\ Size \in [Results -> Nat] /\ IsFiniteSet(Results)
    /\ Caps \subseteq Nat /\ Caps # {}
    /\ NoResult \notin Results /\ MaxUses \in Nat

VARIABLES
    files,     \* files[r]: what results/<r>/ holds
    tmp,       \* the directories in tmp/
    saved,     \* index.json
    index,     \* ResultStore.index
    maxBytes,  \* options.maxBytes
    now,       \* the clock, which moves whenever a result is used
    run,       \* the process: down, in the constructor, up
    writer,    \* writer[r]: how far the ResultWriter of r has got
    renamed,   \* the result publish has moved into place and not indexed yet
    doomed,    \* results delete or evict is about to remove
    why,       \* which of the two is running, if any
    target,    \* target[c]: the result reader c reads
    at,        \* at[c]: the file reader c is about to open
    told,      \* told[c]: how c's last read ended
    kept,      \* history: pinned, and not unpinned or deleted since
    condemned  \* history: everything a delete was ever begun for

disk == <<files, tmp, saved>>
history == <<kept, condemned>>
job == <<renamed, doomed, why>>
readers == <<target, at, told>>
vars == <<disk, index, maxBytes, now, run, writer, job, readers, history>>

Files == {"rows", "idx", "meta"}

(* The summaries in an index, with their pins and their accessedAt.        *)
Indexes == [listed : SUBSET Results, pinned : SUBSET Results, accessedAt : [Results -> 0..MaxUses]]
EmptyIndex == [listed |-> {}, pinned |-> {}, accessedAt |-> [r \in Results |-> 0]]

TypeOK ==
    /\ files \in [Results -> SUBSET Files] /\ tmp \subseteq Results
    /\ saved \in Indexes /\ index \in Indexes
    /\ maxBytes \in Caps /\ now \in 0..MaxUses
    /\ run \in {"down", "sweeping", "up"}
    /\ writer \in [Results -> {"none", "writing", "described", "published", "over"}]
    /\ renamed \in Results \cup {NoResult}
    /\ doomed \subseteq Results /\ why \in {"idle", "delete", "evict"}
    /\ doomed = {} <=> why = "idle"
    /\ target \in [Readers -> Results \cup {NoResult}]
    /\ at \in [Readers -> {"idx", "rows"}]
    /\ told \in [Readers -> {"nothing", "page", "not_found", "internal"}]
    /\ kept \subseteq Results /\ condemned \subseteq Results

Init ==
    /\ files = [r \in Results |-> {}] /\ tmp = {}
    /\ saved = EmptyIndex /\ index = EmptyIndex
    /\ maxBytes \in Caps /\ now = 0
    /\ run = "up"
    /\ writer = [r \in Results |-> "none"]
    /\ renamed = NoResult /\ doomed = {} /\ why = "idle"
    /\ target = [c \in Readers |-> NoResult]
    /\ at = [c \in Readers |-> "idx"]
    /\ told = [c \in Readers |-> "nothing"]
    /\ kept = {} /\ condemned = {}

(* The event loop is free: no synchronous code of the store is running.    *)
Idle == run = "up" /\ renamed = NoResult /\ why = "idle"

-----------------------------------------------------------------------------
(* ResultWriter *)

begin(r) ==
    /\ Idle /\ writer[r] = "none"
    /\ writer' = [writer EXCEPT ![r] = "writing"]
    /\ tmp' = tmp \cup {r}
    /\ UNCHANGED <<files, saved, index, maxBytes, now, run, job, readers, history>>

(* finish: the streams are closed and meta.json is written.                *)
Describe(r) ==
    /\ Idle /\ writer[r] = "writing"
    /\ writer' = [writer EXCEPT ![r] = "described"]
    /\ UNCHANGED <<disk, index, maxBytes, now, run, job, readers, history>>

abort(r) ==
    /\ Idle /\ writer[r] \in {"writing", "described"}
    /\ writer' = [writer EXCEPT ![r] = "over"]
    /\ tmp' = tmp \ {r}
    /\ UNCHANGED <<files, saved, index, maxBytes, now, run, job, readers, history>>

-----------------------------------------------------------------------------
(* The index *)

TotalBytes(ix) == MapThenSumSet(LAMBDA r : Size[r], ix.listed)
Used(ix, r) == [ix EXCEPT !.accessedAt[r] = now + 1]
Without(ix, r) == [listed |-> ix.listed \ {r}, pinned |-> ix.pinned \ {r},
                   accessedAt |-> [ix.accessedAt EXCEPT ![r] = 0]]

(* Mutant of Unpinned: pins are ignored.                                   *)
UnpinnedOrNot(ix) == ix.listed

Unpinned(ix) == ix.listed \ ix.pinned

EvictionTarget(cap) == (cap * 9) \div 10

(* Mutant of Victims: eviction stops at the cap.                           *)
VictimsToCap(ix, cap) ==
    LET olderThan(r) == {s \in Unpinned(ix) : ix.accessedAt[s] < ix.accessedAt[r]}
        freed(r) == MapThenSumSet(LAMBDA s : Size[s], olderThan(r))
    IN  {r \in Unpinned(ix) : TotalBytes(ix) - freed(r) > cap}

(* What evict removes: unpinned results, least recently used first, until  *)
(* the total is down to 90% of the cap.                                    *)
Victims(ix, cap) ==
    LET olderThan(r) == {s \in Unpinned(ix) : ix.accessedAt[s] < ix.accessedAt[r]}
        freed(r) == MapThenSumSet(LAMBDA s : Size[s], olderThan(r))
    IN  IF TotalBytes(ix) <= cap THEN {}
        ELSE {r \in Unpinned(ix) : TotalBytes(ix) - freed(r) > EvictionTarget(cap)}

(* evict, up to its first delete.                                          *)
Evict(victims) ==
    /\ doomed' = victims
    /\ why' = IF victims = {} THEN "idle" ELSE "evict"
    /\ condemned' = condemned \cup victims

-----------------------------------------------------------------------------
(* publish: into place, then into the index, then evict *)

Rename(r) ==
    /\ Idle /\ writer[r] = "described" /\ now < MaxUses
    /\ tmp' = tmp \ {r}
    /\ files' = [files EXCEPT ![r] = Files]
    /\ renamed' = r
    /\ UNCHANGED <<saved, index, maxBytes, now, run, writer, doomed, why, readers, history>>

Record ==
    /\ renamed # NoResult
    /\ LET new == Used([index EXCEPT !.listed = @ \cup {renamed}], renamed) IN
       /\ index' = new
       /\ saved' = new
       /\ Evict(Victims(new, maxBytes))
    /\ writer' = [writer EXCEPT ![renamed] = "published"]
    /\ now' = now + 1
    /\ renamed' = NoResult
    /\ UNCHANGED <<files, tmp, maxBytes, run, readers, kept>>

setOptions(cap) ==
    /\ Idle
    /\ maxBytes' = cap
    /\ Evict(Victims(index, cap))
    /\ UNCHANGED <<disk, index, now, run, writer, renamed, readers, kept>>

-----------------------------------------------------------------------------
(* delete, called by a client or by evict: the directory goes file by      *)
(* file, then the entry.                                                   *)

(* A client may name any id; one that is not listed has nothing to remove. *)
delete(r) ==
    /\ Idle
    /\ doomed' = {r} /\ why' = "delete"
    /\ kept' = kept \ {r}
    /\ condemned' = condemned \cup {r}
    /\ UNCHANGED <<disk, index, maxBytes, now, run, writer, renamed, readers>>

NextDoomed(r) ==
    /\ r \in doomed
    /\ \A s \in doomed : index.accessedAt[r] <= index.accessedAt[s]

RemoveFile(r, f) ==
    /\ NextDoomed(r) /\ f \in files[r]
    /\ files' = [files EXCEPT ![r] = @ \ {f}]
    /\ UNCHANGED <<tmp, saved, index, maxBytes, now, run, writer, job, readers, history>>

Forget(r) ==
    /\ index' = Without(index, r)
    /\ saved' = IF r \in index.listed THEN index' ELSE saved

Deleted(r) ==
    /\ NextDoomed(r) /\ files[r] = {}
    /\ Forget(r)
    /\ doomed' = doomed \ {r}
    /\ why' = IF doomed' = {} THEN "idle" ELSE why
    /\ UNCHANGED <<files, tmp, maxBytes, now, run, writer, renamed, readers, history>>

-----------------------------------------------------------------------------
(* pin *)

pin(r) ==
    /\ Idle /\ r \in index.listed
    /\ index' = [index EXCEPT !.pinned = @ \cup {r}]
    /\ saved' = index'
    /\ kept' = kept \cup {r}
    /\ UNCHANGED <<files, tmp, maxBytes, now, run, writer, job, readers, condemned>>

unpin(r) ==
    /\ Idle /\ r \in index.listed
    /\ index' = [index EXCEPT !.pinned = @ \ {r}]
    /\ saved' = index'
    /\ kept' = kept \ {r}
    /\ UNCHANGED <<files, tmp, maxBytes, now, run, writer, job, readers, condemned>>

-----------------------------------------------------------------------------
(* readRows of a page that is not empty.  Opening a file is the work of    *)
(* another thread, which does not wait for the event loop to be free.      *)

readMissing(c, r) ==
    /\ Idle /\ target[c] = NoResult /\ r \notin index.listed
    /\ told' = [told EXCEPT ![c] = "not_found"]
    /\ UNCHANGED <<disk, index, maxBytes, now, run, writer, job, target, at, history>>

(* Up to the first await: the result is touched.                           *)
readRows(c, r) ==
    /\ Idle /\ target[c] = NoResult /\ r \in index.listed /\ now < MaxUses
    /\ index' = Used(index, r)
    /\ saved' = index'
    /\ now' = now + 1
    /\ target' = [target EXCEPT ![c] = r]
    /\ at' = [at EXCEPT ![c] = "idx"]
    /\ told' = [told EXCEPT ![c] = "nothing"]
    /\ UNCHANGED <<files, tmp, maxBytes, run, writer, job, history>>

openIdx(c) ==
    /\ run = "up" /\ target[c] # NoResult /\ at[c] = "idx"
    /\ "idx" \in files[target[c]]
    /\ at' = [at EXCEPT ![c] = "rows"]
    /\ UNCHANGED <<disk, index, maxBytes, now, run, writer, job, target, told, history>>

openRows(c) ==
    /\ run = "up" /\ target[c] # NoResult /\ at[c] = "rows"
    /\ "rows" \in files[target[c]]
    /\ target' = [target EXCEPT ![c] = NoResult]
    /\ at' = [at EXCEPT ![c] = "idx"]
    /\ told' = [told EXCEPT ![c] = "page"]
    /\ UNCHANGED <<disk, index, maxBytes, now, run, writer, job, history>>

(* The file is gone: whatever open throws reaches the client as internal.  *)
openFails(c) ==
    /\ run = "up" /\ target[c] # NoResult /\ at[c] \notin files[target[c]]
    /\ target' = [target EXCEPT ![c] = NoResult]
    /\ at' = [at EXCEPT ![c] = "idx"]
    /\ told' = [told EXCEPT ![c] = "internal"]
    /\ UNCHANGED <<disk, index, maxBytes, now, run, writer, job, history>>

-----------------------------------------------------------------------------
(* The process dies, between any two steps, and starts again *)

Crash ==
    /\ run # "down"
    /\ run' = "down"
    /\ writer' = [r \in Results |-> IF writer[r] \in {"writing", "described"} THEN "over" ELSE writer[r]]
    /\ renamed' = NoResult /\ doomed' = {} /\ why' = "idle"
    /\ target' = [c \in Readers |-> NoResult]
    /\ at' = [c \in Readers |-> "idx"]
    /\ told' = [c \in Readers |-> "nothing"]
    /\ UNCHANGED <<disk, index, maxBytes, now, history>>

(* loadIndex, and the first loop of sweepOrphans.                          *)
loadIndex ==
    /\ run = "down"
    /\ LET lost == {r \in saved.listed : "meta" \notin files[r]} IN
       index' = [listed |-> saved.listed \ lost, pinned |-> saved.pinned \ lost,
                 accessedAt |-> [r \in Results |-> IF r \in lost THEN 0 ELSE saved.accessedAt[r]]]
    /\ run' = "sweeping"
    /\ UNCHANGED <<disk, maxBytes, now, writer, job, readers, history>>

(* Mutant of Stray: only what is pinned is known.                          *)
StrayIfUnpinned(r) == r \notin index.pinned

Stray(r) == r \notin index.listed

SweepResult(r, f) ==
    /\ run = "sweeping" /\ Stray(r) /\ f \in files[r]
    /\ files' = [files EXCEPT ![r] = @ \ {f}]
    /\ UNCHANGED <<tmp, saved, index, maxBytes, now, run, writer, job, readers, history>>

SweepTmp(r) ==
    /\ run = "sweeping" /\ r \in tmp
    /\ tmp' = tmp \ {r}
    /\ UNCHANGED <<files, saved, index, maxBytes, now, run, writer, job, readers, history>>

(* The index is written again if it lost an entry.                         *)
Ready ==
    /\ run = "sweeping" /\ tmp = {} /\ \A r \in Results : Stray(r) => files[r] = {}
    /\ saved' = index
    /\ run' = "up"
    /\ UNCHANGED <<files, tmp, index, maxBytes, now, writer, job, readers, history>>

Next ==
    \/ \E r \in Results : \/ begin(r) \/ Describe(r) \/ abort(r) \/ Rename(r)
                          \/ delete(r) \/ Deleted(r) \/ pin(r) \/ unpin(r)
                          \/ SweepTmp(r)
                          \/ \E f \in Files : RemoveFile(r, f) \/ SweepResult(r, f)
    \/ \E cap \in Caps : setOptions(cap)
    \/ \E c \in Readers : \/ openIdx(c) \/ openRows(c) \/ openFails(c)
                          \/ \E r \in Results : readMissing(c, r) \/ readRows(c, r)
    \/ Record \/ Crash \/ loadIndex \/ Ready

Spec == Init /\ [][Next]_vars

-----------------------------------------------------------------------------
(* Properties *)

(* Between two operations the disk holds what the index lists and the open *)
(* writers write, and nothing else, whatever crashed before                *)
(* (results.ts:280-283): no directory is leaked and none is counted twice. *)
NothingLeaks ==
    Idle => /\ \A r \in Results : files[r] # {} => r \in index.listed
            /\ \A r \in tmp : writer[r] \in {"writing", "described"}

(* Between two operations index.json is the index, so a crash there loses  *)
(* nothing, not even a pin or the order of use.                            *)
SavedIsCurrent == Idle => saved = index

(* A result whose finish returned is whole, on disk and in index.json,     *)
(* across any number of crashes, until somebody asked for its deletion or  *)
(* eviction chose it.                                                      *)
PublishedIsDurable ==
    \A r \in Results :
        writer[r] = "published" /\ r \notin condemned => files[r] = Files /\ r \in saved.listed

(* A pinned result stays, listed and pinned, until a client unpins or      *)
(* deletes it: neither eviction nor a crash in the middle of anything      *)
(* takes it.                                                               *)
PinnedIsKept == kept \subseteq saved.listed \cap saved.pinned /\ kept \cap doomed = {}

(* Eviction brings the total under 90% of the cap, or to the pinned        *)
(* results if these alone are above it.                                    *)
EvictionSuffices ==
    [][why = "evict" /\ why' = "idle" /\ run' = "up" =>
          TotalBytes(index') <= EvictionTarget(maxBytes) \/ index'.listed \subseteq index'.pinned]_vars

(* A missing result is reported as not_found, not as an internal error     *)
(* (results.test.ts:223).                                                  *)
MissingIsNotFound == \A c \in Readers : told[c] # "internal"
=============================================================================
