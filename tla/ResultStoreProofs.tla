------------------------- MODULE ResultStoreProofs -------------------------
(***************************************************************************)
(* Proofs about ResultStore, for any results, sizes, caps and readers.     *)
(* The inductive invariant says, for each stage of the process's life,     *)
(* how the index in memory, index.json and the directories agree, and for  *)
(* an eviction, what is left once all it has chosen is deleted.            *)
(***************************************************************************)
EXTENDS ResultStore, Inductions

(* Nothing is said of results an index does not list.                      *)
Canonical(ix) ==
    /\ ix.pinned \subseteq ix.listed
    /\ \A r \in Results \ ix.listed : ix.accessedAt[r] = 0

OpenWriter(r) == writer[r] \in {"writing", "described"}

UpInv ==
    run = "up" =>
        /\ saved = index
        /\ \A r \in Results : files[r] # {} => r \in index.listed \cup {renamed}
        /\ \A r \in index.listed \ doomed : "meta" \in files[r]
        /\ \A r \in tmp : OpenWriter(r)

SweepInv ==
    run = "sweeping" =>
        /\ index.listed = {r \in saved.listed : "meta" \in files[r]}
        /\ index.pinned = saved.pinned \cap index.listed

JobInv ==
    /\ run # "up" => renamed = NoResult /\ why = "idle"
    /\ renamed # NoResult => /\ why = "idle" /\ now < MaxUses /\ renamed \notin tmp
                             /\ files[renamed] = Files /\ writer[renamed] = "described"
    /\ doomed \subseteq condemned

KeptInv == PinnedIsKept /\ \A r \in kept : "meta" \in files[r]

SInv ==
    /\ TypeOK /\ Canonical(saved) /\ Canonical(index)
    /\ UpInv /\ SweepInv /\ JobInv /\ KeptInv /\ PublishedIsDurable

LEMMA StoreInitInv == Init => SInv
<1> SUFFICES ASSUME Init PROVE SInv
  OBVIOUS
<1> USE StoreAssumption DEF Init
<1>1. EmptyIndex \in Indexes /\ Canonical(EmptyIndex)
  BY DEF EmptyIndex, Indexes, Canonical
<1>2. TypeOK
  BY <1>1 DEF TypeOK
<1>3. UpInv /\ SweepInv /\ JobInv
  BY DEF UpInv, SweepInv, JobInv, EmptyIndex
<1>4. KeptInv /\ PublishedIsDurable
  BY DEF KeptInv, PinnedIsKept, PublishedIsDurable
<1> QED BY <1>1, <1>2, <1>3, <1>4 DEF SInv

-----------------------------------------------------------------------------
(* The operators on an index *)

LEMMA UsedIndex ==
    ASSUME now \in 0..MaxUses, now < MaxUses, NEW ix \in Indexes, Canonical(ix),
           NEW r \in Results, NEW ls \in SUBSET Results, ls = ix.listed \cup {r}
    PROVE  LET new == Used([ix EXCEPT !.listed = ls], r) IN
           /\ new \in Indexes /\ Canonical(new)
           /\ new.listed = ls /\ new.pinned = ix.pinned
<1> DEFINE new == Used([ix EXCEPT !.listed = ls], r)
           uses == [ix.accessedAt EXCEPT ![r] = now + 1]
<1>1. [ix EXCEPT !.listed = ls] = [listed |-> ls, pinned |-> ix.pinned, accessedAt |-> ix.accessedAt]
  BY DEF Indexes
<1>2. new = [listed |-> ls, pinned |-> ix.pinned, accessedAt |-> uses]
  <2>1. PICK mid : mid = [listed |-> ls, pinned |-> ix.pinned, accessedAt |-> ix.accessedAt]
    OBVIOUS
  <2>2. new = Used(mid, r)
    BY <1>1, <2>1
  <2>3. Used(mid, r) = [mid EXCEPT !.accessedAt = [mid.accessedAt EXCEPT ![r] = now + 1]]
    BY DEF Used
  <2>4. mid.accessedAt = ix.accessedAt /\ mid.listed = ls /\ mid.pinned = ix.pinned
    BY <2>1
  <2> QED BY <2>1, <2>2, <2>3, <2>4
<1>3. now + 1 \in 0..MaxUses
  BY StoreAssumption
<1>4. /\ uses \in [Results -> 0..MaxUses]
      /\ \A s \in Results \ ls : uses[s] = 0
      /\ ix.pinned \subseteq ls /\ ix.pinned \in SUBSET Results
  BY <1>3 DEF Indexes, Canonical
<1> HIDE DEF new, uses
<1>5. new \in Indexes
  BY <1>2, <1>4 DEF Indexes
<1>6. Canonical(new)
  BY <1>2, <1>4 DEF Canonical
<1>7. new.listed = ls /\ new.pinned = ix.pinned
  BY <1>2
<1> QED BY <1>5, <1>6, <1>7 DEF new

LEMMA WithoutIndex ==
    ASSUME NEW ix \in Indexes, Canonical(ix), NEW r \in Results
    PROVE  /\ Without(ix, r) \in Indexes /\ Canonical(Without(ix, r))
           /\ Without(ix, r).listed = ix.listed \ {r}
           /\ Without(ix, r).pinned = ix.pinned \ {r}
           /\ r \notin ix.listed => Without(ix, r) = ix
<1>1. 0 \in 0..MaxUses
  BY StoreAssumption
<1>2. Without(ix, r) \in Indexes /\ Canonical(Without(ix, r))
  BY <1>1 DEF Without, Indexes, Canonical
<1>3. ASSUME r \notin ix.listed PROVE Without(ix, r) = ix
  <2>1. [ix.accessedAt EXCEPT ![r] = 0] = ix.accessedAt
    BY <1>3 DEF Indexes, Canonical
  <2>2. ix.listed \ {r} = ix.listed /\ ix.pinned \ {r} = ix.pinned
    BY <1>3 DEF Canonical
  <2> QED BY <2>1, <2>2 DEF Without, Indexes
<1> QED BY <1>2, <1>3 DEF Without

(* Eviction only ever chooses what is listed and not pinned.               *)
LEMMA VictimsUnpinned ==
    ASSUME NEW ix, NEW cap
    PROVE  Victims(ix, cap) \subseteq ix.listed \ ix.pinned
BY DEF Victims, Unpinned

-----------------------------------------------------------------------------
(* One lemma per group of steps that disturb the same parts *)

LEMMA WriterInv ==
    ASSUME SInv, NEW r \in Results, begin(r) \/ Describe(r) \/ abort(r)
    PROVE  SInv'
<1> USE DEF SInv
<1>1. PICK w \in {"writing", "described", "over"} :
          /\ writer' = [writer EXCEPT ![r] = w]
          /\ writer[r] \in {"none", "writing", "described"}
          /\ tmp' \subseteq tmp \cup {r}
          /\ w = "over" => tmp' = tmp \ {r}
  <2>1. CASE begin(r)
    BY <2>1 DEF begin
  <2>2. CASE Describe(r)
    BY <2>2 DEF Describe, disk
  <2>3. CASE abort(r)
    BY <2>3 DEF abort
  <2> QED BY <2>1, <2>2, <2>3
<1>2. Idle /\ UNCHANGED <<files, saved, index, maxBytes, now, run, job, readers, history>>
  BY DEF begin, Describe, abort, disk
<1> USE DEF job, readers, history
<1>3. TypeOK'
  BY <1>1, <1>2 DEF TypeOK
<1>4. UpInv' /\ SweepInv'
  BY <1>1, <1>2 DEF UpInv, SweepInv, OpenWriter, TypeOK
<1>5. JobInv' /\ KeptInv' /\ PublishedIsDurable'
  BY <1>1, <1>2 DEF JobInv, KeptInv, PinnedIsKept, PublishedIsDurable, TypeOK, Idle
<1> QED BY <1>2, <1>3, <1>4, <1>5 DEF Canonical

LEMMA RenameInv ==
    ASSUME SInv, NEW r \in Results, Rename(r)
    PROVE  SInv'
<1> USE StoreAssumption DEF SInv, Rename, Idle, readers, history
<1>1. TypeOK'
  BY DEF TypeOK
<1>2. UpInv'
  BY DEF UpInv, OpenWriter, TypeOK, Files, Indexes
<1>3. SweepInv' /\ JobInv'
  BY DEF SweepInv, JobInv, TypeOK
<1>4. KeptInv' /\ PublishedIsDurable'
  BY DEF KeptInv, PinnedIsKept, PublishedIsDurable, TypeOK, Files
<1> QED BY <1>1, <1>2, <1>3, <1>4 DEF Canonical

LEMMA RecordInv ==
    ASSUME SInv, Record
    PROVE  SInv'
<1> USE DEF SInv
<1>1. /\ renamed \in Results /\ renamed # NoResult /\ run = "up" /\ saved = index
      /\ why = "idle" /\ doomed = {} /\ now \in 0..MaxUses /\ now < MaxUses
      /\ files[renamed] = Files /\ index \in Indexes /\ renamed \notin tmp
  BY DEF Record, UpInv, JobInv, TypeOK
<1> DEFINE ls == index.listed \cup {renamed}
           new == Used([index EXCEPT !.listed = @ \cup {renamed}], renamed)
           victims == Victims(new, maxBytes)
<1>2. [index EXCEPT !.listed = @ \cup {renamed}] = [index EXCEPT !.listed = ls]
  BY <1>1 DEF Indexes
<1>3. /\ new \in Indexes /\ Canonical(new)
      /\ new.listed = ls /\ new.pinned = index.pinned
  <2>1. ls \in SUBSET Results
    BY <1>1 DEF Indexes
  <2> QED BY <1>1, <1>2, <2>1, UsedIndex
<1>4. victims \subseteq ls /\ victims \cap index.pinned = {}
  BY <1>3, VictimsUnpinned
<1>5. /\ index' = new /\ saved' = new
      /\ doomed' = victims /\ condemned' = condemned \cup victims
      /\ why' = IF victims = {} THEN "idle" ELSE "evict"
      /\ writer' = [writer EXCEPT ![renamed] = "published"]
      /\ now' = now + 1 /\ renamed' = NoResult
      /\ UNCHANGED <<files, tmp, maxBytes, run, readers, kept>>
  BY DEF Record, Evict
<1> HIDE DEF ls, new, victims
<1>6. ls \subseteq Results /\ ls = index.listed \cup {renamed}
  BY <1>1 DEF ls, Indexes
<1>7. TypeOK'
  <2>1. now + 1 \in 0..MaxUses
    BY <1>1, StoreAssumption
  <2> QED BY <1>1, <1>3, <1>4, <1>5, <1>6, <2>1 DEF TypeOK, readers
<1>8. UpInv'
  <2>1. files[renamed] = Files /\ "meta" \in Files /\ renamed \notin tmp
    BY <1>1 DEF Files
  <2> QED BY <1>1, <1>3, <1>5, <1>6, <2>1 DEF UpInv, OpenWriter, TypeOK
<1>9. SweepInv' /\ JobInv'
  BY <1>1, <1>5 DEF SweepInv, JobInv
<1>10. KeptInv'
  BY <1>1, <1>3, <1>4, <1>5, <1>6 DEF KeptInv, PinnedIsKept
<1>11. PublishedIsDurable'
  BY <1>1, <1>3, <1>5, <1>6 DEF PublishedIsDurable, TypeOK
<1> QED BY <1>3, <1>5, <1>7, <1>8, <1>9, <1>10, <1>11

LEMMA SetOptionsInv ==
    ASSUME SInv, NEW cap \in Caps, setOptions(cap)
    PROVE  SInv'
<1> USE DEF SInv
<1>1. Idle /\ doomed = {} /\ saved = index /\ index \in Indexes
  BY DEF setOptions, Idle, UpInv, TypeOK
<1>2. PICK victims : victims = Victims(index, cap)
  OBVIOUS
<1>3. victims \subseteq index.listed \ index.pinned
  BY <1>2, VictimsUnpinned
<1>4. victims \subseteq Results
  BY <1>1, <1>3 DEF Indexes
<1>5. /\ maxBytes' = cap /\ doomed' = victims /\ condemned' = condemned \cup victims
      /\ why' = IF victims = {} THEN "idle" ELSE "evict"
      /\ UNCHANGED <<files, tmp, saved, index, now, run, writer, renamed, readers, kept>>
  BY <1>2 DEF setOptions, Evict, disk
<1>6. TypeOK'
  BY <1>4, <1>5 DEF TypeOK, readers
<1>7. UpInv' /\ SweepInv' /\ JobInv'
  BY <1>1, <1>5 DEF UpInv, SweepInv, JobInv, OpenWriter, Idle
<1>8. KeptInv' /\ PublishedIsDurable'
  BY <1>1, <1>3, <1>5 DEF KeptInv, PinnedIsKept, PublishedIsDurable
<1> QED BY <1>5, <1>6, <1>7, <1>8 DEF Canonical

LEMMA DeleteInv ==
    ASSUME SInv, NEW r \in Results, delete(r)
    PROVE  SInv'
<1> USE DEF SInv, delete, disk, readers
<1>1. Idle /\ doomed = {}
  BY DEF Idle, TypeOK
<1>2. TypeOK'
  BY DEF TypeOK
<1>3. UpInv' /\ SweepInv' /\ JobInv'
  BY <1>1 DEF UpInv, SweepInv, JobInv, OpenWriter, Idle
<1>4. KeptInv' /\ PublishedIsDurable'
  BY DEF KeptInv, PinnedIsKept, PublishedIsDurable
<1> QED BY <1>2, <1>3, <1>4 DEF Canonical

LEMMA RemoveFileInv ==
    ASSUME SInv, NEW r \in Results, NEW f \in Files, RemoveFile(r, f)
    PROVE  SInv'
<1> USE DEF SInv
<1>1. /\ r \in doomed /\ files' = [files EXCEPT ![r] = files[r] \ {f}]
      /\ UNCHANGED <<tmp, saved, index, maxBytes, now, run, writer, job, readers, history>>
  BY DEF RemoveFile, NextDoomed
<1>2. run = "up" /\ renamed = NoResult /\ r \in condemned /\ r \notin kept
  BY <1>1 DEF JobInv, TypeOK, KeptInv, PinnedIsKept
<1> USE DEF job, readers, history
<1>3. TypeOK'
  BY <1>1 DEF TypeOK
<1>4. UpInv' /\ SweepInv' /\ JobInv'
  BY <1>1, <1>2 DEF UpInv, SweepInv, JobInv, OpenWriter, TypeOK
<1>5. KeptInv' /\ PublishedIsDurable'
  BY <1>1, <1>2 DEF KeptInv, PinnedIsKept, PublishedIsDurable, TypeOK
<1> QED BY <1>1, <1>3, <1>4, <1>5 DEF Canonical

LEMMA DeletedInv ==
    ASSUME SInv, NEW r \in Results, Deleted(r)
    PROVE  SInv'
<1> USE DEF SInv
<1>1. /\ r \in doomed /\ files[r] = {}
      /\ doomed' = doomed \ {r} /\ why' = (IF doomed' = {} THEN "idle" ELSE why)
      /\ UNCHANGED <<files, tmp, maxBytes, now, run, writer, renamed, readers, history>>
  BY DEF Deleted, NextDoomed
<1>2. /\ run = "up" /\ renamed = NoResult /\ r \in condemned /\ r \notin kept
      /\ saved = index /\ index \in Indexes /\ why # "idle"
  BY <1>1 DEF JobInv, TypeOK, KeptInv, PinnedIsKept, UpInv
<1>3. /\ index' \in Indexes /\ Canonical(index')
      /\ index'.listed = index.listed \ {r} /\ index'.pinned = index.pinned \ {r}
      /\ saved' = index'
  BY <1>2, WithoutIndex DEF Deleted, Forget
<1> USE DEF readers, history
<1>4. TypeOK'
  BY <1>1, <1>2, <1>3 DEF TypeOK
<1>5. UpInv' /\ SweepInv' /\ JobInv'
  BY <1>1, <1>2, <1>3 DEF UpInv, SweepInv, JobInv, OpenWriter
<1>6. KeptInv'
  BY <1>1, <1>2, <1>3 DEF KeptInv, PinnedIsKept
<1>7. PublishedIsDurable'
  BY <1>1, <1>2, <1>3 DEF PublishedIsDurable
<1> QED BY <1>3, <1>4, <1>5, <1>6, <1>7

LEMMA PinInv ==
    ASSUME SInv, NEW r \in Results, pin(r) \/ unpin(r)
    PROVE  SInv'
<1> USE DEF SInv
<1>1. /\ Idle /\ r \in index.listed /\ saved' = index'
      /\ UNCHANGED <<files, tmp, maxBytes, now, run, writer, job, readers, condemned>>
  BY DEF pin, unpin
<1>2. saved = index /\ index \in Indexes /\ renamed = NoResult /\ doomed = {} /\ "meta" \in files[r]
  BY <1>1 DEF UpInv, TypeOK, Idle
<1>3. PICK p \in SUBSET index.listed :
          /\ index' = [index EXCEPT !.pinned = p]
          /\ kept' \subseteq kept \cup {r} /\ kept' \subseteq (kept \cap p) \cup (p \cap {r})
  <2>1. CASE pin(r)
    <3>1. index.pinned \cup {r} \in SUBSET index.listed
      BY <1>1 DEF Canonical
    <3> QED BY <1>2, <2>1, <3>1 DEF pin, KeptInv, PinnedIsKept
  <2>2. CASE unpin(r)
    <3>1. index.pinned \ {r} \in SUBSET index.listed
      BY DEF Canonical
    <3> QED BY <1>2, <2>2, <3>1 DEF unpin, KeptInv, PinnedIsKept
  <2> QED BY <2>1, <2>2
<1>4. /\ index' \in Indexes /\ Canonical(index')
      /\ index'.listed = index.listed /\ index'.pinned = p
  BY <1>2, <1>3 DEF Indexes, Canonical
<1> USE DEF job, readers
<1>5. TypeOK'
  <2>1. kept' \subseteq Results
    BY <1>3 DEF TypeOK
  <2> QED BY <1>1, <1>4, <2>1 DEF TypeOK
<1>6. UpInv' /\ SweepInv' /\ JobInv'
  BY <1>1, <1>4 DEF UpInv, SweepInv, JobInv, OpenWriter, Idle
<1>7. KeptInv'
  BY <1>1, <1>2, <1>3, <1>4 DEF KeptInv, PinnedIsKept
<1>8. PublishedIsDurable'
  BY <1>1, <1>2, <1>4 DEF PublishedIsDurable
<1> QED BY <1>1, <1>4, <1>5, <1>6, <1>7, <1>8

LEMMA ReadRowsInv ==
    ASSUME SInv, NEW c \in Readers, NEW r \in Results, readRows(c, r)
    PROVE  SInv'
<1> USE DEF SInv
<1>1. /\ Idle /\ r \in index.listed /\ index' = Used(index, r) /\ saved' = index'
      /\ now < MaxUses /\ now' = now + 1
      /\ target' = [target EXCEPT ![c] = r] /\ at' = [at EXCEPT ![c] = "idx"]
      /\ told' = [told EXCEPT ![c] = "nothing"]
      /\ UNCHANGED <<files, tmp, maxBytes, run, writer, job, history>>
  BY DEF readRows
<1>2. saved = index /\ index \in Indexes /\ renamed = NoResult /\ now \in 0..MaxUses
  BY <1>1 DEF UpInv, TypeOK, Idle
<1>3. /\ index' \in Indexes /\ Canonical(index')
      /\ index'.listed = index.listed /\ index'.pinned = index.pinned
  <2>1. [index EXCEPT !.listed = index.listed] = index
    BY <1>2 DEF Indexes
  <2>2. index.listed \in SUBSET Results /\ index.listed = index.listed \cup {r}
    BY <1>1, <1>2 DEF Indexes
  <2> QED BY <1>1, <1>2, <2>1, <2>2, UsedIndex
<1> USE DEF job, history
<1>4. TypeOK'
  <2>1. now + 1 \in 0..MaxUses
    BY <1>1, <1>2, StoreAssumption
  <2> QED BY <1>1, <1>3, <2>1 DEF TypeOK
<1>5. UpInv' /\ SweepInv' /\ JobInv'
  BY <1>1, <1>2, <1>3 DEF UpInv, SweepInv, JobInv, OpenWriter, Idle
<1>6. KeptInv' /\ PublishedIsDurable'
  BY <1>1, <1>2, <1>3 DEF KeptInv, PinnedIsKept, PublishedIsDurable
<1> QED BY <1>1, <1>3, <1>4, <1>5, <1>6

(* Steps of a reader, and none at all.                                     *)
LEMMA ReaderInv ==
    ASSUME SInv, UNCHANGED <<disk, index, maxBytes, now, run, writer, job, history>>,
           TypeOK'
    PROVE  SInv'
BY DEF SInv, disk, job, history, Canonical, UpInv, SweepInv, JobInv, KeptInv, PinnedIsKept,
       PublishedIsDurable, OpenWriter

LEMMA CrashInv ==
    ASSUME SInv, Crash
    PROVE  SInv'
<1> USE DEF SInv, Crash, disk, history
<1>1. TypeOK'
  BY DEF TypeOK
<1>2. UpInv' /\ SweepInv' /\ JobInv'
  BY DEF UpInv, SweepInv, JobInv, TypeOK
<1>3. KeptInv' /\ PublishedIsDurable'
  BY DEF KeptInv, PinnedIsKept, PublishedIsDurable, TypeOK
<1> QED BY <1>1, <1>2, <1>3 DEF Canonical

LEMMA LoadInv ==
    ASSUME SInv, loadIndex
    PROVE  SInv'
<1> USE DEF SInv
<1> DEFINE lost == {r \in saved.listed : "meta" \notin files[r]}
           uses == [r \in Results |-> IF r \in lost THEN 0 ELSE saved.accessedAt[r]]
<1>1. /\ run = "down" /\ run' = "sweeping"
      /\ index' = [listed |-> saved.listed \ lost, pinned |-> saved.pinned \ lost, accessedAt |-> uses]
      /\ UNCHANGED <<files, tmp, saved, maxBytes, now, writer, job, readers, history>>
  BY DEF loadIndex, disk
<1>2. uses \in [Results -> 0..MaxUses] /\ \A r \in Results \ (saved.listed \ lost) : uses[r] = 0
  BY StoreAssumption DEF TypeOK, Indexes, Canonical
<1>3. saved.listed \subseteq Results /\ saved.pinned \subseteq saved.listed
  BY DEF TypeOK, Indexes, Canonical
<1> HIDE DEF uses
<1>4. index' \in Indexes /\ Canonical(index')
  BY <1>1, <1>2, <1>3 DEF Indexes, Canonical
<1> USE DEF job, readers, history
<1>5. TypeOK'
  BY <1>1, <1>4 DEF TypeOK
<1>6. UpInv' /\ SweepInv' /\ JobInv'
  BY <1>1, <1>3 DEF UpInv, SweepInv, JobInv
<1>7. KeptInv' /\ PublishedIsDurable'
  BY <1>1 DEF KeptInv, PinnedIsKept, PublishedIsDurable
<1> QED BY <1>1, <1>4, <1>5, <1>6, <1>7 DEF Canonical

LEMMA SweepStepInv ==
    ASSUME SInv, NEW r \in Results, NEW f \in Files, SweepResult(r, f) \/ SweepTmp(r)
    PROVE  SInv'
<1> USE DEF SInv
<1>1. CASE SweepResult(r, f)
  <2>1. /\ run = "sweeping" /\ r \notin index.listed
        /\ files' = [files EXCEPT ![r] = files[r] \ {f}]
        /\ UNCHANGED <<tmp, saved, index, maxBytes, now, run, writer, job, readers, history>>
    BY <1>1 DEF SweepResult, Stray
  <2>2. r \notin saved.listed \/ "meta" \notin files[r]
    BY <2>1 DEF SweepInv
  <2>3. r \notin kept /\ (writer[r] = "published" => r \in condemned)
    BY <2>2 DEF KeptInv, PinnedIsKept, PublishedIsDurable, Files
  <2> USE DEF job, readers, history
  <2>4. TypeOK'
    BY <2>1 DEF TypeOK
  <2>5. UpInv' /\ JobInv'
    BY <2>1 DEF UpInv, JobInv, TypeOK
  <2>6. SweepInv'
    BY <2>1, <2>2 DEF SweepInv, TypeOK, Indexes
  <2>7. KeptInv' /\ PublishedIsDurable'
    BY <2>1, <2>3 DEF KeptInv, PinnedIsKept, PublishedIsDurable, TypeOK
  <2> QED BY <2>1, <2>4, <2>5, <2>6, <2>7 DEF Canonical
<1>2. CASE SweepTmp(r)
  BY <1>2 DEF SweepTmp, job, readers, history, TypeOK, Canonical, UpInv, SweepInv, JobInv,
              KeptInv, PinnedIsKept, PublishedIsDurable
<1> QED BY <1>1, <1>2

LEMMA ReadyInv ==
    ASSUME SInv, Ready
    PROVE  SInv'
<1> USE DEF SInv
<1>1. /\ run = "sweeping" /\ run' = "up" /\ tmp = {} /\ saved' = index
      /\ \A r \in Results : r \notin index.listed => files[r] = {}
      /\ UNCHANGED <<files, tmp, index, maxBytes, now, writer, job, readers, history>>
  BY DEF Ready, Stray
<1>2. /\ index.listed = {r \in saved.listed : "meta" \in files[r]}
      /\ index.pinned = saved.pinned \cap index.listed
      /\ renamed = NoResult
  BY <1>1 DEF SweepInv, JobInv
<1> USE DEF job, readers, history
<1>3. TypeOK'
  BY <1>1 DEF TypeOK
<1>4. UpInv' /\ SweepInv' /\ JobInv'
  BY <1>1, <1>2 DEF UpInv, SweepInv, JobInv
<1>5. KeptInv'
  BY <1>1, <1>2 DEF KeptInv, PinnedIsKept
<1>6. PublishedIsDurable'
  BY <1>1, <1>2 DEF PublishedIsDurable, Files
<1> QED BY <1>1, <1>3, <1>4, <1>5, <1>6

LEMMA StoreNextInv == SInv /\ [Next]_vars => SInv'
<1> SUFFICES ASSUME SInv, [Next]_vars PROVE SInv'
  OBVIOUS
<1>1. ASSUME NEW r \in Results,
             \/ begin(r) \/ Describe(r) \/ abort(r) \/ Rename(r)
             \/ delete(r) \/ Deleted(r) \/ pin(r) \/ unpin(r) \/ SweepTmp(r)
             \/ \E f \in Files : RemoveFile(r, f) \/ SweepResult(r, f)
      PROVE  SInv'
  <2>1. "rows" \in Files
    BY DEF Files
  <2> QED BY <1>1, <2>1, WriterInv, RenameInv, DeleteInv, DeletedInv, PinInv, RemoveFileInv, SweepStepInv
<1>2. ASSUME NEW c \in Readers, openIdx(c) \/ openRows(c) \/ openFails(c)
      PROVE  SInv'
  <2>1. UNCHANGED <<disk, index, maxBytes, now, run, writer, job, history>>
    BY <1>2 DEF openIdx, openRows, openFails
  <2>2. TypeOK'
    BY <1>2, <2>1 DEF openIdx, openRows, openFails, SInv, TypeOK, disk, job, history
  <2> QED BY <2>1, <2>2, ReaderInv
<1>3. ASSUME NEW c \in Readers, NEW r \in Results, readMissing(c, r) \/ readRows(c, r)
      PROVE  SInv'
  <2>1. CASE readMissing(c, r)
    <3>1. UNCHANGED <<disk, index, maxBytes, now, run, writer, job, history>>
      BY <2>1 DEF readMissing
    <3>2. TypeOK'
      BY <2>1, <3>1 DEF readMissing, SInv, TypeOK, disk, job, history
    <3> QED BY <3>1, <3>2, ReaderInv
  <2> QED BY <1>3, <2>1, ReadRowsInv
<1>4. CASE UNCHANGED vars
  <2>1. TypeOK'
    BY <1>4 DEF SInv, TypeOK, vars, disk, job, readers, history
  <2> QED BY <1>4, <2>1, ReaderInv DEF vars
<1>5. CASE (\E cap \in Caps : setOptions(cap)) \/ Record \/ Crash \/ loadIndex \/ Ready
  BY <1>5, SetOptionsInv, RecordInv, CrashInv, LoadInv, ReadyInv
<1> QED BY <1>1, <1>2, <1>3, <1>4, <1>5 DEF Next

LEMMA StoreInductive == Spec => []SInv
BY StoreInitInv, StoreNextInv, PTL DEF Spec

-----------------------------------------------------------------------------
(* Every variable of the store keeps to its type.                          *)
THEOREM StoreTypeCorrect == Spec => []TypeOK
<1>1. SInv => TypeOK
  BY DEF SInv
<1> QED BY <1>1, StoreInductive, PTL

(* After any crashes and recoveries, the disk holds what the index lists   *)
(* and the open writers write.                                             *)
THEOREM StoreLeaksNothing == Spec => []NothingLeaks
<1>1. SInv => NothingLeaks
  BY StoreAssumption DEF SInv, NothingLeaks, UpInv, Idle, OpenWriter
<1> QED BY <1>1, StoreInductive, PTL

(* Between two operations index.json is the index.                         *)
THEOREM StoreIsSaved == Spec => []SavedIsCurrent
<1>1. SInv => SavedIsCurrent
  BY DEF SInv, SavedIsCurrent, UpInv, Idle
<1> QED BY <1>1, StoreInductive, PTL

(* A published result is lost only to a deletion or an eviction.           *)
THEOREM StoreIsDurable == Spec => []PublishedIsDurable
<1>1. SInv => PublishedIsDurable
  BY DEF SInv
<1> QED BY <1>1, StoreInductive, PTL

(* A pinned result is kept until a client unpins or deletes it.            *)
THEOREM StoreKeepsPins == Spec => []PinnedIsKept
<1>1. SInv => PinnedIsKept
  BY DEF SInv, KeptInv
<1> QED BY <1>1, StoreInductive, PTL

-----------------------------------------------------------------------------
(* Eviction.  Sizes add up, so taking the victims out of the index leaves  *)
(* no more than taking out those older than the first survivor.            *)

BytesOf(s) == MapThenSumSet(LAMBDA r : Size[r], s)

(* What is left when a doomed set is gone is little enough, or pinned.     *)
Suffices(ix, doom, cap) ==
    BytesOf(ix.listed \ doom) <= EvictionTarget(cap) \/ ix.listed \ doom \subseteq ix.pinned

EvictInv == why = "evict" => Suffices(index, doomed, maxBytes)

LEMMA SizesAddUp == \E h : SumsUp(h, Results, Size) /\ \A s \in SUBSET Results : BytesOf(s) = h[s]
<1>1. IsFiniteSet(Results) /\ Size \in [Results -> Nat]
  BY StoreAssumption
<1>2. PICK h : SumsUp(h, Results, Size) /\ \A s \in SUBSET Results : SumOver(Size, s) = h[s]
  BY <1>1, SumIs
<1>3. \A s : BytesOf(s) = SumOver(Size, s)
  BY DEF BytesOf, SumOver
<1> QED BY <1>2, <1>3

(* Some result of a set was used no later than the others.                 *)
LEMMA LeastUsed ==
    ASSUME NEW ix \in Indexes, NEW S \in SUBSET Results, S # {}
    PROVE  \E r \in S : \A s \in S : ~(ix.accessedAt[s] < ix.accessedAt[r])
<1>1. \A r \in S : ix.accessedAt[r] \in Nat
  BY StoreAssumption DEF Indexes
<1> DEFINE T == {ix.accessedAt[r] : r \in S}
<1>2. T \subseteq Nat /\ T # {}
  BY <1>1
<1>3. PICK m \in T : \A k \in T : <<k, m>> \notin NatLess
  <2> HIDE DEF T
  <2> QED BY <1>2, NatLessWF, WFMin
<1>4. PICK r \in S : m = ix.accessedAt[r]
  OBVIOUS
<1>5. \A s \in S : ~(ix.accessedAt[s] < m)
  BY <1>1, <1>3, <1>4 DEF NatLess
<1> QED BY <1>4, <1>5

LEMMA VictimsSuffice ==
    ASSUME NEW ix \in Indexes, NEW cap \in Nat, Victims(ix, cap) # {}
    PROVE  Suffices(ix, Victims(ix, cap), cap)
<1> DEFINE V == Victims(ix, cap)
           U == Unpinned(ix)
           older(r) == {s \in U : ix.accessedAt[s] < ix.accessedAt[r]}
           left == ix.listed \ V
<1>1. PICK h : SumsUp(h, Results, Size) /\ \A s \in SUBSET Results : BytesOf(s) = h[s]
  BY SizesAddUp
<1>2. ix.listed \in SUBSET Results /\ U \in SUBSET ix.listed /\ V \in SUBSET U /\ ix.listed = U \cup (ix.listed \cap ix.pinned)
  BY VictimsUnpinned DEF Indexes, Unpinned
<1>3. V = {r \in U : BytesOf(ix.listed) - BytesOf(older(r)) > EvictionTarget(cap)}
  BY DEF Victims, TotalBytes, BytesOf
<1> HIDE DEF V, U, older
<1>4. CASE U \subseteq V
  BY <1>2, <1>4 DEF Suffices, V
<1>5. CASE U \ V # {}
  <2>1. PICK r \in U \ V : \A s \in U \ V : ~(ix.accessedAt[s] < ix.accessedAt[r])
    <3>1. U \ V \in SUBSET Results
      BY <1>2
    <3> QED BY <1>5, <3>1, LeastUsed
  <2>2. older(r) \in SUBSET V
    BY <2>1 DEF older
  <2>3. ~(BytesOf(ix.listed) - BytesOf(older(r)) > EvictionTarget(cap))
    BY <1>3, <2>1
  <2>4. /\ older(r) \in SUBSET ix.listed /\ older(r) \in SUBSET Results
        /\ ix.listed \ older(r) \in SUBSET Results /\ left \in SUBSET (ix.listed \ older(r)) /\ left \in SUBSET Results
    BY <1>2, <2>2
  <2>5. PICK all \in Nat, old \in Nat, young \in Nat, rest \in Nat, more \in Nat :
            /\ all = BytesOf(ix.listed) /\ old = BytesOf(older(r)) /\ young = BytesOf(ix.listed \ older(r))
            /\ rest = BytesOf(left) /\ all = old + young /\ young = rest + more
    <3>1. \A s \in SUBSET Results : BytesOf(s) \in Nat
      BY <1>1 DEF SumsUp
    <3>0. IsFiniteSet(Results) /\ Size \in [Results -> Nat] /\ SumsUp(h, Results, Size)
      BY <1>1, StoreAssumption
    <3>5. \A A \in SUBSET Results : \A B \in SUBSET A : h[A] = h[B] + h[A \ B]
      <4> TAKE A \in SUBSET Results
      <4> TAKE B \in SUBSET A
      <4> QED BY <3>0, SumSplits
    <3>2. BytesOf(ix.listed) = BytesOf(older(r)) + BytesOf(ix.listed \ older(r))
      <4>1. h[ix.listed] = h[older(r)] + h[ix.listed \ older(r)]
        BY <1>2, <2>4, <3>5
      <4> QED BY <1>1, <1>2, <2>4, <4>1
    <3>3. BytesOf(ix.listed \ older(r)) = BytesOf(left) + BytesOf((ix.listed \ older(r)) \ left)
      <4>1. h[ix.listed \ older(r)] = h[left] + h[(ix.listed \ older(r)) \ left]
        BY <2>4, <3>5
      <4>2. (ix.listed \ older(r)) \ left \in SUBSET Results
        BY <2>4
      <4> QED BY <1>1, <2>4, <4>1, <4>2
    <3>4. (ix.listed \ older(r)) \ left \in SUBSET Results
      BY <2>4
    <3> QED BY <1>2, <2>4, <3>1, <3>2, <3>3, <3>4
  <2>6. EvictionTarget(cap) \in Nat
    BY DEF EvictionTarget
  <2>7. rest <= EvictionTarget(cap)
    BY <2>3, <2>5, <2>6
  <2> QED BY <2>5, <2>7 DEF Suffices, V
<1> QED BY <1>4, <1>5

LEMMA EvictStepInv == ASSUME SInv, EvictInv, [Next]_vars PROVE EvictInv'
<1> SUFFICES ASSUME why' = "evict" PROVE Suffices(index', doomed', maxBytes')
  BY DEF EvictInv
<1>1. CASE Record
  <2>1. PICK new : new = Used([index EXCEPT !.listed = @ \cup {renamed}], renamed)
    OBVIOUS
  <2>2. index' = new /\ doomed' = Victims(new, maxBytes) /\ doomed' # {} /\ maxBytes' = maxBytes
    BY <1>1, <2>1 DEF Record, Evict
  <2>3. new \in Indexes /\ maxBytes \in Nat
    BY <1>1, <2>2, RecordInv, StoreAssumption DEF SInv, TypeOK
  <2> QED BY <2>2, <2>3, VictimsSuffice
<1>2. ASSUME NEW cap \in Caps, setOptions(cap) PROVE Suffices(index', doomed', maxBytes')
  <2>1. maxBytes' = cap /\ doomed' = Victims(index, cap) /\ doomed' # {} /\ index' = index
    BY <1>2 DEF setOptions, Evict
  <2>2. index \in Indexes /\ cap \in Nat
    BY StoreAssumption DEF SInv, TypeOK
  <2> QED BY <2>1, <2>2, VictimsSuffice
<1>3. ASSUME NEW r \in Results, Deleted(r) PROVE Suffices(index', doomed', maxBytes')
  <2>1. /\ r \in doomed /\ doomed' = doomed \ {r} /\ why = "evict" /\ maxBytes' = maxBytes
        /\ index' = Without(index, r)
    BY <1>3 DEF Deleted, NextDoomed, Forget
  <2>2. index'.listed = index.listed \ {r} /\ index'.pinned = index.pinned \ {r}
    BY <2>1 DEF Without
  <2>3. index'.listed \ doomed' = index.listed \ doomed /\ r \notin index.listed \ doomed
    BY <2>1, <2>2
  <2>4. Suffices(index, doomed, maxBytes)
    BY <2>1 DEF EvictInv
  <2> QED BY <2>1, <2>2, <2>3, <2>4 DEF Suffices
<1>4. CASE UNCHANGED <<index, doomed, maxBytes, why>>
  BY <1>4 DEF EvictInv
<1>5. ASSUME NEW r \in Results, begin(r) \/ Describe(r) \/ abort(r) \/ Rename(r)
                                \/ (\E f \in Files : RemoveFile(r, f) \/ SweepResult(r, f)) \/ SweepTmp(r)
      PROVE  UNCHANGED <<index, doomed, maxBytes, why>>
  BY <1>5 DEF begin, Describe, abort, Rename, RemoveFile, SweepResult, SweepTmp, job
<1>6. ASSUME NEW r \in Results, delete(r) \/ pin(r) \/ unpin(r) PROVE FALSE
  BY <1>6 DEF delete, pin, unpin, Idle, job
<1>7. ASSUME NEW c \in Readers,
             openIdx(c) \/ openRows(c) \/ openFails(c) \/ (\E r \in Results : readMissing(c, r))
      PROVE  UNCHANGED <<index, doomed, maxBytes, why>>
  BY <1>7 DEF openIdx, openRows, openFails, readMissing, job
<1>8. ASSUME NEW c \in Readers, NEW r \in Results, readRows(c, r) PROVE FALSE
  BY <1>8 DEF readRows, Idle, job
<1>9. CASE Crash \/ loadIndex \/ Ready
  BY <1>9 DEF Crash, loadIndex, Ready, job, SInv, JobInv
<1>10. CASE UNCHANGED vars
  BY <1>4, <1>10 DEF vars, job
<1> QED BY <1>1, <1>2, <1>3, <1>4, <1>5, <1>6, <1>7, <1>8, <1>9, <1>10 DEF Next

LEMMA EvictInductive == Spec => []EvictInv
<1>1. Init => EvictInv
  BY DEF Init, EvictInv
<1>2. SInv /\ EvictInv /\ [Next]_vars => EvictInv'
  BY EvictStepInv
<1> QED BY <1>1, <1>2, StoreInductive, PTL DEF Spec

(* An eviction that runs to its end leaves no more than 90% of the cap, or *)
(* nothing but pinned results, whatever was used how often and however     *)
(* many files its deletions had to remove (results.ts:238-253).            *)
THEOREM EvictionIsEnough == Spec => EvictionSuffices
<1>1. ASSUME SInv, EvictInv, [Next]_vars, why = "evict", why' = "idle", run' = "up"
      PROVE  TotalBytes(index') <= EvictionTarget(maxBytes) \/ index'.listed \subseteq index'.pinned
  <2>1. PICK r \in Results : Deleted(r)
    BY <1>1 DEF Next, begin, Describe, abort, Rename, RemoveFile, SweepResult, SweepTmp, delete, pin, unpin, openIdx,
       openRows, openFails, readMissing, readRows, Idle, Record, setOptions, Crash, loadIndex, Ready, SInv, JobInv, job, vars
  <2>2. /\ r \in doomed /\ doomed' = doomed \ {r} /\ doomed' = {} /\ index' = Without(index, r)
    BY <1>1, <2>1 DEF Deleted, NextDoomed, Forget
  <2>3. index'.listed = index.listed \ doomed /\ index'.pinned = index.pinned \ {r}
    BY <2>2 DEF Without
  <2>4. Suffices(index, doomed, maxBytes)
    BY <1>1 DEF EvictInv
  <2>5. BytesOf(index'.listed) = TotalBytes(index')
    BY DEF TotalBytes, BytesOf
  <2> QED BY <2>2, <2>3, <2>4, <2>5 DEF Suffices
<1>2. [][SInv /\ EvictInv /\ [Next]_vars]_vars => EvictionSuffices
  <2>1. (SInv /\ EvictInv /\ [Next]_vars) =>
          (why = "evict" /\ why' = "idle" /\ run' = "up" =>
             TotalBytes(index') <= EvictionTarget(maxBytes) \/ index'.listed \subseteq index'.pinned)
    BY <1>1
  <2> QED BY <2>1, PTL DEF EvictionSuffices
<1> QED BY <1>2, StoreInductive, EvictInductive, PTL DEF Spec
=============================================================================
