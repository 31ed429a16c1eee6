-------------------------------- MODULE Log --------------------------------
(***************************************************************************)
(* The daemon's log (daemon/src/log.ts): lines are queued, one append is   *)
(* on its way at a time, and a stop drains what is left (main.ts:209).     *)
(* Opening the log sweeps the files of earlier days.                       *)
(***************************************************************************)
EXTENDS Naturals, Sequences, SequencesExt, Folds

CONSTANTS LogLevels,  \* bound: levels that are written and set
          MaxLogged,  \* bound: lines
          OldFiles,   \* bound: files the sweep finds
          FileBytes,  \* bound: their sizes
          LogMaxBytes \* logMaxBytes

ORDER == [debug |-> 10, info |-> 20, warn |-> 30, error |-> 40]

ASSUME LogAssumption ==
    LogLevels \subseteq DOMAIN ORDER /\ MaxLogged \in Nat /\ OldFiles \in Nat /\ FileBytes \subseteq Nat /\ LogMaxBytes \in Nat

VARIABLES
    oldLogs,   \* files of earlier days, oldest first: is one too old, its size
    swept,     \* what became of them: none before the log is opened
    level,     \* options.level
    logged,    \* lines so far; a line is its number
    backlog,   \* queue: lines queued
    appending, \* the batch that is being appended, if any
    onDisk,    \* lines in the file
    unwritten, \* lines of an append that failed (history)
    draining   \* how far a drain is

logVars == <<oldLogs, swept, level, logged, backlog, appending, onDisk, unwritten, draining>>

LogFiles == [old : BOOLEAN, size : FileBytes]
Unopened == [open |-> FALSE, kept |-> <<>>, stuck |-> {}]

flushing == appending # <<>>

LogTypeOK ==
    /\ oldLogs \in BoundedSeq(LogFiles, OldFiles)
    /\ swept.open \in BOOLEAN /\ swept.kept \in Seq(LogFiles) /\ swept.stuck \subseteq DOMAIN oldLogs
    /\ level \in LogLevels /\ logged \in 0..MaxLogged
    /\ backlog \in Seq(1..logged) /\ appending \in Seq(1..logged) /\ onDisk \in Seq(1..logged)
    /\ unwritten \subseteq 1..logged
    /\ draining \in {"no", "loop", "append", "sleep", "done"}
    /\ draining = "append" => flushing

(* Sorted by mtime: what is too old comes first.                           *)
ByAge(files) == \A i, j \in DOMAIN files : i < j /\ files[j].old => files[i].old

LogInit ==
    /\ oldLogs \in {files \in BoundedSeq(LogFiles, OldFiles) : ByAge(files)}
    /\ swept = Unopened /\ level \in LogLevels /\ logged = 0
    /\ backlog = <<>> /\ appending = <<>> /\ onDisk = <<>> /\ unwritten = {} /\ draining = "no"

Bytes(files) == FoldLeft(LAMBDA total, f : total + f.size, 0, files)

(* One turn of the sweep's loop: it is over at a file that is neither too  *)
(* old nor too much; one that cannot be unlinked still counts.             *)
Unlinks(s, f, ok) ==
    IF s.stop \/ (~f.old /\ s.total <= LogMaxBytes) THEN [s EXCEPT !.stop = TRUE, !.kept = Append(@, f)]
    ELSE IF ok THEN [s EXCEPT !.total = @ - f.size]
    ELSE [s EXCEPT !.kept = Append(@, f)]

(* sweep(): what it leaves of these files, oldest first.                   *)
sweep(files, stuck) ==
    FoldLeft(LAMBDA s, i : Unlinks(s, files[i], i \notin stuck),
             [stop |-> FALSE, kept |-> <<>>, total |-> Bytes(files)], [i \in DOMAIN files |-> i]).kept

OpenLog(stuck) ==
    /\ ~swept.open /\ stuck \subseteq DOMAIN oldLogs
    /\ swept' = [open |-> TRUE, kept |-> sweep(oldLogs, stuck), stuck |-> stuck]
    /\ UNCHANGED <<oldLogs, level, logged, backlog, appending, onDisk, unwritten, draining>>

(* flush() of these lines: nothing while an append is on its way.          *)
flush(lines) ==
    IF flushing \/ lines = <<>> THEN backlog' = lines /\ UNCHANGED appending
    ELSE appending' = lines /\ backlog' = <<>>

(* write(): a line below the level is none.                                *)
WriteLine(l) ==
    /\ swept.open /\ draining # "done" /\ logged < MaxLogged
    /\ ORDER[l] >= ORDER[level]
    /\ logged' = logged + 1 /\ flush(Append(backlog, logged + 1))
    /\ UNCHANGED <<oldLogs, swept, level, onDisk, unwritten, draining>>

SetLevel(l) ==
    /\ swept.open /\ draining = "no" /\ l # level /\ level' = l
    /\ UNCHANGED <<oldLogs, swept, logged, backlog, appending, onDisk, unwritten, draining>>

(* Mutant of LeftQueued: the backlog is emptied when the append is over.     *)
LeftQueuedNone == <<>>

(* What is queued when an append is over waits for the next write, or for  *)
(* the drain.                                                              *)
LeftQueued == backlog

(* The append is over; a failed one is dropped on purpose.                 *)
Appended(ok) ==
    /\ flushing /\ appending' = <<>> /\ backlog' = LeftQueued
    /\ onDisk' = IF ok THEN onDisk \o appending ELSE onDisk
    /\ unwritten' = IF ok THEN unwritten ELSE unwritten \cup ToSet(appending)
    /\ draining' = IF draining = "append" THEN "loop" ELSE draining
    /\ UNCHANGED <<oldLogs, swept, level, logged>>

StopLog ==
    /\ swept.open /\ draining = "no" /\ draining' = "loop"
    /\ UNCHANGED <<oldLogs, swept, level, logged, backlog, appending, onDisk, unwritten>>

(* drain(): its own append is waited for, another's is polled for.         *)
Drain ==
    /\ draining = "loop" /\ flush(backlog)
    /\ draining' = IF flushing THEN "sleep" ELSE IF backlog # <<>> THEN "append" ELSE "done"
    /\ UNCHANGED <<oldLogs, swept, level, logged, onDisk, unwritten>>

DrainAgain ==
    /\ draining = "sleep" /\ draining' = "loop"
    /\ UNCHANGED <<oldLogs, swept, level, logged, backlog, appending, onDisk, unwritten>>

LogNext ==
    \/ \E stuck \in SUBSET DOMAIN oldLogs : OpenLog(stuck)
    \/ \E l \in LogLevels : WriteLine(l) \/ SetLevel(l)
    \/ \E ok \in BOOLEAN : Appended(ok)
    \/ StopLog \/ Drain \/ DrainAgain

(* Appends end, one way or another, and timers fire.                       *)
LogFair == WF_logVars(\E ok \in BOOLEAN : Appended(ok)) /\ WF_logVars(Drain) /\ WF_logVars(DrainAgain)

LogSpec == LogInit /\ [][LogNext]_logVars /\ LogFair

(* log.ts:64-83: every line but those of a failed append is on disk, on its*)
(* way or queued, once and in the order they were written.                 *)
LinesKeepTheirOrder ==
    LET lines == onDisk \o appending \o backlog
    IN  /\ ToSet(lines) = (1..logged) \ unwritten
        /\ \A i, j \in DOMAIN lines : i < j => lines[i] < lines[j]

(* log.ts:64-70: once a drain is over nothing is left behind.              *)
DrainedLogsAreEmpty == draining = "done" => backlog = <<>> /\ ~flushing

(* log.ts:90-114: what the sweep keeps are the newest files within age and *)
(* size, and no fewer, unless one could not be unlinked.                   *)
Fits(files) == Bytes(files) <= LogMaxBytes /\ \A i \in DOMAIN files : ~files[i].old
SweepKeepsTheNewest ==
    swept.open /\ swept.stuck = {} =>
        \E n \in 0..Len(oldLogs) :
            /\ swept.kept = SubSeq(oldLogs, n + 1, Len(oldLogs)) /\ Fits(swept.kept)
            /\ n > 0 => ~Fits(SubSeq(oldLogs, n, Len(oldLogs)))

(* The log's invariants: its types, and the three above.                   *)
LogSafe == LogTypeOK /\ LinesKeepTheirOrder /\ DrainedLogsAreEmpty /\ SweepKeepsTheNewest

(* log.ts:64-70: a drain comes to an end, whatever is still being written. *)
DrainsEnd == draining = "loop" ~> draining = "done"
=============================================================================
