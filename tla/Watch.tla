-------------------------------- MODULE Watch ------------------------------
(***************************************************************************)
(* The watcher of the connection files (daemon/src/watch.ts) and the reload*)
(* it calls for (main.ts, server.ts): one debounce timer for all files, and*)
(* a reload only if the file the timer stands for has changed content.     *)
(***************************************************************************)
EXTENDS Naturals

CONSTANTS Configs, Quiet, \* connection files; no timer
          MaxEdit         \* bound: edits of one file

ASSUME WatchAssumption == Quiet \notin Configs /\ MaxEdit \in Nat

VARIABLES
    content,    \* what each file holds
    watched,    \* files with a watcher
    digest,     \* what the watcher last saw
    known,      \* what the daemon has read
    timer,      \* the file the pending timer will look at
    overtaken   \* files whose event the timer has dropped for another's (history)

watchVars == <<content, watched, digest, known, timer, overtaken>>

WatchTypeOK ==
    /\ {content, digest, known} \subseteq [Configs -> 0..MaxEdit]
    /\ watched \subseteq Configs /\ timer \in Configs \cup {Quiet} /\ overtaken \subseteq Configs
    /\ timer # Quiet => timer \in watched
    /\ \A f \in watched : digest[f] <= content[f] /\ known[f] <= content[f]

WatchInit ==
    /\ content = [f \in Configs |-> 0] /\ digest = content /\ known = content
    /\ watched = {} /\ timer = Quiet /\ overtaken = {}

(* A workspace arrives: its file is read, then watched.                    *)
AddWatch(f) ==
    /\ f \notin watched /\ watched' = watched \cup {f}
    /\ digest' = [digest EXCEPT ![f] = content[f]] /\ known' = [known EXCEPT ![f] = content[f]]
    /\ UNCHANGED <<content, timer, overtaken>>

(* Mutant of Scheduled: an event within the debounce is ignored.           *)
ScheduledFirst(f) == IF timer = Quiet THEN f ELSE timer

(* schedule: the timer is replaced.                                        *)
Scheduled(f) == f

(* The directory is watched, and the name filtered.                        *)
Heard(f) == f \in watched

FileEvent(f) ==
    IF Heard(f)
    THEN /\ timer' = Scheduled(f)
         /\ overtaken' = IF timer \in {Quiet, Scheduled(f)} THEN overtaken ELSE overtaken \cup {timer}
    ELSE UNCHANGED <<timer, overtaken>>

EditFile(f) ==
    /\ content[f] < MaxEdit /\ content' = [content EXCEPT ![f] = @ + 1] /\ FileEvent(f)
    /\ UNCHANGED <<watched, digest, known>>

(* Saved without a change.                                                 *)
Touch(f) == FileEvent(f) /\ UNCHANGED <<content, watched, digest, known>>

(* reload: every file is read again.                                       *)
Reloaded(f) == [g \in Configs |-> IF g \in watched THEN content[g] ELSE known[g]]

TimerFires ==
    /\ timer # Quiet /\ timer' = Quiet
    /\ IF digest[timer] = content[timer] THEN UNCHANGED <<digest, known, overtaken>>
       ELSE /\ digest' = [digest EXCEPT ![timer] = content[timer]]
            /\ known' = Reloaded(timer)
            /\ overtaken' = {}
    /\ UNCHANGED <<content, watched>>

WatchNext == TimerFires \/ (\E f \in Configs : AddWatch(f) \/ EditFile(f) \/ Touch(f))

WatchFair == WF_watchVars(TimerFires)

WatchSpec == WatchInit /\ [][WatchNext]_watchVars /\ WatchFair

(* watch.ts:72-83: when the timer has fired, a watched file is stale only  *)
(* if its event was dropped for that of a file that had not changed.       *)
StaleOnlyWhenOvertaken ==
    timer = Quiet => \A f \in watched : known[f] # content[f] => f \in overtaken

(* Once edits stop, they are in force, with the same exception.            *)
EditsTakeEffect ==
    \A f \in Configs : f \in watched /\ known[f] # content[f] ~> known[f] = content[f] \/ f \in overtaken
=============================================================================
