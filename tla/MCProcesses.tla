----------------------------- MODULE MCProcesses ---------------------------
(* The processes around the daemon: its own starts and stops, a client of  *)
(* it, the watch on its files, its log, a shell that is piped into, the    *)
(* form a window opens, and who a window or an agent's bridge speaks for.  *)
(* They are explored one after the other: `part` is the one that moves.    *)
EXTENDS Daemon, Client, Watch, Log, Shell, Form, Window

VARIABLE part

Parts == {"daemon", "client", "watch", "log", "shell", "form", "window"}

(* A part that stays still does so in one initial state.                   *)
ProcessesInit ==
    /\ part \in Parts
    /\ DaemonInit /\ ClientInit /\ WatchInit /\ LogInit /\ ShellInit /\ FormInit /\ WindowInit
    /\ side = "bridge" => part = "window"
    /\ part # "log" => oldLogs = <<>> /\ level = "info"

ProcessesNext ==
    \/ /\ part = "daemon" /\ DaemonNext
       /\ UNCHANGED <<part, clientVars, watchVars, logVars, shellVars, formVars, windowVars>>
    \/ /\ part = "client" /\ ClientNext
       /\ UNCHANGED <<part, daemonVars, watchVars, logVars, shellVars, formVars, windowVars>>
    \/ /\ part = "watch" /\ WatchNext
       /\ UNCHANGED <<part, daemonVars, clientVars, logVars, shellVars, formVars, windowVars>>
    \/ /\ part = "log" /\ LogNext
       /\ UNCHANGED <<part, daemonVars, clientVars, watchVars, shellVars, formVars, windowVars>>
    \/ /\ part = "shell" /\ ShellNext
       /\ UNCHANGED <<part, daemonVars, clientVars, watchVars, logVars, formVars, windowVars>>
    \/ /\ part = "form" /\ FormNext
       /\ UNCHANGED <<part, daemonVars, clientVars, watchVars, logVars, shellVars, windowVars>>
    \/ /\ part = "window" /\ WindowNext
       /\ UNCHANGED <<part, daemonVars, clientVars, watchVars, logVars, shellVars, formVars>>

processesVars == <<part, daemonVars, clientVars, watchVars, logVars, shellVars, formVars, windowVars>>

(* Nothing fair is enabled in a part that stays still.                     *)
ProcessesSpec ==
    /\ ProcessesInit /\ [][ProcessesNext]_processesVars
    /\ DaemonFair /\ ClientFair /\ WatchFair /\ LogFair /\ ShellFair /\ FormFair

(* What is handed over is not lost: lines piped into a shell, lines of the *)
(* log, what a form saves (shell.ts:97-107, log.ts:64-83,                  *)
(* connectionForm.ts:109-125).                                             *)
HandedOverSafe == ShellSafe /\ LogSafe /\ FormSafe

(* What was begun comes to an end: a start, a call, a shell whose input is *)
(* over, a drain of the log; an edit is in force, a form is drawn; an      *)
(* abandoned daemon exits (spawn.ts:45-75, index.ts:186-208,               *)
(* shell.ts:97-107, log.ts:64-70, watch.ts:72-83, connectionForm.ts:150-156*)
(* and main.ts:188-197).                                                   *)
EverythingSettles ==
    /\ SpawnSettles /\ AbandonedDaemonsExit /\ CallsSettle /\ EditsTakeEffect /\ ShellEnds
    /\ DrainsEnd /\ FormsAreDrawn
=============================================================================
