------------------------------- MODULE Shell -------------------------------
(***************************************************************************)
(* `dbrex shell` (cli/src/shell.ts): lines are chained behind one another, *)
(* a statement runs once a line ends it, and the session ends with \q or   *)
(* with the end of its input.                                              *)
(***************************************************************************)
EXTENDS Naturals, Sequences

CONSTANTS MaxLines,     \* bound: lines that are typed or piped in
          MaxPerLine    \* bound: statements between two lines that end with a ;

ASSUME ShellAssumption == MaxLines \in Nat /\ MaxPerLine \in Nat

VARIABLES
    typed,      \* lines so far
    work,       \* lines behind the one being handled, and what they are to run on
    pending,    \* lines of the statement being typed
    connection, \* the connection the shell is on
    executing,  \* statements left of the line being handled, 0 for none
    prompting,  \* a password prompt waits for a line
    quit,       \* \q has been handled
    ended,      \* readline has closed
    finished,   \* runShell has returned
    owed,       \* statements a line has ended and nobody has run (history)
    typing,     \* the shell as who types sees it: after every line so far (history)
    meant       \* the connection the line being handled was typed for (history)

shellVars == <<typed, work, pending, connection, executing, prompting, quit, ended, finished, owed, typing, meant>>

(* A line: text, text that a ; ends, \q, or \c with a connection.          *)
Connections == {"one", "two"}
Lines == {"text", "ended", "quit"} \cup Connections

ShellTypeOK ==
    /\ typed \in 0..MaxLines /\ Len(work) + pending <= typed
    /\ work \in Seq([line : Lines, on : Connections])
    /\ connection \in Connections /\ meant \in Connections /\ prompting \in BOOLEAN
    /\ executing \in 0..MaxPerLine /\ owed \in 0..MaxLines
    /\ quit \in BOOLEAN /\ ended \in BOOLEAN /\ finished \in BOOLEAN
    /\ typing \in [amid : BOOLEAN, on : Connections]
    /\ executing # 0 => pending = 0

ShellInit ==
    /\ typed = 0 /\ work = <<>> /\ pending = 0 /\ connection = "one" /\ executing = 0 /\ prompting = FALSE
    /\ quit = FALSE /\ ended = FALSE /\ finished = FALSE
    /\ owed = 0 /\ typing = [amid |-> FALSE, on |-> "one"] /\ meant = "one"

(* A meta-command is one only at the start of a statement.                 *)
IsQuit(l, amid) == l = "quit" /\ ~amid
IsSwitch(l, amid) == l \in Connections /\ ~amid
IsMeta(l, amid) == IsQuit(l, amid) \/ IsSwitch(l, amid)

(* 'line': a statement may be running, and somebody may have quit.         *)
Type(l) ==
    /\ ~ended /\ ~prompting /\ typed < MaxLines /\ typed' = typed + 1
    /\ work' = Append(work, [line |-> l, on |-> typing.on])
    /\ owed' = IF l = "ended" THEN owed + 1 ELSE owed
    /\ typing' = [amid |-> ~IsMeta(l, typing.amid) /\ l # "ended",
                  on |-> IF IsSwitch(l, typing.amid) THEN l ELSE typing.on]
    /\ UNCHANGED <<pending, connection, executing, prompting, quit, ended, finished, meant>>

(* askHiddenOn, for a statement or a completion: a question on the same    *)
(* readline, which fails once that has closed.  The next line answers it,  *)
(* whatever it was typed for, even when nobody needs the answer by then.   *)
AskPassword ==
    /\ ~ended /\ ~prompting /\ prompting' = TRUE
    /\ UNCHANGED <<typed, work, pending, connection, executing, quit, ended, finished, owed, typing, meant>>

AnswerPassword ==
    /\ ~ended /\ prompting /\ typed < MaxLines /\ typed' = typed + 1 /\ prompting' = FALSE
    /\ UNCHANGED <<work, pending, connection, executing, quit, ended, finished, owed, typing, meant>>

(* Mutant of Ready: a line is looked at while a statement runs.            *)
ReadyAtOnce == work # <<>>

Ready == work # <<>> /\ executing = 0

(* handle(): a line is looked at when the one before is done with; nothing *)
(* behind \q is.                                                           *)
HandleLine ==
    LET l == Head(work).line
        amid == pending > 0
    IN  /\ Ready /\ ~finished /\ work' = Tail(work) /\ meant' = Head(work).on
        /\ \/ /\ quit /\ UNCHANGED <<pending, connection, executing, quit, ended>>
           \/ /\ ~quit /\ IsQuit(l, amid) /\ quit' = TRUE /\ ended' = TRUE
              /\ UNCHANGED <<pending, connection, executing>>
           \/ /\ ~quit /\ IsSwitch(l, amid) /\ connection' = l
              /\ UNCHANGED <<pending, executing, quit, ended>>
           \/ /\ ~quit /\ ~IsMeta(l, amid) /\ l # "ended" /\ pending' = pending + 1
              /\ UNCHANGED <<connection, executing, quit, ended>>
           \/ /\ ~quit /\ l = "ended" /\ pending' = 0 /\ executing' \in 0..MaxPerLine
              /\ UNCHANGED <<connection, quit, ended>>
        /\ owed' = IF l = "ended" /\ executing' = 0 THEN owed - 1 ELSE owed
        /\ UNCHANGED <<typed, prompting, finished, typing>>

(* execute(): rows, or the error is printed; the next statement is up.     *)
Ran ==
    /\ executing > 0 /\ executing' = executing - 1
    /\ owed' = IF executing = 1 THEN owed - 1 ELSE owed
    /\ UNCHANGED <<typed, work, pending, connection, prompting, quit, ended, finished, typing, meant>>

(* Ctrl-D, or the end of the pipe.                                         *)
InputEnds ==
    /\ ~ended /\ ended' = TRUE
    /\ UNCHANGED <<typed, work, pending, connection, executing, prompting, quit, finished, owed, typing, meant>>

(* Mutant of Drained: nothing is waited for.                               *)
DrainedAtOnce == TRUE

Drained == work = <<>> /\ executing = 0

Finish ==
    /\ ended /\ ~finished /\ Drained /\ finished' = TRUE
    /\ UNCHANGED <<typed, work, pending, connection, executing, prompting, quit, ended, owed, typing, meant>>

ShellNext ==
    \/ \E l \in Lines : Type(l)
    \/ AskPassword \/ AnswerPassword \/ HandleLine \/ Ran \/ InputEnds \/ Finish

(* Promises run, and statements end: a prompt nobody answers has a deadline*)
(* at the daemon (Broker).                                                 *)
ShellFair == WF_shellVars(HandleLine) /\ WF_shellVars(Ran) /\ WF_shellVars(Finish)

ShellSpec == ShellInit /\ [][ShellNext]_shellVars /\ ShellFair

(* shell.ts:97-100: the end of the input drops no statement that a line    *)
(* has ended, whatever became of the ones before it, except for the line   *)
(* that a password prompt took.                                            *)
NothingPipedIsLost == finished => owed = 0

(* shell.ts:87-88: "chained so a statement finishes before the next line is*)
(* looked at": it runs on the connection of the last \c typed before it.   *)
StatementsRunWhereTyped == executing > 0 => connection = meant

(* The shell's invariants: its types, and the two above.                   *)
ShellSafe == ShellTypeOK /\ NothingPipedIsLost /\ StatementsRunWhereTyped

(* shell.ts:101-107: a session whose input has ended is over in the end.   *)
ShellEnds == ended ~> finished
=============================================================================
