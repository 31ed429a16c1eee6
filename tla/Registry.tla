------------------------------ MODULE Registry -----------------------------
(***************************************************************************)
(* The connections files: read by the daemon's registry (connections.ts),  *)
(* edited by hand and by the editor's windows (extension/src/              *)
(* connectionsFile.ts, connectionForm.ts, wizard.ts), and shown by windows *)
(* that remember an active connection (session.ts).  A window is a process *)
(* of its own, and a file is rewritten by truncating it first.             *)
(***************************************************************************)
EXTENDS Naturals, Sequences, SequencesExt, FiniteSets

CONSTANTS Entries,   \* names of connections
          Editors,   \* windows
          NoName,
          MaxEntries,\* bound: entries of a file a window still adds to
          Edited     \* bound: the files that are edited

Files == {"global", "workspace"}

ASSUME RegistryAssumption == NoName \notin Entries /\ MaxEntries \in Nat /\ Edited \subseteq Files

VARIABLES
    file,     \* file[f]: does it parse, and its entries
    loaded,   \* loaded[f]: the connections of the registry
    problems, \* files with a load problem
    editor,   \* editor[w]: a change a window is making
    active    \* active[w]: the connection the window remembers

registryVars == <<file, loaded, problems, editor, active>>

Lists == UNION {[1..l -> Entries] : l \in 0..(MaxEntries + 1)}
Contents == [ok : BOOLEAN, entries : Lists]
Unbroken == [ok |-> TRUE, entries |-> <<>>]
Truncated == [ok |-> FALSE, entries |-> <<>>]
NoEdit == [stage |-> "idle", op |-> "none", name |-> NoName, file |-> "global", found |-> Unbroken, doc |-> <<>>, lost |-> {}]

Distinct(list) == FoldLeft(LAMBDA seen, n : IF n \in ToSet(seen) THEN seen ELSE Append(seen, n), <<>>, list)

(* load(): what does not parse is empty, and of two entries of a name the  *)
(* first wins.                                                             *)
load(content) == IF content.ok THEN Distinct(content.entries) ELSE <<>>

Problem(content) == ~content.ok \/ Distinct(content.entries) # content.entries

(* visible(): the workspace's definition wins, in the place of the global. *)
visible(registry) == Distinct(registry["global"] \o registry["workspace"])

RegistryTypeOK ==
    /\ file \in [Files -> Contents]
    /\ \A f \in Files : loaded[f] \in Lists
    /\ problems \subseteq Files
    /\ \A w \in Editors :
           /\ editor[w].stage \in {"idle", "asked", "read", "truncated", "written"}
           /\ editor[w].stage = "idle" => editor[w] = NoEdit
           /\ active[w] \in Entries \cup {NoName}

RegistryInit ==
    /\ file \in [Files -> {Unbroken} \cup {[ok |-> TRUE, entries |-> <<n>>] : n \in Entries}]
    /\ loaded = [f \in Files |-> load(file[f])] /\ problems = {}
    /\ editor = [w \in Editors |-> NoEdit] /\ active = [w \in Editors |-> NoName]

(* update(): a remembered connection that is gone gives way to the first,  *)
(* and a connection that is the only one is picked.                        *)
ActiveAfter(a, list) ==
    IF a # NoName /\ a \notin ToSet(list) THEN (IF list = <<>> THEN NoName ELSE list[1])
    ELSE IF a = NoName /\ Len(list) = 1 THEN list[1] ELSE a

Reread == [f \in Files |-> load(file[f])]

ProblemsNow == {f \in Files : Problem(file[f])}

(* reloadAll(), and the list every window is sent.                         *)
Reloading(chosen) ==
    /\ loaded' = Reread /\ problems' = ProblemsNow
    /\ active' = [w \in Editors |-> ActiveAfter(chosen[w], visible(Reread))]

(* The watcher, or the command.                                            *)
ReloadFiles ==
    /\ Reread # loaded \/ ProblemsNow # problems
    /\ Reloading(active) /\ UNCHANGED <<file, editor>>

(* save(), its names checked against the daemon's; editConnectionOption()  *)
(* and removeConnection() of one the window lists, in the file it is from. *)
AskEdit(w, op, n, f) ==
    /\ editor[w].stage = "idle" /\ f \in Edited
    /\ IF op = "add" THEN n \notin ToSet(visible(loaded))
       ELSE n \in ToSet(visible(loaded)) /\ f = IF n \in ToSet(loaded["workspace"]) THEN "workspace" ELSE "global"
    /\ editor' = [editor EXCEPT ![w] = [NoEdit EXCEPT !.stage = "asked", !.op = op, !.name = n, !.file = f]]
    /\ UNCHANGED <<file, loaded, problems, active>>

(* Mutant of Refuses: a file that does not parse is as good as empty.      *)
RefusesMissing(e, content) == e.op = "update" /\ e.name \notin ToSet(content.entries)

(* What cannot be found is not changed; what does not parse is only added  *)
(* to.                                                                     *)
Refuses(e, content) == e.op # "add" /\ (~content.ok \/ e.name \notin ToSet(content.entries))

(* Every entry of the name goes.                                           *)
Removed(list, name) == FoldLeft(LAMBDA left, n : IF n = name THEN left ELSE Append(left, n), <<>>, list)

Rewritten(e, content) ==
    LET entries == IF content.ok THEN content.entries ELSE <<>> IN
    CASE e.op = "add" -> Append(entries, e.name)
      [] e.op = "remove" -> Removed(entries, e.name)
      [] OTHER -> entries

ReadFile(w) ==
    LET e == editor[w]
        content == file[e.file]
    IN  /\ e.stage = "asked" /\ Len(content.entries) <= MaxEntries
        /\ editor' = [editor EXCEPT ![w] = IF Refuses(e, content) THEN NoEdit
                          ELSE [e EXCEPT !.stage = "read", !.found = content, !.doc = Rewritten(e, content)]]
        /\ UNCHANGED <<file, loaded, problems, active>>

(* History: the entries a rewrite drops that nobody asked it to, unless    *)
(* another process has written the file since it was read, or the form adds*)
(* to a file that did not parse.                                           *)
LostEntries(e, content) ==
    IF content # e.found \/ (e.op = "add" /\ ~content.ok) THEN {}
    ELSE ToSet(content.entries) \ (ToSet(e.doc) \cup (IF e.op = "remove" THEN {e.name} ELSE {}))

(* writeFileSync: open with truncation, then write.                        *)
TruncateFile(w) ==
    /\ editor[w].stage = "read"
    /\ editor' = [editor EXCEPT ![w] =
          [@ EXCEPT !.stage = "truncated", !.found = Unbroken, !.lost = LostEntries(editor[w], file[editor[w].file])]]
    /\ file' = [file EXCEPT ![editor[w].file] = Truncated]
    /\ UNCHANGED <<loaded, problems, active>>

WriteFile(w) ==
    /\ editor[w].stage = "truncated"
    /\ editor' = [editor EXCEPT ![w] = [@ EXCEPT !.stage = "written", !.doc = <<>>, !.lost = {}]]
    /\ file' = [file EXCEPT ![editor[w].file] = [ok |-> TRUE, entries |-> editor[w].doc]]
    /\ UNCHANGED <<loaded, problems, active>>

(* reloadConnections, and onSaved for what the form has added.             *)
Saved(w) ==
    /\ editor[w].stage = "written"
    /\ editor' = [editor EXCEPT ![w] = NoEdit]
    /\ Reloading(IF editor[w].op = "add" THEN [active EXCEPT ![w] = editor[w].name] ELSE active)
    /\ UNCHANGED file

(* pick().                                                                 *)
PickActive(w, n) ==
    /\ n \in ToSet(visible(loaded)) \ {active[w]}
    /\ active' = [active EXCEPT ![w] = n] /\ UNCHANGED <<file, loaded, problems, editor>>

(* External: somebody breaks a file by hand, or mends it.                  *)
HandEdit(f) ==
    /\ f \in Edited
    /\ \A w \in Editors : editor[w].file = f => editor[w].stage # "truncated"
    /\ file' = [file EXCEPT ![f].ok = ~@] /\ UNCHANGED <<loaded, problems, editor, active>>

RegistryNext ==
    \/ ReloadFiles
    \/ \E w \in Editors :
           \/ ReadFile(w) \/ TruncateFile(w) \/ WriteFile(w) \/ Saved(w)
           \/ \E n \in Entries : PickActive(w, n)
           \/ \E op \in {"add", "update", "remove"}, n \in Entries, f \in Files : AskEdit(w, op, n, f)
    \/ \E f \in Files : HandEdit(f)

RegistrySpec == RegistryInit /\ [][RegistryNext]_registryVars

(* connectionsFile.ts:28-32, 83-86: nothing but the entry that was to go   *)
(* goes, unless another process wrote the file in between, or the form     *)
(* added to a file that did not parse.                                     *)
OnlyTheNamedEntryGoes == \A w \in Editors : editor[w].lost = {}

(* session.ts:41-43: what the status bar names exists.                     *)
ActiveExists == \A w \in Editors : active[w] # NoName => active[w] \in ToSet(visible(loaded))

(* An edit takes nobody else's entry, and what a window names exists       *)
(* (connectionsFile.ts:24-90, session.ts:41-43).                           *)
RegistrySafe == RegistryTypeOK /\ OnlyTheNamedEntryGoes /\ ActiveExists
=============================================================================
