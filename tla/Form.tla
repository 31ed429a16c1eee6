-------------------------------- MODULE Form -------------------------------
(***************************************************************************)
(* The connection form: the panel it lives in and what it saves            *)
(* (extension/src/connectionForm.ts, webview/connectionForm.ts).  A panel  *)
(* closes while calls for it are on their way, and another one opens.      *)
(***************************************************************************)
EXTENDS Naturals, Sequences, SequencesExt

CONSTANTS FormNames,   \* names that are typed into it
          MaxOpens,    \* bound: times it is opened, or shown again
          Submissions  \* bound: clicks on Save

ASSUME FormAssumption == MaxOpens \in Nat /\ FormNames # {}

VARIABLES
    panel,   \* the panel, by number; 0 for none
    panels,  \* panels so far
    ready,   \* its document has said so
    queued,  \* messages for it, until then
    page,    \* the document of the panel
    opens,   \* openings so far: the panel each is for, and how far it is
    saves,   \* saves[i]: a submission the host is dealing with
    entries, \* names in the connections file, in order
    listed,  \* names the daemon has read
    stored   \* names that have a password in the vault

formVars == <<panel, panels, ready, queued, page, opens, saves, entries, listed, stored>>

(* A message: what it is, and the panel whose request it answers.          *)
Messages == [type : {"bootstrap", "failed", "saved"}, of : 1..MaxOpens]
Blank == [loaded |-> FALSE, drawn |-> FALSE, kind |-> "none", banner |-> 0]
Unsent == [stage |-> "none", name |-> CHOOSE n \in FormNames : TRUE, password |-> FALSE, of |-> 0]

FormTypeOK ==
    /\ panels \in 0..MaxOpens /\ panel \in {0, panels} /\ ready \in BOOLEAN /\ queued \in Seq(Messages)
    /\ page \in [loaded : BOOLEAN, drawn : BOOLEAN, kind : {"none", "first", "other"}, banner : 0..MaxOpens]
    /\ opens \in BoundedSeq([of : 1..MaxOpens, stage : {"asked", "sent", "failed"}], MaxOpens)
    /\ saves \in [Submissions -> [stage : {"none", "asked", "free", "written", "reloaded", "stored", "over"},
                                  name : FormNames, password : BOOLEAN, of : 0..MaxOpens]]
    /\ entries \in Seq(FormNames) /\ listed \subseteq FormNames /\ stored \subseteq FormNames
    /\ ready => panel # 0 /\ page.loaded /\ queued = <<>>
    /\ panel = 0 => page = Blank

FormInit ==
    /\ panel = 0 /\ panels = 0 /\ ready = FALSE /\ queued = <<>> /\ page = Blank /\ opens = <<>>
    /\ saves = [i \in Submissions |-> Unsent] /\ entries = <<>> /\ listed = {} /\ stored = {}

(* apply(): a bootstrap is drawn with the first kind and the first scope,  *)
(* whatever had been chosen.                                               *)
apply(p, m) ==
    CASE m.type = "bootstrap" -> [p EXCEPT !.drawn = TRUE, !.kind = "first"]
      [] m.type = "failed" -> [p EXCEPT !.banner = m.of]
      [] OTHER -> [p EXCEPT !.banner = 0]

(* post(): queued until the document is ready, when there is no panel too; *)
(* a document that has not loaded hears nothing.                           *)
post(m) ==
    IF ready THEN page' = (IF page.loaded THEN apply(page, m) ELSE page) /\ UNCHANGED queued
    ELSE queued' = Append(queued, m) /\ UNCHANGED page

(* Mutant of ReadyAfter: the next document is taken to be ready.           *)
ReadyLatched == ready

(* onDidDispose: the next document says hello again.                       *)
ReadyAfter == FALSE

Dispose == panel' = 0 /\ page' = Blank /\ ready' = ReadyAfter /\ queued' = <<>>

(* open(): a panel if there is none, and a bootstrap is asked for.         *)
OpenForm ==
    /\ Len(opens) < MaxOpens
    /\ panels' = IF panel = 0 THEN panels + 1 ELSE panels
    /\ panel' = panels'
    /\ opens' = Append(opens, [of |-> panels', stage |-> "asked"])
    /\ UNCHANGED <<ready, queued, page, saves, entries, listed, stored>>

(* sendBootstrap() goes to the panel that is open by now, if any.          *)
SendBootstrap(k) ==
    /\ opens[k].stage = "asked" /\ opens' = [opens EXCEPT ![k].stage = "sent"]
    /\ post([type |-> "bootstrap", of |-> opens[k].of])
    /\ UNCHANGED <<panel, panels, ready, saves, entries, listed, stored>>

(* The daemon cannot be reached: open() throws.                            *)
BootstrapFails(k) ==
    /\ opens[k].stage = "asked" /\ opens' = [opens EXCEPT ![k].stage = "failed"]
    /\ UNCHANGED <<panel, panels, ready, queued, page, saves, entries, listed, stored>>

(* The document loads and says ready; what was queued is posted.           *)
DocumentReady ==
    /\ panel # 0 /\ ~page.loaded
    /\ ready' = TRUE /\ queued' = <<>>
    /\ page' = FoldLeft(apply, [page EXCEPT !.loaded = TRUE], queued)
    /\ UNCHANGED <<panel, panels, opens, saves, entries, listed, stored>>

PickKind ==
    /\ page.drawn /\ page.kind = "first" /\ page' = [page EXCEPT !.kind = "other"]
    /\ UNCHANGED <<panel, panels, ready, queued, opens, saves, entries, listed, stored>>

(* submit(): the button is never disabled.                                 *)
Submit(i, n, password) ==
    /\ page.drawn /\ saves[i].stage = "none"
    /\ saves' = [saves EXCEPT ![i] = [stage |-> "asked", name |-> n, password |-> password, of |-> panel]]
    /\ UNCHANGED <<panel, panels, ready, queued, page, opens, entries, listed, stored>>

CloseForm ==
    /\ panel # 0 /\ Dispose /\ UNCHANGED <<panels, opens, saves, entries, listed, stored>>

At(i, stage) == saves[i].stage = stage
Goes(i, stage) == saves' = [saves EXCEPT ![i].stage = stage]
Refused(i) == Goes(i, "over") /\ post([type |-> "failed", of |-> saves[i].of])

(* listConnections, and validateSubmission of what it answered.            *)
Validate(i) ==
    /\ At(i, "asked")
    /\ \/ saves[i].name \notin listed /\ Goes(i, "free") /\ UNCHANGED <<queued, page>>
       \/ Refused(i)
    /\ UNCHANGED <<panel, panels, ready, opens, entries, listed, stored>>

(* appendConnection, which may not be able to write.                       *)
AppendEntry(i) ==
    /\ At(i, "free")
    /\ \/ Goes(i, "written") /\ entries' = Append(entries, saves[i].name) /\ UNCHANGED <<queued, page>>
       \/ Refused(i) /\ UNCHANGED entries
    /\ UNCHANGED <<panel, panels, ready, opens, listed, stored>>

(* reloadConnections: when it fails the form says that the save did.       *)
ReloadEntries(i) ==
    /\ At(i, "written")
    /\ \/ Goes(i, "reloaded") /\ listed' = ToSet(entries) /\ UNCHANGED <<queued, page>>
       \/ Refused(i) /\ UNCHANGED listed
    /\ UNCHANGED <<panel, panels, ready, opens, entries, stored>>

(* The daemon's own watch on the file.                                     *)
WatcherReads ==
    /\ listed # ToSet(entries) /\ listed' = ToSet(entries)
    /\ UNCHANGED <<panel, panels, ready, queued, page, opens, saves, entries, stored>>

(* setSecret, whose failure is a warning.                                  *)
StorePassword(i) ==
    /\ At(i, "reloaded") /\ Goes(i, "stored")
    /\ \/ saves[i].password /\ saves[i].name \in listed /\ stored' = stored \cup {saves[i].name}
       \/ UNCHANGED stored
    /\ UNCHANGED <<panel, panels, ready, queued, page, opens, entries, listed>>

(* The panel that is open by now is closed, whoever filled it in.          *)
SaveOver(i) ==
    /\ At(i, "stored") /\ Goes(i, "over")
    /\ IF panel # 0 THEN Dispose ELSE post([type |-> "saved", of |-> saves[i].of]) /\ UNCHANGED <<panel, ready>>
    /\ UNCHANGED <<panels, opens, entries, listed, stored>>

SaveMoves(i) == Validate(i) \/ AppendEntry(i) \/ ReloadEntries(i) \/ StorePassword(i) \/ SaveOver(i)
Answered(k) == SendBootstrap(k) \/ BootstrapFails(k)

FormNext ==
    \/ OpenForm \/ DocumentReady \/ PickKind \/ CloseForm \/ WatcherReads
    \/ \E k \in DOMAIN opens : Answered(k)
    \/ \E i \in Submissions :
           SaveMoves(i) \/ \E n \in FormNames, password \in BOOLEAN : Submit(i, n, password)

(* Documents load, and every call is answered or fails.                    *)
FormFair ==
    /\ WF_formVars(DocumentReady)
    /\ \A k \in 1..MaxOpens : WF_formVars(k \in DOMAIN opens /\ Answered(k))
    /\ \A i \in Submissions : WF_formVars(SaveMoves(i))

FormSpec == FormInit /\ [][FormNext]_formVars /\ FormFair

(* connectionForm.ts:111-113: a password is under a name only if an entry  *)
(* has it, whichever of the calls of a save fails.                         *)
PasswordsHaveEntries == stored \subseteq listed /\ listed \subseteq ToSet(entries)

(* The form's invariants: its types, and the one above.                    *)
FormSafe == FormTypeOK /\ PasswordsHaveEntries

(* connectionForm.ts:150-156: "Latching this would leave a reopened form   *)
(* never receiving its bootstrap": a panel is drawn unless it closes first,*)
(* or the daemon could not be reached.                                     *)
FormsAreDrawn ==
    \A p \in 1..MaxOpens :
        panel = p ~> \/ panel # p \/ page.drawn
                     \/ \E k \in DOMAIN opens : opens[k] = [of |-> p, stage |-> "failed"]

(* connectionEntry.ts:61-62: that a name is taken is "caught here rather   *)
(* than by the daemon, which would load the file and have one of the two   *)
(* entries silently win".                                                  *)
NoNameIsSavedTwice == IsInjective(entries)
=============================================================================
