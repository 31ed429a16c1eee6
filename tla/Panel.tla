-------------------------------- MODULE Panel ------------------------------
(***************************************************************************)
(* The results panel of the editor: running statements and cancelling them *)
(* (extension/src/editor.ts), the panel and its two lanes (panel.ts), and  *)
(* the document in the webview (extension/webview/main.ts), which asks the *)
(* host for the rows it draws.  A result is named by the run it is of.     *)
(***************************************************************************)
EXTENDS Naturals, Sequences, SequencesExt

CONSTANTS Mine,     \* runs of the person
          Agents,   \* results an agent shows
          NoRun,
          MaxQueued \* bound: messages posted before the document is ready

ASSUME PanelAssumption == NoRun \notin Mine \cup Agents /\ Mine \cap Agents = {} /\ MaxQueued \in Nat

VARIABLES
    doing,     \* doing[x]: a run of the person
    running,   \* this.running: the run Cancel names
    cancels,   \* runs the daemon was told to cancel
    panel,     \* "none", "loading" or "ready"
    queued,    \* messages for a document that is not ready
    resultIds, \* the result each lane is answered from
    web,       \* the document: its lanes, which one is shown, which is drawn
    fetches    \* pages the host is reading from the daemon

panelVars == <<doing, running, cancels, panel, queued, resultIds, web, fetches>>

Lanes == {"user", "agent"}
Results == Mine \cup Agents
Blank == [status |-> "idle", result |-> NoRun, page |-> NoRun, asked |-> FALSE, late |-> FALSE]
NewDocument == [lane |-> [l \in Lanes |-> Blank], shown |-> "user", drawn |-> "user", pulled |-> FALSE]
NotDone == [stage |-> "idle", overlapped |-> FALSE]

PanelTypeOK ==
    /\ doing \in [Mine -> [stage : {"idle", "sent", "done"}, overlapped : BOOLEAN]]
    /\ running \in Mine \cup {NoRun} /\ cancels \subseteq Mine
    /\ panel \in {"none", "loading", "ready"} /\ Len(queued) <= MaxQueued
    /\ resultIds \in [Lanes -> Results \cup {NoRun}]
    /\ web.lane \in [Lanes -> [status : {"idle", "running", "ready", "failed"}, result : Results \cup {NoRun},
                               page : Results \cup {NoRun}, asked : BOOLEAN, late : BOOLEAN]]
    /\ {web.shown, web.drawn} \subseteq Lanes /\ web.pulled \in BOOLEAN
    /\ fetches \subseteq [lane : Lanes, result : Results, late : BOOLEAN]
    /\ panel # "loading" => queued = <<>>
    /\ panel # "ready" => web = NewDocument

PanelInit ==
    /\ doing = [x \in Mine |-> NotDone] /\ running = NoRun /\ cancels = {}
    /\ panel = "none" /\ queued = <<>> /\ resultIds = [l \in Lanes |-> NoRun]
    /\ web = NewDocument /\ fetches = {}

Message(type, lane, result) == [type |-> type, lane |-> lane, result |-> result, late |-> FALSE]
Rows(f) == [type |-> "rows", lane |-> f.lane, result |-> f.result, late |-> f.late]

(* Pages still being read for a lane that has moved on since.              *)
Outlived(lanes) == {[f EXCEPT !.late = @ \/ f.lane \in lanes] : f \in fetches}

(* Mutant of PageAfter: the pages of the result before are kept.           *)
PageAfterKept(s, m) == IF m.type = "rows" THEN m.result ELSE s.page

(* A result clears the pages; rows are a page of whatever the lane shows.  *)
PageAfter(s, m) == IF m.type = "rows" THEN m.result ELSE IF m.type = "result" THEN NoRun ELSE s.page

(* apply(): written to the lane the message names.                         *)
LaneAfter(s, m) ==
    [s EXCEPT !.page = PageAfter(s, m),
              !.status = CASE m.type = "result" -> "ready" [] m.type \in {"rows", "progress"} -> @ [] OTHER -> m.type,
              !.result = IF m.type = "result" THEN m.result ELSE @,
              !.asked = IF m.type = "result" THEN FALSE ELSE @,
              !.late = IF m.type \in {"result", "rows"} THEN m.late ELSE @]

(* A message in the user's lane switches to it.                            *)
Switches(m) == m.lane = "user"

(* Drawn whole if its lane is on screen; rows only fill the table that is  *)
(* drawn, and progress only replaces its bar.                              *)
Drawn(w, m, on) == IF m.lane = on /\ m.type \notin {"rows", "progress"} THEN on ELSE w.drawn

Applied(w, m) ==
    LET on == IF Switches(m) THEN m.lane ELSE w.shown
    IN  [w EXCEPT !.lane[m.lane] = LaneAfter(@, m), !.shown = on,
                  !.drawn = Drawn(w, m, on),
                  !.pulled = Drawn(w, m, on) # on /\ (@ \/ w.shown # on)]

(* ensure() and post(): a panel there is none of is made, and its document *)
(* has to say ready first.                                                 *)
Post(m) ==
    \/ panel = "ready" /\ web' = Applied(web, m) /\ UNCHANGED <<panel, queued>>
    \/ /\ panel # "ready" /\ Len(queued) < MaxQueued
       /\ panel' = "loading" /\ queued' = Append(queued, m) /\ UNCHANGED web

Sent == {x \in Mine : doing[x].stage = "sent"}

(* execute(), once the connection is known.                                *)
Execute(x) ==
    /\ doing[x].stage = "idle"
    /\ doing' = [y \in Mine |-> IF y = x \/ y \in Sent THEN [stage |-> "sent", overlapped |-> doing[y].overlapped \/ Sent # {}] ELSE doing[y]]
    /\ running' = x
    /\ Post(Message("running", "user", x))
    /\ UNCHANGED <<cancels, resultIds, fetches>>

(* queryProgress of a run in flight, if there is a panel to tell.          *)
Progress(x) ==
    /\ x \in Sent /\ panel # "none"
    /\ Post(Message("progress", "user", x))
    /\ UNCHANGED <<doing, running, cancels, resultIds, fetches>>

RunningAfter == NoRun

(* Rows to show, or an error.  Cancel has nothing to name any more.        *)
Executed(x, ok) ==
    /\ x \in Sent
    /\ doing' = [doing EXCEPT ![x].stage = "done"]
    /\ running' = RunningAfter
    /\ resultIds' = IF ok THEN [resultIds EXCEPT !["user"] = x] ELSE resultIds
    /\ Post(Message(IF ok THEN "result" ELSE "failed", "user", x))
    /\ fetches' = IF ok THEN Outlived({"user"}) ELSE fetches
    /\ UNCHANGED cancels

(* showResult: an agent's query is put in the agent's lane.                *)
AgentShows(x) ==
    /\ resultIds["agent"] # x
    /\ resultIds' = [resultIds EXCEPT !["agent"] = x]
    /\ Post(Message("result", "agent", x))
    /\ fetches' = Outlived({"agent"})
    /\ UNCHANGED <<doing, running, cancels>>

Cancel ==
    /\ panel = "ready" /\ web.drawn = "user" /\ web.lane["user"].status = "running" /\ running # NoRun
    /\ cancels' = cancels \cup {running}
    /\ UNCHANGED <<doing, running, panel, queued, resultIds, web, fetches>>

Unposted == <<>>

DocumentReady ==
    /\ panel = "loading" /\ panel' = "ready" /\ queued' = Unposted
    /\ web' = FoldLeft(Applied, web, queued)
    /\ UNCHANGED <<doing, running, cancels, resultIds, fetches>>

(* onDidDispose.                                                           *)
PanelClosed ==
    /\ panel # "none" /\ panel' = "none" /\ queued' = <<>> /\ web' = NewDocument
    /\ fetches' = Outlived(Lanes)
    /\ UNCHANGED <<doing, running, cancels, resultIds>>

ShowLane(l) ==
    /\ panel = "ready" /\ web.lane["agent"].status # "idle" /\ l # web.shown
    /\ web' = [web EXCEPT !.shown = l, !.drawn = l, !.pulled = FALSE]
    /\ UNCHANGED <<doing, running, cancels, panel, queued, resultIds, fetches>>

(* paintRows, request(): a page is asked for once; the host answers for the*)
(* result its lane has by now.                                             *)
RequestRows ==
    LET l == web.shown IN
    /\ panel = "ready" /\ web.lane[l].status = "ready" /\ web.lane[l].page = NoRun /\ ~web.lane[l].asked
    /\ web' = [web EXCEPT !.lane[l].asked = TRUE]
    /\ fetches' = fetches \cup {[lane |-> l, result |-> resultIds[l], late |-> FALSE]}
    /\ UNCHANGED <<doing, running, cancels, panel, queued, resultIds>>

(* The daemon's page, or an error nobody shows.                            *)
RowsRead(f, ok) ==
    /\ f \in fetches /\ fetches' = fetches \ {f}
    /\ \/ ok /\ panel = "ready" /\ web' = Applied(web, Rows(f)) /\ UNCHANGED <<panel, queued>>
       \/ ok /\ panel # "ready" /\ UNCHANGED <<panel, web>> /\ queued' =
              IF panel = "loading" /\ Len(queued) < MaxQueued THEN Append(queued, Rows(f)) ELSE queued
       \/ ~ok /\ UNCHANGED <<panel, queued, web>>
    /\ UNCHANGED <<doing, running, cancels, resultIds>>

PanelNext ==
    \/ \E x \in Mine : Execute(x) \/ Progress(x) \/ (\E ok \in BOOLEAN : Executed(x, ok))
    \/ \E x \in Agents : AgentShows(x)
    \/ Cancel \/ DocumentReady \/ PanelClosed \/ RequestRows
    \/ \E l \in Lanes : ShowLane(l)
    \/ \E f \in fetches, ok \in BOOLEAN : RowsRead(f, ok)

PanelSpec == PanelInit /\ [][PanelNext]_panelVars

(* editor.ts:29-30: a query in flight is the one Cancel names, unless      *)
(* another was in flight with it; and Cancel never names one that is over. *)
CancelNamesWhatRuns ==
    /\ running # NoRun => running \in Sent
    /\ \A x \in Sent : ~doing[x].overlapped => running = x

(* main.ts:237-268, panel.ts:139: the rows a lane draws are its result's,  *)
(* unless a page was being read when the result changed, or when the panel *)
(* was closed.                                                             *)
RowsAreTheResults ==
    \A l \in Lanes : web.lane[l].page # NoRun => web.lane[l].page = web.lane[l].result \/ web.lane[l].late

(* What is drawn is the lane that is shown, unless rows or progress of the *)
(* user's pull them back from the agent's (main.ts:186-190, 236-242).      *)
ScreenShowsItsLane == panel = "ready" => web.drawn = web.shown \/ web.pulled

(* Rows, lane and cancel are of the run they claim to be of, however late  *)
(* the pages (panel.ts:100-145, editor.ts:28-58, main.ts:180-268).         *)
PanelSafe == PanelTypeOK /\ CancelNamesWhatRuns /\ RowsAreTheResults /\ ScreenShowsItsLane
=============================================================================
