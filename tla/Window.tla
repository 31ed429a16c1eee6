------------------------------- MODULE Window ------------------------------
(***************************************************************************)
(* Which workspace a process speaks for.  An editor window                 *)
(* (extension/src/daemon.ts) makes a client when it has none and forgets it*)
(* when its socket closes, but whoever still holds a forgotten client can  *)
(* make it reopen itself.  The MCP bridge (cli/src/mcp.ts) keeps one client*)
(* for good.  A pick is useWorkspace, and then a note of what was picked.  *)
(***************************************************************************)
EXTENDS Naturals, FiniteSets

CONSTANTS Sides,      \* "window", "bridge"
          Spaces, Home, \* workspaces; the first folder, or --workspace
          Commands, Picker, \* who uses a client: queries, and the pick
          MaxClients  \* bound: clients a window makes

ASSUME WindowAssumption ==
    /\ Sides \subseteq {"window", "bridge"} /\ Home \in Spaces
    /\ Picker \notin Commands /\ MaxClients \in Nat \ {0}

VARIABLES
    side,
    held,     \* this.client, 0 for none
    opening,  \* the client that `connecting` is making, 0 for none
    link,     \* link[i]: a client, what its hello names and what the daemon has for it
    chosen,   \* activeWorkspace(); of the bridge, what the agent was last told
    hand      \* hand[u]: the client u works with

windowVars == <<side, held, opening, link, chosen, hand>>

Hands == Commands \cup {Picker}
Links == 1..MaxClients
NoLink == [state |-> "none", told |-> Home, speaks |-> Home, again |-> FALSE]
Resting == [stage |-> "idle", on |-> 0, space |-> Home]

WindowTypeOK ==
    /\ side \in Sides /\ {held, opening} \subseteq 0..MaxClients /\ chosen \in Spaces
    /\ link \in [Links -> [state : {"none", "ensuring", "greeting", "up", "lost"},
                           told : Spaces, speaks : Spaces, again : BOOLEAN]]
    /\ hand \in [Hands -> [stage : {"idle", "waits", "has", "used"}, on : 0..MaxClients, space : Spaces]]

(* The bridge connects before it serves a tool; a window on first use.     *)
WindowInit ==
    /\ side \in Sides /\ opening = 0 /\ chosen = Home
    /\ held = IF side = "bridge" THEN 1 ELSE 0
    /\ link = [i \in Links |-> IF i = held THEN [NoLink EXCEPT !.state = "up"] ELSE NoLink]
    /\ hand = [u \in Hands |-> Resting]

Unmade == {i \in Links : link[i].state = "none"}
NewClient == CHOOSE i \in Unmade : TRUE

(* connecting ??= open().                                                  *)
Joining == IF opening # 0 THEN opening ELSE NewClient

(* connected(): the client there is, or the one being opened.              *)
Connecting(u) ==
    /\ hand[u].stage = "idle"
    /\ IF held # 0
       THEN hand' = [hand EXCEPT ![u] = [Resting EXCEPT !.stage = "has", !.on = held]] /\ UNCHANGED <<opening, link>>
       ELSE /\ opening # 0 \/ Unmade # {}
            /\ opening' = Joining
            /\ link' = IF link[Joining].state = "none" THEN [link EXCEPT ![Joining].state = "ensuring"] ELSE link
            /\ hand' = [hand EXCEPT ![u] = [Resting EXCEPT !.stage = "waits", !.on = Joining]]
    /\ UNCHANGED <<side, held, chosen>>

(* Mutant of Announced: the first folder again.                            *)
AnnouncedHome == Home

Announced == chosen

(* ensureDaemon is done; the options of the client are made now, once.     *)
Ensured(i) ==
    /\ link[i].state = "ensuring"
    /\ link' = [link EXCEPT ![i].state = "greeting", ![i].told = Announced]
    /\ UNCHANGED <<side, held, opening, chosen, hand>>

Resume(i, stage) ==
    hand' = [u \in Hands |-> IF hand[u].stage # "waits" \/ hand[u].on # i THEN hand[u]
                              ELSE IF stage = "idle" THEN Resting ELSE [hand[u] EXCEPT !.stage = stage]]

Welcome(i) ==
    /\ link[i].state = "greeting"
    /\ link' = [link EXCEPT ![i].state = "up", ![i].speaks = link[i].told]
    /\ held' = i
    /\ opening' = IF opening = i THEN 0 ELSE opening
    /\ Resume(i, "has")
    /\ UNCHANGED <<side, chosen>>

(* No daemon, or hello was refused: nobody has that client.                *)
NotOpened(i) ==
    /\ link[i].state \in {"ensuring", "greeting"}
    /\ link' = [link EXCEPT ![i] = NoLink]
    /\ opening' = IF opening = i THEN 0 ELSE opening
    /\ Resume(i, "idle")
    /\ UNCHANGED <<side, held, chosen>>

(* onClose: the window forgets its client, whichever it was that closed; a *)
(* pick whose answer has not come fails.                                   *)
LinkLost(i) ==
    /\ link[i].state = "up"
    /\ link' = [link EXCEPT ![i].state = "lost"]
    /\ held' = IF side = "window" THEN 0 ELSE held
    /\ hand' = [u \in Hands |-> IF hand[u].stage = "used" /\ hand[u].on = i THEN Resting ELSE hand[u]]
    /\ UNCHANGED <<side, opening, chosen>>

(* send, by somebody who holds it: reopen() says hello with the options the*)
(* client was made with.                                                   *)
ReopensItself(i) ==
    /\ link[i].state = "lost" /\ \E u \in Hands : hand[u].stage = "has" /\ hand[u].on = i
    /\ link' = [link EXCEPT ![i].state = "up", ![i].speaks = link[i].told, ![i].again = TRUE]
    /\ UNCHANGED <<side, held, opening, chosen, hand>>

(* The command has run, the call failed, or the human dismissed the picker.*)
LetsGo(u) ==
    /\ hand[u].stage = "has" /\ hand' = [hand EXCEPT ![u] = Resting]
    /\ UNCHANGED <<side, held, opening, link, chosen>>

Uses(space) ==
    /\ hand[Picker].stage = "has" /\ link[hand[Picker].on].state = "up"
    /\ link' = [link EXCEPT ![hand[Picker].on].speaks = space]
    /\ hand' = [hand EXCEPT ![Picker].stage = "used", ![Picker].space = space]
    /\ UNCHANGED <<side, held, opening, chosen>>

Settled ==
    /\ hand[Picker].stage = "used"
    /\ chosen' = hand[Picker].space /\ hand' = [hand EXCEPT ![Picker] = Resting]
    /\ UNCHANGED <<side, held, opening, link>>

(* The window's setActiveWorkspace, or what use_workspace tells the agent. *)
Picked == side = "window" /\ Settled
Told == side = "bridge" /\ Settled

WindowNext ==
    \/ \E u \in Hands : Connecting(u) \/ LetsGo(u)
    \/ \E i \in Links : Ensured(i) \/ Welcome(i) \/ NotOpened(i) \/ LinkLost(i) \/ ReopensItself(i)
    \/ \E s \in Spaces : Uses(s)
    \/ Picked \/ Told

WindowSpec == WindowInit /\ [][WindowNext]_windowVars

Live == {i \in Links : link[i].state = "up"}
SpeaksFor(u, space) ==
    hand[u].stage = "has" /\ link[hand[u].on].state = "up" /\ hand[Picker].stage # "used" =>
        link[hand[u].on].speaks = space

(* daemon.ts:200-208: a reconnect does not undo the pick: a command runs in*)
(* the workspace the window says it speaks for, as long as no client that  *)
(* was lost has been reopened by somebody who still held it.               *)
CommandsRunWhereTheWindowSays ==
    (\A i \in Links : ~link[i].again) => \A c \in Commands : SpeaksFor(c, chosen)

(* daemon.ts:64-68: a window has one client, unless one that it had lost   *)
(* was reopened by somebody who still held it.                             *)
OneClientPerWindow ==
    (\A i \in Links : ~link[i].again) => Cardinality(Live) <= 1 /\ (held # 0 /\ side = "window" => Live = {held})

(* mcp.ts:188: a picked workspace "takes effect immediately and needs no   *)
(* restart", "so an MCP bridge started once can be pointed at another      *)
(* checkout mid-session" (server.ts:252); "switching it silently is how a  *)
(* query ends up running against the wrong environment" (mcp.ts:191).      *)
AgentsPickHolds == side = "bridge" => \A c \in Commands : SpeaksFor(c, chosen)

(* One client, and it speaks for the workspace the window shows (extension *)
(* /src/daemon.ts:64-97, 200-208).                                         *)
WindowSafe == CommandsRunWhereTheWindowSays /\ OneClientPerWindow
=============================================================================
