------------------------------ MODULE MCEditor -----------------------------
(* The editor extension, and the text it sends: the results panel, the     *)
(* diagnostics and the schema cache, the connection files it edits, what is*)
(* made of the statement under the cursor, the schema tree and completion. *)
(* They are explored one after the other: `part` is the one that moves.    *)
EXTENDS Panel, Assist, Registry, SqlText, Browse, TLC

VARIABLE part

Parts == {"panel", "diagnostics", "schema", "registry", "text", "browse"}

MCDirectives == "@a" :> "conn" @@ "@kind" :> "kind"

(* A part that stays still does so in one initial state.                   *)
Still(name, state) == part # name => state

EditorInit ==
    /\ part \in Parts
    /\ PanelInit /\ AssistInit /\ TextInit
    /\ RegistryInit /\ Still("registry", \A f \in DOMAIN file : file[f] = Unbroken)
    /\ BrowseInit /\ Still("browse", server.engine = "kafka" /\ server.tables = {})

EditorNext ==
    \/ part = "panel" /\ PanelNext /\ UNCHANGED <<part, assistVars, registryVars, text, browseVars>>
    \/ /\ part = "diagnostics" /\ AssistNext
       /\ UNCHANGED <<part, schemaVars, panelVars, registryVars, text, browseVars>>
    \/ /\ part = "schema" /\ AssistNext
       /\ UNCHANGED <<part, diagnosticsVars, panelVars, registryVars, text, browseVars>>
    \/ part = "registry" /\ RegistryNext /\ UNCHANGED <<part, panelVars, assistVars, text, browseVars>>
    \/ part = "text" /\ TextNext /\ UNCHANGED <<part, panelVars, assistVars, registryVars, browseVars>>
    \/ part = "browse" /\ BrowseNext /\ UNCHANGED <<part, panelVars, assistVars, registryVars, text>>

EditorSpec == EditorInit /\ [][EditorNext]_<<part, panelVars, assistVars, registryVars, text, browseVars>>

=============================================================================
