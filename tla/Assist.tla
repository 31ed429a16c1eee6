------------------------------ MODULE Assist -------------------------------
(***************************************************************************)
(* Editor intelligence (extension/src/lsp.ts): the check of a document     *)
(* after a pause in typing, and the cache of schema listings completion is *)
(* answered from.  A document, a listing and a set of squiggles are known  *)
(* by the version they are of.                                             *)
(***************************************************************************)
EXTENDS Naturals

CONSTANTS Docs,
          MaxVersion,   \* bound: versions of a document, and of the schema
          MaxStatements \* bound on MAX_VALIDATED, the statements of a document

ASSUME AssistAssumption == MaxVersion \in Nat /\ MaxStatements \in Nat

VARIABLES
    version,    \* version[d]: the text of document d; 0 as it was opened
    opened,     \* documents in the editor
    pause,      \* documents with a timer
    generation, \* of the pass that began last, over all documents
    passes,     \* passes waiting for the daemon
    squiggles,  \* squiggles[d]: the text the diagnostics on screen are of, 0 for none
    missed,     \* documents whose newest pass was killed or failed (history)
    haunted,    \* documents closed with a timer or a pass (history)
    listing,    \* the schema on the server
    cached,     \* what the cache holds, or Uncached
    loading,    \* the request in flight: what it has seen, Unread, or NoLoad
    fresh,      \* the schema when the cache was last emptied (history)
    straggler   \* the request in flight was there when it was (history)

diagnosticsVars == <<version, opened, pause, generation, passes, squiggles, missed, haunted>>
schemaVars == <<listing, cached, loading, fresh, straggler>>
assistVars == <<version, opened, pause, generation, passes, squiggles, missed, haunted,
                listing, cached, loading, fresh, straggler>>

Versions == 0..MaxVersion
Uncached == MaxVersion + 1
Unread == MaxVersion + 2
NoLoad == MaxVersion + 3

AssistTypeOK ==
    /\ version \in [Docs -> Versions] /\ squiggles \in [Docs -> Versions]
    /\ opened \subseteq Docs /\ pause \subseteq Docs /\ missed \subseteq Docs /\ haunted \subseteq Docs
    /\ passes \subseteq [doc : Docs, version : Versions, generation : 1..generation, left : 1..MaxStatements]
    /\ generation \in Nat
    /\ listing \in Versions /\ fresh \in Versions /\ cached \in Versions \cup {Uncached}
    /\ loading \in Versions \cup {Unread, NoLoad} /\ straggler \in BOOLEAN

AssistInit ==
    /\ version = [d \in Docs |-> 0] /\ opened = Docs /\ pause = {} /\ generation = 0 /\ passes = {}
    /\ squiggles = [d \in Docs |-> 0] /\ missed = {} /\ haunted = {}
    /\ listing = 0 /\ cached = Uncached /\ loading = NoLoad /\ fresh = 0 /\ straggler = FALSE

(* schedule(), on every change: the pause starts again.                    *)
Edit(d) ==
    /\ d \in opened /\ version[d] < MaxVersion
    /\ version' = [version EXCEPT ![d] = @ + 1]
    /\ pause' = pause \cup {d}
    /\ UNCHANGED <<opened, generation, passes, squiggles, missed, haunted, schemaVars>>

Cleared(d) == [squiggles EXCEPT ![d] = 0]

(* clear(), as the document closes: neither timer nor pass is looked at.   *)
CloseDocument(d) ==
    /\ d \in opened /\ opened' = opened \ {d}
    /\ squiggles' = Cleared(d)
    /\ haunted' = IF d \in pause \/ \E p \in passes : p.doc = d THEN haunted \cup {d} ELSE haunted
    /\ UNCHANGED <<version, pause, generation, passes, missed, schemaVars>>

(* run(): there is one generation for all documents.                       *)
Begin(d) ==
    /\ d \in pause /\ pause' = pause \ {d}
    /\ generation' = generation + 1
    /\ \/ passes' = passes /\ squiggles' = [squiggles EXCEPT ![d] = version[d]]
       \/ \E n \in 1..MaxStatements :
              /\ passes' = passes \cup {[doc |-> d, version |-> version[d], generation |-> generation + 1, left |-> n]}
              /\ squiggles' = squiggles
    /\ missed' = (missed \cup {p.doc : p \in passes}) \ {d}
    /\ UNCHANGED <<version, opened, haunted, schemaVars>>

(* Mutant of Current: a pass is never too old.                             *)
CurrentAlways(p) == TRUE
Current(p) == p.generation = generation

(* A statement is answered for, or its verdict was known: the next one is  *)
(* looked at only by the newest pass, which puts up what it found.         *)
Checked(p) ==
    /\ passes' = IF Current(p) /\ p.left > 1 THEN (passes \ {p}) \cup {[p EXCEPT !.left = @ - 1]} ELSE passes \ {p}
    /\ squiggles' = IF Current(p) /\ p.left = 1 THEN [squiggles EXCEPT ![p.doc] = p.version] ELSE squiggles
    /\ UNCHANGED <<version, opened, pause, generation, missed, haunted, schemaVars>>

(* A connection problem is not a syntax problem.                           *)
CheckFails(p) ==
    /\ passes' = passes \ {p} /\ missed' = missed \cup {p.doc}
    /\ UNCHANGED <<version, opened, pause, generation, squiggles, haunted, schemaVars>>

(* External: somebody creates or drops a table.                            *)
SchemaChanges ==
    /\ listing < MaxVersion /\ listing' = listing + 1
    /\ UNCHANGED <<cached, loading, fresh, straggler, diagnosticsVars>>

(* children(): a miss joins the request in flight, or makes one.           *)
Complete ==
    /\ cached = Uncached /\ loading = NoLoad
    /\ loading' = Unread /\ straggler' = FALSE
    /\ UNCHANGED <<listing, cached, fresh, diagnosticsVars>>

ServerLists ==
    /\ loading = Unread /\ loading' = listing
    /\ UNCHANGED <<listing, cached, fresh, straggler, diagnosticsVars>>

(* load(): an answer is cached, a failure is not.                          *)
Listed ==
    /\ loading \in Versions /\ cached' = loading /\ loading' = NoLoad
    /\ UNCHANGED <<listing, fresh, straggler, diagnosticsVars>>

ListFails ==
    /\ loading # NoLoad /\ loading' = NoLoad
    /\ UNCHANGED <<listing, cached, fresh, straggler, diagnosticsVars>>

(* Mutant of Emptied: the entries stay.                                    *)
EmptiedNot == cached

Emptied == Uncached

(* invalidate(), for the refresh button and whatever else changes the      *)
(* schema: the entries go, the request in flight stays.                    *)
Invalidate ==
    /\ cached' = Emptied /\ fresh' = listing /\ straggler' = (loading # NoLoad)
    /\ UNCHANGED <<listing, loading, diagnosticsVars>>

(* CACHE_TTL_MS.                                                           *)
Expire ==
    /\ cached # Uncached /\ cached' = Uncached
    /\ UNCHANGED <<listing, loading, fresh, straggler, diagnosticsVars>>

AssistNext ==
    \/ \E d \in Docs : Edit(d) \/ CloseDocument(d) \/ Begin(d)
    \/ \E p \in passes : Checked(p) \/ CheckFails(p)
    \/ SchemaChanges \/ Complete \/ ServerLists \/ Listed \/ ListFails \/ Invalidate \/ Expire

AssistSpec == AssistInit /\ [][AssistNext]_assistVars

(* lsp.ts:207-208, "anything started before this point is stale": what is  *)
(* on screen is never replaced by the verdict on an older text.            *)
NeverOlderSquiggles ==
    [][\A d \in Docs : squiggles'[d] # squiggles[d] => squiggles'[d] = 0 \/ squiggles'[d] > squiggles[d]]_assistVars

(* lsp.ts:208-253: a document nobody is typing in shows the verdict on its *)
(* text, unless the check failed or another document's check killed it.    *)
QuietDocumentsAreChecked ==
    \A d \in opened \ (pause \cup missed) :
        (\A p \in passes : p.doc # d) => squiggles[d] = version[d]

(* lsp.ts:195: a closed document shows nothing, unless it was closed with  *)
(* its timer or a pass still running.                                      *)
ClosedDocumentsAreClean == \A d \in Docs \ (opened \cup haunted) : squiggles[d] = 0

(* lsp.ts:51-53: after a refresh nothing older is completed from, unless a *)
(* request was in flight as the cache was emptied.                         *)
RefreshedIsFresh == cached # Uncached => cached >= fresh \/ straggler

(* Squiggles and completions are of the text and the schema there is       *)
(* (lsp.ts:45-120, 195-253).                                               *)
AssistSafe == AssistTypeOK /\ QuietDocumentsAreChecked /\ ClosedDocumentsAreClean /\ RefreshedIsFresh
=============================================================================
