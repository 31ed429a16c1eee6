----------------------------- MODULE Credentials -----------------------------
(***************************************************************************)
(* Where a connect gets its secret: the retry loop of SessionPool.openOnce,*)
(* SecretResolver (daemon/src/secrets.ts) and the Vault under it           *)
(* (daemon/src/vault.ts).  The pool has at most one attempt per connection *)
(* under way (SessionPool), so an attempt goes by its connection.  A       *)
(* prompt ends with an answer or fails (Broker).  Code between two real    *)
(* waits is one action.                                                    *)
(***************************************************************************)
EXTENDS Naturals

CONSTANTS Conns,       \* registered connections
          Scope, Name, \* secretScope and spec.name
          Source,      \* spec.secret.from, "prompt" when absent
          Inline,      \* connections defined in a .sql file
          OwnPassword, \* those of them that carry a password
          Purpose,     \* the kind of secret the provider asks for
          Texts,       \* what a human may type
          Setters,     \* setSecret requests under way
          Nothing,
          MaxKeys      \* bound: master keys minted or derived

Purposes == {"password", "token"}
Slots == {<<Scope[k], Name[k], p>> : k \in Conns, p \in Purposes}

(* A secret, and the connection it was given for.                          *)
Secrets == [of : Conns, text : Texts]

ASSUME CredentialsAssumption ==
    /\ \A j, k \in Conns : Scope[j] = Scope[k] /\ Name[j] = Name[k] => j = k
    /\ Source \in [Conns -> {"prompt", "vault", "command", "env"}]
    /\ Purpose \in [Conns -> Purposes]
    /\ OwnPassword \subseteq Inline /\ Inline \subseteq Conns
    /\ \A k \in Inline : Source[k] = "prompt"
    /\ Texts # {} /\ MaxKeys \in Nat /\ Nothing \notin Secrets

Keys == 1..MaxKeys
NoKey == 0
Sealed == [secret : Secrets, by : Keys]
ASSUME SealedAssumption == Nothing \notin Sealed

VARIABLES
    keyfile,   \* the key in vault.key, NoKey when it has none
    entries,   \* vault.json: entries[s], sealed under a key
    kdf,       \* vault.json: the key its check entry is sealed under;
               \* NoKey in keyfile mode
    key,       \* Vault.key
    minted,    \* keys made so far
    dropping,  \* setPassphrase has persisted and not yet unlinked vault.key
    up,        \* the daemon is running
    pc,        \* pc[k]: what the connect of k waits for
    tries,     \* tries[k]: attempt, in openOnce
    typed,     \* typed[k]: an answer that waits for the vault to be unlocked
    offered,   \* offered[k]: the secret the server is looking at
    setting    \* setting[x]: a setSecret that waits for the vault

file == <<keyfile, entries, kdf>>
vault == <<file, key, minted, dropping, up>>
connect == <<pc, tries, typed, offered>>
vars == <<vault, connect, setting>>

MaxTries == 3   \* MAX_CREDENTIAL_ATTEMPTS

TypeOK ==
    /\ keyfile \in Keys \cup {NoKey} /\ kdf \in Keys \cup {NoKey} /\ key \in Keys \cup {NoKey}
    /\ entries \in [Slots -> Sealed \cup {Nothing}]
    /\ minted \in 0..MaxKeys
    /\ dropping \in BOOLEAN /\ up \in BOOLEAN
    /\ pc \in [Conns -> {"idle", "fetching", "asked", "unlocking", "trying"}]
    /\ tries \in [Conns -> 0..MaxTries]
    /\ typed \in [Conns -> Secrets \cup {Nothing}]
    /\ offered \in [Conns -> Secrets \cup {Nothing}]
    /\ \A k \in Conns : pc[k] = "trying" <=> offered[k] # Nothing
    /\ setting \in [Setters -> Secrets \cup {Nothing}]

Init ==
    /\ keyfile = NoKey /\ kdf = NoKey /\ key = NoKey
    /\ entries = [s \in Slots |-> Nothing]
    /\ minted = 0
    /\ dropping = FALSE /\ up = FALSE
    /\ pc = [k \in Conns |-> "idle"]
    /\ tries = [k \in Conns |-> 0]
    /\ typed = [k \in Conns |-> Nothing]
    /\ offered = [k \in Conns |-> Nothing]
    /\ setting = [x \in Setters |-> Nothing]

(* The event loop is free.                                                 *)
Ready == up /\ ~dropping

-----------------------------------------------------------------------------
(* Slots, and what may be written to them *)

(* Mutant of slot: the name alone.                                         *)
slotByName(k, purpose) == <<Scope[CHOOSE j \in Conns : Name[j] = Name[k]], Name[k], purpose>>

slot(k, purpose) == <<Scope[k], Name[k], purpose>>

(* remember writes nothing for an inline connection, or for one whose      *)
(* secret has an owner elsewhere.                                          *)
Kept(k) == k \notin Inline /\ Source[k] \in {"prompt", "vault"}

Put(k, purpose, secret, kk) ==
    [entries EXCEPT ![slot(k, purpose)] = [secret |-> secret, by |-> kk]]

(* forget: always the password, never needs the key.                       *)
Without(k) == [entries EXCEPT ![slot(k, "password")] = Nothing]

-----------------------------------------------------------------------------
(* One connect *)

(* The connect of k is in attempt n and waits for where.                   *)
At(k, n, where, answer, secret) ==
    /\ pc' = [pc EXCEPT ![k] = where]
    /\ tries' = [tries EXCEPT ![k] = n]
    /\ typed' = [typed EXCEPT ![k] = answer]
    /\ offered' = [offered EXCEPT ![k] = secret]

Await(k, n, where) == At(k, n, where, Nothing, Nothing)
Offer(k, n, secret) == At(k, n, "trying", Nothing, secret)
End(k) == Await(k, 0, "idle")

FromFile(k) == k \in OwnPassword /\ Purpose[k] = "password"
External(k) == Source[k] \in {"command", "env"}

(* Attempt n, up to its first wait, with contents ents and key kk in the   *)
(* vault: require, and lookup in it.  With nothing to find and nobody to   *)
(* ask, require throws auth and the loop runs out on the spot.             *)
Consult(k, n, ents, kk) ==
    LET found == ents[slot(k, Purpose[k])] IN
    \/ /\ FromFile(k)
       /\ Offer(k, n, [of |-> k, text |-> CHOOSE t \in Texts : TRUE])
       /\ entries' = ents
    \/ /\ External(k)
       /\ Await(k, n, "fetching")
       /\ entries' = ents
    \/ /\ ~FromFile(k) /\ ~External(k) /\ found # Nothing
       /\ IF kk # NoKey THEN Offer(k, n, found.secret) ELSE Await(k, n, "unlocking")
       /\ entries' = ents
    \/ /\ ~FromFile(k) /\ Source[k] = "prompt" /\ found = Nothing
       /\ Await(k, n, "asked")
       /\ entries' = ents
    \/ /\ Source[k] = "vault" /\ found = Nothing
       /\ End(k)
       /\ entries' = IF n < MaxTries THEN [ents EXCEPT ![slot(k, "password")] = Nothing] ELSE ents

Start(k) ==
    /\ Ready /\ pc[k] = "idle"
    /\ Consult(k, 1, entries, key)
    /\ UNCHANGED <<keyfile, kdf, key, minted, dropping, up, setting>>

(* Mutant of Retry: attempts are not counted.                              *)
RetryUncounted(k) ==
    IF ~External(k) THEN Consult(k, tries[k], Without(k), key) ELSE End(k) /\ UNCHANGED entries

(* openOnce catches an auth error: forget the password and go round again. *)
Retry(k) ==
    IF tries[k] < MaxTries /\ ~External(k)
    THEN Consult(k, tries[k] + 1, Without(k), key)
    ELSE End(k) /\ UNCHANGED entries

(* The secret command ended, or the environment was read.                  *)
Fetched(k) ==
    /\ Ready /\ pc[k] = "fetching"
    /\ \/ \E t \in Texts : Offer(k, tries[k], [of |-> k, text |-> t])
       \/ End(k)
    /\ UNCHANGED <<vault, setting>>

(* The human typed a secret: remembered, if it is to be kept, then offered.*)
Answered(k, t) ==
    LET secret == [of |-> k, text |-> t] IN
    /\ Ready /\ pc[k] = "asked"
    /\ \/ /\ Kept(k) /\ key = NoKey
          /\ At(k, tries[k], "unlocking", secret, Nothing)
          /\ UNCHANGED entries
       \/ /\ ~(Kept(k) /\ key = NoKey)
          /\ Offer(k, tries[k], secret)
          /\ entries' = IF Kept(k) THEN Put(k, Purpose[k], secret, key) ELSE entries
    /\ UNCHANGED <<keyfile, kdf, key, minted, dropping, up, setting>>

(* The prompt was declined, timed out, or there is nobody to ask: not an   *)
(* auth error, so the connect ends.                                        *)
PromptFails(k) ==
    /\ Ready /\ pc[k] \in {"asked", "unlocking"}
    /\ End(k)
    /\ UNCHANGED <<vault, setting>>

(* The passphrase is right: whatever found the vault locked is done again. *)
Unlocked(k) ==
    /\ Ready /\ pc[k] = "unlocking"
    /\ key' = kdf
    /\ \/ /\ typed[k] = Nothing
          /\ Consult(k, tries[k], entries, kdf)
       \/ /\ typed[k] # Nothing
          /\ Offer(k, tries[k], typed[k])
          /\ entries' = Put(k, Purpose[k], typed[k], kdf)
    /\ UNCHANGED <<keyfile, kdf, minted, dropping, up, setting>>

(* It is wrong: unlock throws auth, like a rejected password.              *)
WrongPhrase(k) ==
    /\ Ready /\ pc[k] = "unlocking"
    /\ Retry(k)
    /\ UNCHANGED <<keyfile, kdf, key, minted, dropping, up, setting>>

Accepts(k) ==
    /\ Ready /\ pc[k] = "trying"
    /\ End(k)
    /\ UNCHANGED <<vault, setting>>

Rejects(k) ==
    /\ Ready /\ pc[k] = "trying"
    /\ Retry(k)
    /\ UNCHANGED <<keyfile, kdf, key, minted, dropping, up, setting>>
-----------------------------------------------------------------------------
(* setSecret: remember, from a client *)

SetSecret(x, k, t) ==
    LET secret == [of |-> k, text |-> t] IN
    /\ Ready /\ setting[x] = Nothing /\ Kept(k)
    /\ \/ /\ key # NoKey
          /\ entries' = Put(k, "password", secret, key)
          /\ UNCHANGED setting
       \/ /\ key = NoKey
          /\ setting' = [setting EXCEPT ![x] = secret]
          /\ UNCHANGED entries
    /\ UNCHANGED <<keyfile, kdf, key, minted, dropping, up, connect>>

SetterUnlocks(x) ==
    /\ Ready /\ setting[x] # Nothing
    /\ key' = kdf
    /\ entries' = Put(setting[x].of, "password", setting[x], kdf)
    /\ setting' = [setting EXCEPT ![x] = Nothing]
    /\ UNCHANGED <<keyfile, kdf, minted, dropping, up, connect>>

(* A wrong passphrase, or none: the request fails.                         *)
SetterFails(x) ==
    /\ Ready /\ setting[x] # Nothing
    /\ setting' = [setting EXCEPT ![x] = Nothing]
    /\ UNCHANGED <<vault, connect>>

-----------------------------------------------------------------------------
(* The vault itself *)

(* The unlock request, with the right passphrase.                          *)
unlock ==
    /\ Ready /\ kdf # NoKey
    /\ key' = kdf
    /\ UNCHANGED <<file, minted, dropping, up, connect, setting>>

Resealed(kk) == [s \in Slots |-> IF entries[s] = Nothing THEN Nothing ELSE [entries[s] EXCEPT !.by = kk]]

(* Mutant of setPassphrase: vault.key goes first.                          *)
setPassphraseUnlinksFirst ==
    /\ Ready /\ key # NoKey /\ minted < MaxKeys
    /\ keyfile' = NoKey
    /\ dropping' = TRUE
    /\ UNCHANGED <<entries, kdf, key, minted, up, connect, setting>>

(* setPassphrase, up to and including persist.                             *)
setPassphrase ==
    /\ Ready /\ key # NoKey /\ minted < MaxKeys
    /\ minted' = minted + 1
    /\ entries' = Resealed(minted')
    /\ kdf' = minted' /\ key' = minted'
    /\ dropping' = TRUE
    /\ UNCHANGED <<keyfile, up, connect, setting>>

(* Its last statement.                                                     *)
UnlinkKeyfile ==
    /\ up /\ dropping
    /\ keyfile' = NoKey
    /\ dropping' = FALSE
    /\ UNCHANGED <<entries, kdf, key, minted, up, connect, setting>>

(* The daemon dies, in the middle of setPassphrase or anywhere else.       *)
Crash ==
    /\ up
    /\ up' = FALSE /\ key' = NoKey /\ dropping' = FALSE
    /\ pc' = [k \in Conns |-> "idle"]
    /\ tries' = [k \in Conns |-> 0]
    /\ typed' = [k \in Conns |-> Nothing]
    /\ offered' = [k \in Conns |-> Nothing]
    /\ setting' = [x \in Setters |-> Nothing]
    /\ UNCHANGED <<file, minted>>

(* Vault.open: without a passphrase the key comes from vault.key, and a    *)
(* missing one is made.                                                    *)
open ==
    /\ ~up
    /\ up' = TRUE
    /\ \/ kdf # NoKey /\ UNCHANGED <<keyfile, key, minted>>
       \/ kdf = NoKey /\ keyfile # NoKey /\ key' = keyfile /\ UNCHANGED <<keyfile, minted>>
       \/ /\ kdf = NoKey /\ keyfile = NoKey /\ minted < MaxKeys
          /\ minted' = minted + 1
          /\ keyfile' = minted' /\ key' = minted'
    /\ UNCHANGED <<entries, kdf, dropping, connect, setting>>

Next ==
    \/ \E k \in Conns :
          \/ Start(k) \/ Fetched(k) \/ \E t \in Texts : Answered(k, t)
          \/ PromptFails(k) \/ Unlocked(k) \/ WrongPhrase(k)
          \/ Accepts(k) \/ Rejects(k)
    \/ \E x \in Setters :
          \/ \E k \in Conns, t \in Texts : SetSecret(x, k, t)
          \/ SetterUnlocks(x) \/ SetterFails(x)
    \/ unlock \/ setPassphrase \/ UnlinkKeyfile \/ Crash \/ open

Spec == Init /\ [][Next]_vars

(* A prompt ends (Broker, EveryQuestionSettles), and so do a command and   *)
(* the server's verdict; synchronous code goes on.                         *)
Progress(k) ==
    \/ (\E t \in Texts : Answered(k, t)) \/ PromptFails(k) \/ Unlocked(k) \/ WrongPhrase(k)
    \/ Fetched(k) \/ Accepts(k) \/ Rejects(k)

FairSpec ==
    /\ Spec
    /\ WF_vars(UnlinkKeyfile \/ open)
    /\ \A k \in Conns : WF_vars(Progress(k))

-----------------------------------------------------------------------------
(* Properties *)

(* A workspace connection that shadows a global one by name does not       *)
(* inherit its password (secrets.ts:124-127): no server is ever offered,   *)
(* and no slot ever holds, what was given for another connection.          *)
NoInheritedSecret ==
    \A k \in Conns :
        /\ offered[k] # Nothing => offered[k].of = k
        /\ \A p \in Purposes : entries[slot(k, p)] # Nothing => entries[slot(k, p)].secret.of = k

(* Whatever crashed, and whenever a passphrase was set, the vault on disk  *)
(* can be opened with the key the next start will have: vault.key, or the  *)
(* one derived from the passphrase.                                        *)
VaultOpens ==
    \A s \in Slots : entries[s] # Nothing => entries[s].by = IF kdf # NoKey THEN kdf ELSE keyfile

(* No copy of a secret that has an owner elsewhere, or that belongs to a   *)
(* .sql file, ever gets into the vault, by a prompt, a setSecret or a      *)
(* retry (secrets.test.ts:67, README.md:538).                              *)
NoSecondSource ==
    \A k \in Conns, p \in Purposes :
        k \in Inline \/ Source[k] \in {"command", "env"} => entries[slot(k, p)] = Nothing

(* A connect that succeeds leaves a secret behind, so the next one needs   *)
(* nobody (secrets.test.ts:140), whatever was rejected on the way.         *)
ReadyNextTime ==
    [][\A k \in Conns : Accepts(k) /\ Kept(k) => entries[slot(k, Purpose[k])] # Nothing]_vars

(* Every connect ends: three rejections are the last, and a refusal is     *)
(* taken for an answer.                                                    *)
ConnectEnds == \A k \in Conns : pc[k] # "idle" ~> pc[k] = "idle"

(* Only a stored credential that the server rejected is discarded          *)
(* (sessions.ts:158).                                                      *)
OnlyRejectedForgotten ==
    [][\A s \in Slots : entries[s] # Nothing /\ entries'[s] = Nothing =>
          \E k \in Conns : Rejects(k) /\ offered[k] = entries[s].secret]_vars
=============================================================================
