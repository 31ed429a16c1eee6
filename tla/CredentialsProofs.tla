------------------------- MODULE CredentialsProofs -------------------------
(***************************************************************************)
(* Proofs about Credentials, for any connections, secrets, vault keys and  *)
(* requests.  The inductive invariant: every entry of the vault belongs to *)
(* a connection whose secrets are kept, was given for that connection and  *)
(* is sealed under the key the next start will have; and each connect      *)
(* under way only carries its own connection's secret.                     *)
(***************************************************************************)
EXTENDS Credentials, TLAPS

SealingKey == IF kdf # NoKey THEN kdf ELSE keyfile

(* What the contents of the vault may be when sealed under sk.             *)
GoodEntries(ents, sk) ==
    /\ ents \in [Slots -> Sealed \cup {Nothing}]
    /\ \A k \in Conns, p \in Purposes :
          ents[slot(k, p)] # Nothing =>
              /\ Kept(k)
              /\ ents[slot(k, p)].secret.of = k
              /\ ents[slot(k, p)].by = sk

ConnectInv ==
    \A k \in Conns :
        /\ pc[k] # "idle" => tries[k] \in 1..MaxTries
        /\ typed[k] # Nothing => pc[k] = "unlocking" /\ typed[k].of = k /\ Kept(k)
        /\ offered[k] # Nothing => offered[k].of = k
        /\ pc[k] = "trying" /\ Kept(k) => entries[slot(k, Purpose[k])] # Nothing
        /\ pc[k] = "unlocking" => kdf # NoKey
        /\ pc[k] = "fetching" => ~Kept(k)

KeyInv ==
    /\ key # NoKey => up /\ key = SealingKey
    /\ up /\ kdf = NoKey => key # NoKey
    /\ dropping => kdf # NoKey
    /\ \A x \in Setters : setting[x] # Nothing => kdf # NoKey /\ Kept(setting[x].of)

CInv == TypeOK /\ GoodEntries(entries, SealingKey) /\ ConnectInv /\ KeyInv

-----------------------------------------------------------------------------
(* Two connections, or two kinds of secret, never share a slot.            *)
LEMMA SlotsApart ==
    ASSUME NEW j \in Conns, NEW k \in Conns, NEW p \in Purposes, NEW q \in Purposes
    PROVE  /\ slot(k, p) \in Slots
           /\ slot(j, q) = slot(k, p) => j = k /\ q = p
<1>1. slot(k, p) \in Slots
  BY DEF slot, Slots
<1>2. ASSUME slot(j, q) = slot(k, p) PROVE j = k /\ q = p
  <2>1. Scope[j] = Scope[k] /\ Name[j] = Name[k] /\ q = p
    BY <1>2 DEF slot
  <2> QED BY <2>1, CredentialsAssumption
<1> QED BY <1>1, <1>2

LEMMA PurposeOf == ASSUME NEW k \in Conns PROVE Purpose[k] \in Purposes
  BY CredentialsAssumption

(* Storing a secret of k, or removing what is in a slot, leaves the        *)
(* contents good and the other connections' slots alone.                   *)
LEMMA PutGood ==
    ASSUME NEW k \in Conns, NEW p \in Purposes, NEW secret \in Secrets, NEW sk \in Keys,
           GoodEntries(entries, sk), Kept(k), secret.of = k
    PROVE  /\ GoodEntries(Put(k, p, secret, sk), sk)
           /\ Put(k, p, secret, sk)[slot(k, p)] # Nothing
           /\ \A j \in Conns, q \in Purposes :
                 entries[slot(j, q)] # Nothing => Put(k, p, secret, sk)[slot(j, q)] # Nothing
<1> DEFINE new == [secret |-> secret, by |-> sk]
<1>1. new \in Sealed /\ new # Nothing /\ new.secret.of = k /\ new.by = sk
  BY SealedAssumption DEF Sealed
<1>2. slot(k, p) \in Slots
  BY SlotsApart
<1>3. Put(k, p, secret, sk) \in [Slots -> Sealed \cup {Nothing}]
  BY <1>1, <1>2 DEF Put, GoodEntries
<1>4. Put(k, p, secret, sk)[slot(k, p)] = new
  BY <1>2 DEF Put, GoodEntries
<1>5. ASSUME NEW j \in Conns, NEW q \in Purposes, slot(j, q) # slot(k, p)
      PROVE  Put(k, p, secret, sk)[slot(j, q)] = entries[slot(j, q)]
  <2>1. slot(j, q) \in Slots
    BY SlotsApart
  <2> QED BY <1>5, <2>1, <1>2 DEF Put, GoodEntries
<1>6. ASSUME NEW j \in Conns, NEW q \in Purposes, slot(j, q) = slot(k, p)
      PROVE  j = k
  BY <1>6, SlotsApart
<1> HIDE DEF new
<1>7. ASSUME NEW j \in Conns, NEW q \in Purposes, Put(k, p, secret, sk)[slot(j, q)] # Nothing
      PROVE  /\ Kept(j)
             /\ Put(k, p, secret, sk)[slot(j, q)].secret.of = j
             /\ Put(k, p, secret, sk)[slot(j, q)].by = sk
  <2>1. CASE slot(j, q) = slot(k, p)
    BY <2>1, <1>6, <1>4, <1>1
  <2>2. CASE slot(j, q) # slot(k, p)
    BY <2>2, <1>5, <1>7 DEF GoodEntries
  <2> QED BY <2>1, <2>2
<1>8. \A j \in Conns, q \in Purposes :
         entries[slot(j, q)] # Nothing => Put(k, p, secret, sk)[slot(j, q)] # Nothing
  BY <1>4, <1>1, <1>5
<1> QED BY <1>3, <1>7, <1>8, <1>4, <1>1 DEF GoodEntries

LEMMA RemoveGood ==
    ASSUME NEW k \in Conns, NEW p \in Purposes, NEW sk \in Keys \cup {NoKey}, NEW ents,
           GoodEntries(ents, sk)
    PROVE  /\ GoodEntries([ents EXCEPT ![slot(k, p)] = Nothing], sk)
           /\ \A j \in Conns \ {k}, q \in Purposes :
                 [ents EXCEPT ![slot(k, p)] = Nothing][slot(j, q)] = ents[slot(j, q)]
<1> DEFINE new == [ents EXCEPT ![slot(k, p)] = Nothing]
<1>1. new \in [Slots -> Sealed \cup {Nothing}]
  BY DEF GoodEntries
<1>2. ASSUME NEW j \in Conns, NEW q \in Purposes
      PROVE  /\ slot(j, q) = slot(k, p) => j = k /\ new[slot(j, q)] = Nothing
             /\ slot(j, q) # slot(k, p) => new[slot(j, q)] = ents[slot(j, q)]
  <2>1. slot(j, q) \in Slots /\ slot(k, p) \in Slots
    BY SlotsApart
  <2>2. slot(j, q) = slot(k, p) => j = k
    BY SlotsApart
  <2> QED BY <2>1, <2>2 DEF GoodEntries
<1> HIDE DEF new
<1>3. \A j \in Conns, q \in Purposes :
         new[slot(j, q)] # Nothing =>
            Kept(j) /\ new[slot(j, q)].secret.of = j /\ new[slot(j, q)].by = sk
  BY <1>2 DEF GoodEntries
<1>4. \A j \in Conns \ {k}, q \in Purposes : new[slot(j, q)] = ents[slot(j, q)]
  BY <1>2
<1> QED BY <1>1, <1>3, <1>4 DEF GoodEntries, new

-----------------------------------------------------------------------------
(* Connects *)

(* What stays as it is in every step of a connect.                         *)
Elsewhere == UNCHANGED <<keyfile, kdf, minted, dropping, up, setting>>

(* A step of k's connect to a wait that makes sense keeps the invariant.   *)
LEMMA AtKeeps ==
    ASSUME CInv, up, NEW k \in Conns, NEW n \in 0..MaxTries,
           NEW w \in {"idle", "fetching", "asked", "unlocking", "trying"},
           NEW a \in Secrets \cup {Nothing}, NEW s \in Secrets \cup {Nothing},
           At(k, n, w, a, s), Elsewhere, key' = key \/ (key' = kdf /\ kdf # NoKey),
           GoodEntries(entries', SealingKey),
           \A j \in Conns \ {k}, q \in Purposes :
              entries[slot(j, q)] # Nothing => entries'[slot(j, q)] # Nothing,
           w # "idle" => n # 0,
           a # Nothing => w = "unlocking" /\ a.of = k /\ Kept(k),
           w = "trying" <=> s # Nothing,
           s # Nothing => s.of = k,
           w = "trying" /\ Kept(k) => entries'[slot(k, Purpose[k])] # Nothing,
           w = "unlocking" => kdf # NoKey,
           w = "fetching" => ~Kept(k)
    PROVE  CInv'
<1> USE DEF At, Elsewhere
<1>1. SealingKey' = SealingKey
  BY DEF SealingKey
<1>2. GoodEntries(entries, SealingKey)'
  BY <1>1 DEF GoodEntries, Kept
<1>3. TypeOK'
  BY <1>2 DEF CInv, TypeOK, GoodEntries
<1>4. ConnectInv'
  <2> SUFFICES ASSUME NEW j \in Conns
               PROVE  /\ pc'[j] # "idle" => tries'[j] \in 1..MaxTries
                      /\ typed'[j] # Nothing => pc'[j] = "unlocking" /\ typed'[j].of = j /\ Kept(j)
                      /\ offered'[j] # Nothing => offered'[j].of = j
                      /\ pc'[j] = "trying" /\ Kept(j) => entries'[slot(j, Purpose[j])] # Nothing
                      /\ pc'[j] = "unlocking" => kdf' # NoKey
                      /\ pc'[j] = "fetching" => ~Kept(j)
    BY DEF ConnectInv, Kept, slot
  <2>1. CASE j = k
    <3>1. pc'[j] = w /\ tries'[j] = n /\ typed'[j] = a /\ offered'[j] = s
      BY <2>1 DEF CInv, TypeOK
    <3> QED BY <2>1, <3>1 DEF MaxTries
  <2>2. CASE j # k
    <3>1. pc'[j] = pc[j] /\ tries'[j] = tries[j] /\ typed'[j] = typed[j] /\ offered'[j] = offered[j]
      BY <2>2 DEF CInv, TypeOK
    <3>2. Purpose[j] \in Purposes
      BY PurposeOf
    <3> QED BY <2>2, <3>1, <3>2 DEF CInv, ConnectInv
  <2> QED BY <2>1, <2>2
<1>5. KeyInv'
  BY <1>1 DEF CInv, KeyInv, SealingKey, Kept
<1> QED BY <1>2, <1>3, <1>4, <1>5 DEF CInv

(* Consulting a vault with good contents leads to a wait that makes sense. *)
LEMMA ConsultKeeps ==
    ASSUME CInv, up, NEW k \in Conns, NEW n \in 1..MaxTries, NEW ents, NEW kk,
           Consult(k, n, ents, kk), Elsewhere, key' = key \/ (key' = kdf /\ kdf # NoKey),
           kk = NoKey => kdf # NoKey,
           GoodEntries(ents, SealingKey),
           \A j \in Conns \ {k}, q \in Purposes :
              entries[slot(j, q)] # Nothing => ents[slot(j, q)] # Nothing
    PROVE  CInv'
<1> DEFINE found == ents[slot(k, Purpose[k])]
<1>1. /\ Purpose[k] \in Purposes /\ slot(k, Purpose[k]) \in Slots
      /\ slot(k, "password") \in Slots
  BY PurposeOf, SlotsApart DEF Purposes
<1>2. SealingKey \in Keys \cup {NoKey}
  BY DEF CInv, TypeOK, SealingKey
<1>3. found \in Sealed \cup {Nothing}
      /\ (found # Nothing => Kept(k) /\ found.secret \in Secrets /\ found.secret # Nothing
                              /\ found.secret.of = k)
  BY <1>1, CredentialsAssumption DEF GoodEntries, Sealed
<1> HIDE DEF found
<1>4. CASE FromFile(k) /\ Offer(k, n, [of |-> k, text |-> CHOOSE t \in Texts : TRUE]) /\ entries' = ents
  <2> DEFINE own == [of |-> k, text |-> CHOOSE t \in Texts : TRUE]
  <2>1. own \in Secrets /\ own # Nothing /\ own.of = k
    BY CredentialsAssumption DEF Secrets
  <2>2. ~Kept(k)
    BY <1>4, CredentialsAssumption DEF FromFile, Kept
  <2>3. At(k, n, "trying", Nothing, own)
    BY <1>4 DEF Offer
  <2> HIDE DEF own
  <2> QED BY <1>4, <2>1, <2>2, <2>3, AtKeeps DEF MaxTries
<1>5. CASE External(k) /\ Await(k, n, "fetching") /\ entries' = ents
  <2>1. At(k, n, "fetching", Nothing, Nothing)
    BY <1>5 DEF Await
  <2>2. ~Kept(k)
    BY <1>5 DEF External, Kept
  <2> QED BY <1>5, <2>1, <2>2, AtKeeps DEF MaxTries
<1>6. CASE found # Nothing /\ kk # NoKey /\ Offer(k, n, found.secret) /\ entries' = ents
  <2>1. At(k, n, "trying", Nothing, found.secret)
    BY <1>6 DEF Offer
  <2>2. entries'[slot(k, Purpose[k])] # Nothing
    BY <1>6 DEF found
  <2> QED BY <1>6, <2>1, <2>2, <1>3, AtKeeps DEF MaxTries
<1>7. CASE found # Nothing /\ kk = NoKey /\ Await(k, n, "unlocking") /\ entries' = ents
  <2>1. At(k, n, "unlocking", Nothing, Nothing)
    BY <1>7 DEF Await
  <2> QED BY <1>7, <2>1, AtKeeps DEF MaxTries
<1>8. CASE Await(k, n, "asked") /\ entries' = ents
  <2>1. At(k, n, "asked", Nothing, Nothing)
    BY <1>8 DEF Await
  <2> QED BY <1>8, <2>1, AtKeeps DEF MaxTries
<1>9. CASE /\ End(k)
           /\ entries' = IF n < MaxTries THEN [ents EXCEPT ![slot(k, "password")] = Nothing] ELSE ents
  <2>1. At(k, 0, "idle", Nothing, Nothing)
    BY <1>9 DEF End, Await
  <2>2. /\ GoodEntries(entries', SealingKey)
        /\ \A j \in Conns \ {k}, q \in Purposes :
              entries[slot(j, q)] # Nothing => entries'[slot(j, q)] # Nothing
    BY <1>9, <1>2, RemoveGood DEF Purposes
  <2> QED BY <2>1, <2>2, AtKeeps DEF MaxTries
<1> QED BY <1>4, <1>5, <1>6, <1>7, <1>8, <1>9 DEF Consult, found

LEMMA RetryKeeps ==
    ASSUME CInv, Ready, NEW k \in Conns, pc[k] \in {"unlocking", "trying"},
           Retry(k), UNCHANGED key, Elsewhere
    PROVE  CInv'
<1>1. tries[k] \in 1..MaxTries
  BY DEF CInv, ConnectInv
<1>2. SealingKey \in Keys \cup {NoKey}
  BY DEF CInv, TypeOK, SealingKey
<1>3. CASE tries[k] < MaxTries /\ Consult(k, tries[k] + 1, Without(k), key)
  <2>1. GoodEntries(entries, SealingKey)
    BY DEF CInv
  <2>2. /\ GoodEntries(Without(k), SealingKey)
        /\ \A j \in Conns \ {k}, q \in Purposes : Without(k)[slot(j, q)] = entries[slot(j, q)]
    BY <1>2, <2>1, RemoveGood DEF Without, Purposes
  <2>3. tries[k] + 1 \in 1..MaxTries
    BY <1>1, <1>3 DEF MaxTries
  <2>4. key = NoKey => kdf # NoKey
    BY DEF CInv, KeyInv, Ready
  <2> QED BY <1>3, <2>2, <2>3, <2>4, ConsultKeeps DEF Ready
<1>4. CASE End(k) /\ UNCHANGED entries
  <2>1. At(k, 0, "idle", Nothing, Nothing)
    BY <1>4 DEF End, Await
  <2> QED BY <1>4, <2>1, AtKeeps DEF CInv, MaxTries, Ready
<1> QED BY <1>3, <1>4 DEF Retry

-----------------------------------------------------------------------------
(* The invariant *)

LEMMA CredentialsInit == Init => CInv
<1> SUFFICES ASSUME Init PROVE CInv
  OBVIOUS
<1> USE DEF Init
<1>1. TypeOK
  <2>1. minted \in 0..MaxKeys
    BY CredentialsAssumption
  <2>2. tries \in [Conns -> 0..MaxTries]
    BY DEF MaxTries
  <2>3. \A k \in Conns : pc[k] = "trying" <=> offered[k] # Nothing
    OBVIOUS
  <2> QED BY <2>1, <2>2, <2>3 DEF TypeOK
<1>2. GoodEntries(entries, SealingKey)
  BY SlotsApart DEF GoodEntries
<1>3. ConnectInv /\ KeyInv
  BY DEF ConnectInv, KeyInv
<1> QED BY <1>1, <1>2, <1>3 DEF CInv

(* The steps of a connect.                                                 *)
LEMMA ConnectStep ==
    ASSUME CInv, NEW k \in Conns,
           \/ Start(k) \/ Fetched(k) \/ \E t \in Texts : Answered(k, t)
           \/ PromptFails(k) \/ Unlocked(k) \/ WrongPhrase(k)
           \/ Accepts(k) \/ Rejects(k)
    PROVE  CInv'
<1>1. GoodEntries(entries, SealingKey) /\ Purpose[k] \in Purposes
  BY PurposeOf DEF CInv
<1>2. key = NoKey /\ up => kdf # NoKey
  BY DEF CInv, KeyInv
<1>3. pc[k] # "idle" => tries[k] \in 1..MaxTries /\ tries[k] \in 0..MaxTries /\ tries[k] # 0
  BY DEF CInv, ConnectInv, MaxTries
<1>4. ASSUME End(k), up, UNCHANGED <<vault, setting>> PROVE CInv'
  <2>1. At(k, 0, "idle", Nothing, Nothing)
    BY <1>4 DEF End, Await
  <2> QED BY <1>1, <1>4, <2>1, AtKeeps DEF MaxTries, vault, file, Elsewhere
<1>5. CASE Start(k)
  BY <1>1, <1>2, <1>5, ConsultKeeps DEF Start, Ready, Elsewhere, MaxTries
<1>6. CASE Fetched(k)
  <2>1. CASE \E t \in Texts : Offer(k, tries[k], [of |-> k, text |-> t])
    <3>1. PICK t \in Texts : Offer(k, tries[k], [of |-> k, text |-> t])
      BY <2>1
    <3> DEFINE secret == [of |-> k, text |-> t]
    <3>2. secret \in Secrets /\ secret # Nothing /\ secret.of = k
      BY CredentialsAssumption DEF Secrets
    <3>3. At(k, tries[k], "trying", Nothing, secret)
      BY <3>1 DEF Offer
    <3> HIDE DEF secret
    <3>4. Kept(k) => entries'[slot(k, Purpose[k])] # Nothing
      BY <1>6 DEF CInv, ConnectInv, Fetched
    <3> QED BY <1>1, <1>3, <1>6, <3>2, <3>3, <3>4, AtKeeps DEF Fetched, Ready, vault, file, Elsewhere
  <2>2. CASE End(k)
    BY <1>4, <1>6, <2>2 DEF Fetched, Ready
  <2> QED BY <1>6, <2>1, <2>2 DEF Fetched
<1>7. CASE \E t \in Texts : Answered(k, t)
  <2>1. PICK t \in Texts : Answered(k, t)
    BY <1>7
  <2> DEFINE secret == [of |-> k, text |-> t]
  <2>2. secret \in Secrets /\ secret # Nothing /\ secret.of = k
    BY CredentialsAssumption DEF Secrets
  <2>3. /\ Ready /\ pc[k] = "asked" /\ Elsewhere /\ key' = key
        /\ \/ /\ Kept(k) /\ key = NoKey
              /\ At(k, tries[k], "unlocking", secret, Nothing)
              /\ UNCHANGED entries
           \/ /\ ~(Kept(k) /\ key = NoKey)
              /\ At(k, tries[k], "trying", Nothing, secret)
              /\ entries' = IF Kept(k) THEN Put(k, Purpose[k], secret, key) ELSE entries
    BY <2>1 DEF Answered, Offer, Elsewhere
  <2> HIDE DEF secret
  <2>4. CASE Kept(k) /\ key = NoKey
    BY <1>1, <1>2, <1>3, <2>2, <2>3, <2>4, AtKeeps DEF Ready
  <2>5. CASE Kept(k) /\ key # NoKey
    <3>1. key = SealingKey /\ key \in Keys
      BY <2>5 DEF CInv, KeyInv, TypeOK
    <3>2. /\ GoodEntries(Put(k, Purpose[k], secret, key), SealingKey)
          /\ Put(k, Purpose[k], secret, key)[slot(k, Purpose[k])] # Nothing
          /\ \A j \in Conns, q \in Purposes :
                entries[slot(j, q)] # Nothing => Put(k, Purpose[k], secret, key)[slot(j, q)] # Nothing
      BY <1>1, <2>2, <2>5, <3>1, PutGood
    <3>3. entries' = Put(k, Purpose[k], secret, key) /\ At(k, tries[k], "trying", Nothing, secret)
      BY <2>3, <2>5
    <3> QED BY <1>3, <2>2, <2>3, <3>2, <3>3, AtKeeps DEF Ready
  <2>6. CASE ~Kept(k)
    <3>1. UNCHANGED entries /\ At(k, tries[k], "trying", Nothing, secret)
      BY <2>3, <2>6
    <3> QED BY <1>1, <1>3, <2>2, <2>3, <2>6, <3>1, AtKeeps DEF Ready
  <2> QED BY <2>4, <2>5, <2>6
<1>8. CASE PromptFails(k)
  BY <1>4, <1>8 DEF PromptFails, Ready
<1>9. CASE Unlocked(k)
  <2>1. /\ up /\ Elsewhere /\ pc[k] = "unlocking" /\ key' = kdf /\ kdf # NoKey
        /\ kdf = SealingKey /\ kdf \in Keys
    BY <1>9 DEF Unlocked, Ready, Elsewhere, CInv, ConnectInv, SealingKey, TypeOK
  <2>2. CASE typed[k] = Nothing /\ Consult(k, tries[k], entries, kdf)
    BY <1>1, <1>3, <2>1, <2>2, ConsultKeeps
  <2>3. CASE /\ typed[k] # Nothing /\ Offer(k, tries[k], typed[k])
             /\ entries' = Put(k, Purpose[k], typed[k], kdf)
    <3>1. typed[k] \in Secrets /\ typed[k].of = k /\ Kept(k)
      BY <2>3 DEF CInv, TypeOK, ConnectInv
    <3>2. /\ GoodEntries(Put(k, Purpose[k], typed[k], kdf), SealingKey)
          /\ Put(k, Purpose[k], typed[k], kdf)[slot(k, Purpose[k])] # Nothing
          /\ \A j \in Conns, q \in Purposes :
                entries[slot(j, q)] # Nothing => Put(k, Purpose[k], typed[k], kdf)[slot(j, q)] # Nothing
      BY <1>1, <2>1, <3>1, PutGood
    <3>3. At(k, tries[k], "trying", Nothing, typed[k])
      BY <2>3 DEF Offer
    <3> QED BY <1>3, <2>1, <2>3, <3>1, <3>2, <3>3, AtKeeps
  <2> QED BY <1>9, <2>2, <2>3 DEF Unlocked
<1>10. CASE WrongPhrase(k)
  BY <1>10, RetryKeeps DEF WrongPhrase, Elsewhere
<1>11. CASE Accepts(k)
  BY <1>4, <1>11 DEF Accepts, Ready
<1>12. CASE Rejects(k)
  BY <1>12, RetryKeeps DEF Rejects, Elsewhere
<1> QED BY <1>5, <1>6, <1>7, <1>8, <1>9, <1>10, <1>11, <1>12

(* The steps of setSecret and of the vault, which leave connects alone.    *)
LEMMA SetterStep ==
    ASSUME CInv, NEW x \in Setters,
           \/ \E k \in Conns, t \in Texts : SetSecret(x, k, t)
           \/ SetterUnlocks(x) \/ SetterFails(x)
    PROVE  CInv'
<1>1. GoodEntries(entries, SealingKey)
  BY DEF CInv
<1>2. ASSUME NEW k \in Conns, NEW secret \in Secrets, NEW kk \in Keys, kk = SealingKey,
             secret.of = k, Kept(k), entries' = Put(k, "password", secret, kk),
             key' = kk, up, setting' \in [Setters -> Secrets \cup {Nothing}],
             \A y \in Setters : setting'[y] # Nothing => setting[y] # Nothing /\ setting'[y] = setting[y],
             UNCHANGED <<keyfile, kdf, minted, dropping, up, connect>>
      PROVE  CInv'
  <2>1. /\ GoodEntries(Put(k, "password", secret, kk), SealingKey)
        /\ \A j \in Conns, q \in Purposes :
              entries[slot(j, q)] # Nothing => Put(k, "password", secret, kk)[slot(j, q)] # Nothing
    BY <1>1, <1>2, PutGood DEF Purposes
  <2>2. SealingKey' = SealingKey
    BY <1>2 DEF SealingKey
  <2>3. GoodEntries(entries, SealingKey)'
    BY <1>2, <2>1, <2>2 DEF GoodEntries, Kept
  <2>4. TypeOK'
    BY <1>2, <2>3 DEF CInv, TypeOK, GoodEntries, connect
  <2>5. ConnectInv'
    <3> SUFFICES ASSUME NEW j \in Conns, pc[j] = "trying", Kept(j)
                 PROVE  entries'[slot(j, Purpose[j])] # Nothing
      BY <1>2 DEF CInv, ConnectInv, connect, Kept, slot
    <3> QED BY <1>2, <2>1, PurposeOf DEF CInv, ConnectInv
  <2>6. KeyInv'
    BY <1>2, <2>2 DEF CInv, KeyInv, SealingKey, Kept
  <2> QED BY <2>3, <2>4, <2>5, <2>6 DEF CInv
<1>3. ASSUME setting' \in [Setters -> Secrets \cup {Nothing}],
             \A y \in Setters : setting'[y] # Nothing =>
                setting'[y] = setting[y] \/ (kdf # NoKey /\ Kept(setting'[y].of)),
             UNCHANGED <<vault, connect>>
      PROVE  CInv'
  <2>1. SealingKey' = SealingKey
    BY <1>3 DEF SealingKey, vault, file
  <2>2. GoodEntries(entries, SealingKey)'
    BY <1>3, <1>1, <2>1 DEF GoodEntries, Kept, vault, file
  <2>3. TypeOK'
    BY <1>3 DEF CInv, TypeOK, vault, file, connect
  <2>4. ConnectInv'
    BY <1>3 DEF CInv, ConnectInv, vault, file, connect, Kept, slot
  <2>5. KeyInv'
    BY <1>3, <2>1 DEF CInv, KeyInv, vault, file, Kept
  <2> QED BY <2>2, <2>3, <2>4, <2>5 DEF CInv
<1>4. CASE \E k \in Conns, t \in Texts : SetSecret(x, k, t)
  <2>1. PICK k \in Conns, t \in Texts : SetSecret(x, k, t)
    BY <1>4
  <2> DEFINE secret == [of |-> k, text |-> t]
  <2>2. secret \in Secrets /\ secret.of = k
    BY DEF Secrets
  <2>3. /\ Ready /\ Kept(k) /\ UNCHANGED <<keyfile, kdf, key, minted, dropping, up, connect>>
        /\ \/ key # NoKey /\ entries' = Put(k, "password", secret, key) /\ UNCHANGED setting
           \/ key = NoKey /\ setting' = [setting EXCEPT ![x] = secret] /\ UNCHANGED entries
    BY <2>1 DEF SetSecret
  <2> HIDE DEF secret
  <2>4. CASE key # NoKey
    <3>1. key \in Keys /\ key = SealingKey
      BY <2>4 DEF CInv, TypeOK, KeyInv
    <3>2. setting \in [Setters -> Secrets \cup {Nothing}]
      BY DEF CInv, TypeOK
    <3> QED BY <1>2, <2>2, <2>3, <2>4, <3>1, <3>2 DEF Ready
  <2>5. CASE key = NoKey
    <3>1. kdf # NoKey
      BY <2>3, <2>5 DEF CInv, KeyInv, Ready
    <3>2. setting \in [Setters -> Secrets \cup {Nothing}]
      BY DEF CInv, TypeOK
    <3> QED BY <1>3, <2>2, <2>3, <2>5, <3>1, <3>2 DEF vault, file
  <2> QED BY <2>4, <2>5
<1>5. CASE SetterUnlocks(x)
  <2>1. /\ setting[x] \in Secrets /\ setting[x].of \in Conns /\ Kept(setting[x].of)
        /\ kdf \in Keys /\ kdf = SealingKey
    BY <1>5 DEF SetterUnlocks, CInv, TypeOK, KeyInv, SealingKey, Secrets
  <2>2. setting \in [Setters -> Secrets \cup {Nothing}]
    BY DEF CInv, TypeOK
  <2> QED BY <1>2, <1>5, <2>1, <2>2 DEF SetterUnlocks, Ready
<1>6. CASE SetterFails(x)
  <2>1. setting \in [Setters -> Secrets \cup {Nothing}]
    BY DEF CInv, TypeOK
  <2> QED BY <1>3, <1>6, <2>1 DEF SetterFails
<1> QED BY <1>4, <1>5, <1>6

LEMMA VaultStep ==
    ASSUME CInv, unlock \/ setPassphrase \/ UnlinkKeyfile \/ Crash \/ open
    PROVE  CInv'
<1>1. GoodEntries(entries, SealingKey)
  BY DEF CInv
<1> USE DEF connect
<1>2. ASSUME UNCHANGED <<entries, connect, setting, kdf>>, GoodEntries(entries, SealingKey'),
             keyfile' \in Keys \cup {NoKey}, key' \in Keys \cup {NoKey}, minted' \in 0..MaxKeys,
             dropping' \in BOOLEAN, up' \in BOOLEAN,
             key' # NoKey => up' /\ key' = SealingKey',
             up' /\ kdf = NoKey => key' # NoKey, dropping' => kdf # NoKey
      PROVE  CInv'
  <2>1. TypeOK'
    BY <1>2 DEF CInv, TypeOK
  <2>2. GoodEntries(entries, SealingKey)'
    BY <1>2 DEF GoodEntries, Kept
  <2>3. ConnectInv' /\ KeyInv'
    BY <1>2 DEF CInv, ConnectInv, KeyInv, Kept, slot
  <2> QED BY <2>1, <2>2, <2>3 DEF CInv
<1>3. CASE unlock
  <2>1. SealingKey' = SealingKey
    BY <1>3 DEF unlock, file, SealingKey
  <2> QED BY <1>1, <1>2, <1>3, <2>1 DEF unlock, file, CInv, TypeOK, KeyInv, SealingKey, Ready
<1>4. CASE setPassphrase
  <2>1. minted' = minted + 1 /\ minted' \in Keys /\ minted' # NoKey /\ SealingKey' = minted'
        /\ UNCHANGED <<keyfile, up, connect, setting>> /\ up /\ dropping' = TRUE
        /\ kdf' = minted' /\ key' = minted'
    BY <1>4, CredentialsAssumption DEF setPassphrase, CInv, TypeOK, Keys, NoKey, SealingKey, Ready
  <2> PICK new \in Keys : new = minted'
    BY <2>1
  <2>2. entries' = Resealed(new)
    BY <1>4 DEF setPassphrase
  <2>3. \A s \in Slots :
           /\ entries[s] = Nothing => entries'[s] = Nothing
           /\ entries[s] # Nothing => /\ entries'[s] \in Sealed /\ entries'[s] # Nothing
                                      /\ entries'[s].secret = entries[s].secret
                                      /\ entries'[s].by = new
    <3> SUFFICES ASSUME NEW s \in Slots
                 PROVE  /\ entries[s] = Nothing => entries'[s] = Nothing
                        /\ entries[s] # Nothing => /\ entries'[s] \in Sealed /\ entries'[s] # Nothing
                                                   /\ entries'[s].secret = entries[s].secret
                                                   /\ entries'[s].by = new
      OBVIOUS
    <3>1. entries'[s] = IF entries[s] = Nothing THEN Nothing ELSE [entries[s] EXCEPT !.by = new]
      BY <2>2 DEF Resealed
    <3>2. entries[s] \in Sealed \cup {Nothing}
      BY <1>1 DEF GoodEntries
    <3> QED BY <3>1, <3>2, SealedAssumption DEF Sealed
  <2>4. entries' \in [Slots -> Sealed \cup {Nothing}]
    <3>1. \A s \in Slots : entries'[s] \in Sealed \cup {Nothing}
      BY <2>3
    <3>2. entries' = [s \in Slots |-> entries'[s]]
      BY <2>2 DEF Resealed
    <3> QED BY <3>1, <3>2
  <2>5. \A k \in Conns, p \in Purposes : slot(k, p) \in Slots
    BY SlotsApart
  <2>6. GoodEntries(entries, SealingKey)'
    BY <1>1, <2>1, <2>3, <2>4, <2>5 DEF GoodEntries, Kept, slot
  <2>7. TypeOK'
    BY <2>1, <2>4, CredentialsAssumption DEF CInv, TypeOK, Keys
  <2>8. ConnectInv'
    <3>1. \A k \in Conns : entries[slot(k, Purpose[k])] # Nothing => entries'[slot(k, Purpose[k])] # Nothing
      BY <2>3, <2>5, PurposeOf
    <3> QED BY <2>1, <3>1 DEF CInv, ConnectInv, Kept, slot
  <2>9. KeyInv'
    BY <2>1 DEF CInv, KeyInv, Kept
  <2> QED BY <2>6, <2>7, <2>8, <2>9 DEF CInv
<1>5. CASE UnlinkKeyfile
  <2>1. SealingKey' = SealingKey
    BY <1>5 DEF UnlinkKeyfile, CInv, KeyInv, SealingKey
  <2> QED BY <1>1, <1>2, <1>5, <2>1 DEF UnlinkKeyfile, CInv, TypeOK, KeyInv
<1>6. CASE Crash
  <2>1. SealingKey' = SealingKey
    BY <1>6 DEF Crash, file, SealingKey
  <2>2. TypeOK'
    <3>1. tries' \in [Conns -> 0..MaxTries]
      BY <1>6 DEF Crash, MaxTries
    <3>2. \A k \in Conns : pc'[k] = "trying" <=> offered'[k] # Nothing
      BY <1>6 DEF Crash
    <3> QED BY <1>6, <3>1, <3>2 DEF Crash, file, CInv, TypeOK
  <2>3. GoodEntries(entries, SealingKey)'
    BY <1>1, <1>6, <2>1 DEF Crash, file, GoodEntries, Kept, slot
  <2>4. ConnectInv' /\ KeyInv'
    BY <1>6 DEF Crash, ConnectInv, KeyInv
  <2> QED BY <2>2, <2>3, <2>4 DEF CInv
<1>7. CASE open
  <2>1. CASE kdf # NoKey /\ UNCHANGED <<keyfile, key, minted>>
    <3>1. SealingKey' = SealingKey
      BY <1>7, <2>1 DEF open, SealingKey
    <3> QED BY <1>1, <1>2, <1>7, <2>1, <3>1 DEF open, CInv, TypeOK, KeyInv
  <2>2. CASE kdf = NoKey /\ keyfile # NoKey /\ key' = keyfile /\ UNCHANGED <<keyfile, minted>>
    <3>1. SealingKey' = SealingKey /\ SealingKey' = key'
      BY <1>7, <2>2 DEF open, SealingKey
    <3> QED BY <1>1, <1>2, <1>7, <2>2, <3>1 DEF open, CInv, TypeOK, KeyInv
  <2>3. CASE /\ kdf = NoKey /\ keyfile = NoKey /\ minted < MaxKeys
             /\ minted' = minted + 1 /\ keyfile' = minted' /\ key' = minted'
    <3>1. minted' \in Keys /\ minted' \in 0..MaxKeys /\ minted' # NoKey /\ SealingKey' = minted'
      BY <1>7, <2>3, CredentialsAssumption DEF open, CInv, TypeOK, Keys, NoKey, SealingKey
    <3>2. \A k \in Conns, p \in Purposes : entries[slot(k, p)] = Nothing
      BY <1>1, <2>3, SlotsApart DEF GoodEntries, SealingKey, Sealed, Keys, NoKey
    <3>3. GoodEntries(entries, SealingKey')
      BY <1>1, <3>2 DEF GoodEntries
    <3> QED BY <1>2, <1>7, <2>3, <3>1, <3>3 DEF open, CInv, TypeOK, KeyInv
  <2> QED BY <1>7, <2>1, <2>2, <2>3 DEF open
<1> QED BY <1>3, <1>4, <1>5, <1>6, <1>7

THEOREM CredentialsInvariant == Spec => []CInv
<1>1. CInv /\ [Next]_vars => CInv'
  <2> SUFFICES ASSUME CInv, [Next]_vars PROVE CInv'
    OBVIOUS
  <2>1. CASE Next
    BY <2>1, ConnectStep, SetterStep, VaultStep DEF Next
  <2>2. CASE UNCHANGED vars
    BY <2>2 DEF vars, vault, file, connect, CInv, TypeOK, GoodEntries, SealingKey, ConnectInv,
                KeyInv, Kept, slot
  <2> QED BY <2>1, <2>2
<1> QED BY <1>1, CredentialsInit, PTL DEF Spec

-----------------------------------------------------------------------------
(* Type correctness.                                                       *)
THEOREM CredentialsTypeCorrect == Spec => []TypeOK
<1>1. CInv => TypeOK
  BY DEF CInv
<1> QED BY <1>1, CredentialsInvariant, PTL

(* For any connections, no server is offered and no slot holds a secret    *)
(* that was given for another connection.                                  *)
THEOREM SecretsStayPut == Spec => []NoInheritedSecret
<1>1. CInv => NoInheritedSecret
  BY DEF CInv, GoodEntries, ConnectInv, NoInheritedSecret
<1> QED BY <1>1, CredentialsInvariant, PTL

(* For any number of crashes and passphrases, what is in vault.json can be *)
(* opened by the next start.                                               *)
THEOREM VaultAlwaysOpens == Spec => []VaultOpens
<1>1. CInv => VaultOpens
  <2> SUFFICES ASSUME CInv, NEW s \in Slots, entries[s] # Nothing
               PROVE  entries[s].by = IF kdf # NoKey THEN kdf ELSE keyfile
    BY DEF VaultOpens
  <2>1. PICK k \in Conns, p \in Purposes : s = slot(k, p)
    BY DEF Slots, slot
  <2> QED BY <2>1 DEF CInv, GoodEntries, SealingKey
<1> QED BY <1>1, CredentialsInvariant, PTL

(* No secret with an owner elsewhere is ever copied into the vault.        *)
THEOREM NothingCopied == Spec => []NoSecondSource
<1>1. CInv => NoSecondSource
  BY DEF CInv, GoodEntries, NoSecondSource, Kept
<1> QED BY <1>1, CredentialsInvariant, PTL

(* A connect that succeeds leaves its secret in the vault.                 *)
THEOREM NextConnectReady == Spec => ReadyNextTime
<1> DEFINE Stored == \A k \in Conns : Accepts(k) /\ Kept(k) => entries[slot(k, Purpose[k])] # Nothing
<1>1. CInv => Stored
  BY DEF CInv, ConnectInv, Accepts
<1>2. CInv /\ [Next]_vars => [Stored]_vars
  BY <1>1
<1> QED BY <1>2, CredentialsInvariant, PTL DEF ReadyNextTime, Spec
=============================================================================
