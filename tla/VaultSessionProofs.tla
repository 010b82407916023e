------------------------- MODULE VaultSessionProofs -------------------------
(***************************************************************************)
(* Safety of the agent for any number of accounts and of requests in       *)
(* flight, with or without TPM.                                            *)
(*                                                                         *)
(* The properties are consequences of one inductive invariant, Inv.  Its   *)
(* part about the State record, Sound, is shown for each method of State   *)
(* once; an action of VaultSession then only has to say which methods it   *)
(* applied.                                                                *)
(*                                                                         *)
(* The file writes may fail.  The one failure that separates the account   *)
(* in memory from the configured one is a login that saves the config and  *)
(* then cannot open the vault: what is said of the configured account is   *)
(* said for agents where that does not happen, LoginAtomic.                *)
(***************************************************************************)
EXTENDS VaultSession, FiniteSetTheorems, SequenceTheorems, TLAPS

LoginAtomic == "unlock" \notin Faults

\* A State record that agrees with itself and with the account e that
\* the config file names.
Sound(s, e) ==
    /\ s \in State
    /\ (s.session = "Unlocked") <=> (s.keys # None)
    /\ s.keys = None => s.orgKeys = None /\ s.sidebar = None
    /\ s.keys # None => s.db.present
    /\ s.sshIds # None => s.session # "LoggedOut"
    /\ s.db.present => e # None
    /\ LoginAtomic => /\ s.keys # None => s.keys = e
                      /\ s.sshIds # None => s.sshIds = e

Inv ==
    /\ TypeOK
    /\ Sound(st, config.email)
    /\ LoginAtomic => BlobSealsOwnKeys
    /\ RefreshSerialized
-----------------------------------------------------------------------------
(* The methods of State *)

\* What the proofs need of the constants: the empty values are well typed.
LEMMA Constants ==
    /\ None \notin Accounts
    /\ 0 \in 0 .. EpochMod - 1
    /\ NoToken \in Token /\ NoDb \in Db /\ EmptyFile \in DbFile
    /\ ~NoDb.present /\ NoDb.vault = None /\ NoDb.tok = NoToken
  BY AccountsAssumption, EpochAssumption
  DEF NoToken, Token, NoDb, Db, EmptyFile, DbFile, Owner

\* The wrapping bump stays in range and always moves the epoch.
LEMMA EpochStep ==
    ASSUME NEW n \in 0 .. EpochMod - 1
    PROVE  (n + 1) % EpochMod \in 0 .. EpochMod - 1 /\ (n + 1) % EpochMod # n
<1>1. CASE n = EpochMod - 1
  BY <1>1, EpochAssumption
<1>2. CASE n < EpochMod - 1
  BY <1>2, EpochAssumption
<1> QED
  BY <1>1, <1>2, EpochAssumption

\* The state the agent starts with is sound, whatever the config says.
LEMMA NewStateSound ==
    ASSUME NEW e \in Owner, NEW b \in BOOLEAN
    PROVE  Sound(NewState(b), e)
  BY Constants DEF Sound, NewState, State, Owner, VaultSessions

\* lock() leaves a sound record without keys and moves the epoch.
LEMMA LockSound ==
    ASSUME NEW e \in Owner, NEW s, Sound(s, e)
    PROVE  /\ Sound(Lock(s), e)
           /\ Lock(s).keys = None
           /\ Lock(s).epoch # s.epoch
<1>1. s \in State
  BY DEF Sound
<1>2. s.epoch \in 0 .. EpochMod - 1
  BY <1>1 DEF State
<1>3. Lock(s) \in State
  <2> DEFINE d == [s.db EXCEPT !.tok = NoToken]
             n == (s.epoch + 1) % EpochMod
  <2>1. d \in Db
    BY <1>1, Constants DEF State, Db
  <2>2. n \in 0 .. EpochMod - 1
    BY <1>2, EpochStep
  <2>3. Lock(s) = [s EXCEPT !.keys = None, !.orgKeys = None, !.sidebar = None,
                            !.pending = FALSE, !.notified = FALSE,
                            !.session = "Locked", !.db = d, !.epoch = n]
    BY <1>1 DEF Lock, BumpEpoch, State
  <2> HIDE DEF d, n
  <2> QED
    BY <1>1, <2>1, <2>2, <2>3 DEF State, Owner, VaultSessions
<1>4. /\ Lock(s).keys = None /\ Lock(s).orgKeys = None /\ Lock(s).sidebar = None
      /\ Lock(s).session = "Locked"
      /\ Lock(s).sshIds = s.sshIds
      /\ Lock(s).db.present = s.db.present
      /\ Lock(s).epoch = (s.epoch + 1) % EpochMod
  BY <1>1 DEF Lock, BumpEpoch, State, Db
<1> QED
  BY <1>2, <1>3, <1>4, EpochStep DEF Sound

\* So does clear_account().
LEMMA ClearAccountSound ==
    ASSUME NEW e \in Owner, NEW s, Sound(s, e)
    PROVE  /\ Sound(ClearAccount(s), e)
           /\ ClearAccount(s).keys = None
           /\ ClearAccount(s).epoch # s.epoch
<1> DEFINE l == Lock(s)
<1>1. Sound(l, e) /\ l.keys = None /\ l.epoch # s.epoch
  BY LockSound
<1>2. ClearAccount(s) = [l EXCEPT !.sshIds = None, !.db = NoDb, !.userId = None,
                                  !.syncFailed = FALSE, !.session = "LoggedOut"]
  BY DEF ClearAccount
<1>3. l \in State /\ l.orgKeys = None /\ l.sidebar = None
  BY <1>1 DEF Sound
<1> HIDE DEF l
<1>4. ClearAccount(s) \in State
  BY <1>2, <1>3, Constants DEF State, Owner, VaultSessions
<1>5. /\ ClearAccount(s).keys = None /\ ClearAccount(s).orgKeys = None
      /\ ClearAccount(s).sidebar = None /\ ClearAccount(s).sshIds = None
      /\ ClearAccount(s).session = "LoggedOut" /\ ClearAccount(s).db = NoDb
      /\ ClearAccount(s).epoch = l.epoch
  BY <1>1, <1>2, <1>3 DEF State
<1> QED
  BY <1>1, <1>4, <1>5, Constants DEF Sound

\* rebuild_sidebar_cache brings a record whose keys were just set into line,
\* and leaves a locked one without plaintext.
LEMMA RebuildSound ==
    ASSUME NEW e \in Owner, NEW s \in State,
           s.keys # None => s.db.present,
           LoginAtomic /\ s.keys # None => s.keys = e,
           s.keys = None => s.orgKeys = None /\ s.session # "Unlocked",
           s.keys = None /\ s.sshIds # None => s.session # "LoggedOut",
           LoginAtomic /\ s.keys = None /\ s.sshIds # None => s.sshIds = e,
           s.db.present => e # None
    PROVE  /\ Sound(RebuildSidebarCache(s), e)
           /\ RebuildSidebarCache(s).keys = s.keys
           /\ RebuildSidebarCache(s).epoch = s.epoch
           /\ RebuildSidebarCache(s).db = s.db
           /\ s.keys = None => RebuildSidebarCache(s).session = s.session
<1> DEFINE r == RebuildSidebarCache(s)
<1>1. CASE s.keys = None
  <2>1. r = [s EXCEPT !.sidebar = None]
    BY <1>1 DEF RebuildSidebarCache
  <2>2. r \in State
    BY <2>1 DEF State, Owner
  <2>3. /\ r.keys = s.keys /\ r.orgKeys = s.orgKeys /\ r.sidebar = None
        /\ r.db = s.db /\ r.session = s.session /\ r.sshIds = s.sshIds
        /\ r.epoch = s.epoch
    BY <2>1 DEF State
  <2> QED
    BY <1>1, <2>2, <2>3 DEF Sound
<1>2. CASE s.keys # None
  <2> DEFINE i == SshIdentities(s)
             v == s.db.vault
  <2>1. v \in Owner
    BY DEF State, Db
  <2>2. i \in Owner /\ (i # None => i = s.keys)
    BY DEF State, SshIdentities, Owner
  <2>3. r = [s EXCEPT !.sidebar = v, !.sshIds = i, !.session = "Unlocked"]
    BY <1>2 DEF RebuildSidebarCache
  <2> HIDE DEF i, v
  <2>4. r \in State
    BY <2>1, <2>2, <2>3 DEF State, VaultSessions
  <2>5. /\ r.keys = s.keys /\ r.db = s.db /\ r.session = "Unlocked"
        /\ r.sshIds = i /\ r.epoch = s.epoch
    BY <2>3 DEF State
  <2> QED
    BY <1>2, <2>2, <2>4, <2>5 DEF Sound
<1> QED
  BY <1>1, <1>2

\* Both unlock paths, whatever account's vault the file holds.
LEMMA CommitUnlockSound ==
    ASSUME NEW e \in Owner, NEW s, Sound(s, e), NEW f \in DbFile, e # None,
           NEW k \in Accounts, LoginAtomic => k = e
    PROVE  /\ Sound(CommitUnlock(s, k, f), e)
           /\ CommitUnlock(s, k, f).keys = k
           /\ CommitUnlock(s, k, f).epoch # s.epoch
<1>1. /\ s \in State /\ s.epoch \in 0 .. EpochMod - 1 /\ s.db \in Db /\ s.db.tok \in Token
      /\ k \in Owner /\ k # None
  BY Constants DEF Owner, Sound, State, Db
<1> DEFINE d == [LoadDb(f) EXCEPT !.tok = s.db.tok]
           n == (s.epoch + 1) % EpochMod
           u == [s EXCEPT !.keys = k, !.orgKeys = k, !.db = d, !.epoch = n]
<1>2. d \in Db /\ d.present
  BY <1>1, Constants DEF LoadDb, DbFile, Db
<1>3. n \in 0 .. EpochMod - 1 /\ n # s.epoch
  BY <1>1, EpochStep
<1>4. CommitUnlock(s, k, f) = RebuildSidebarCache(u)
  BY <1>1 DEF CommitUnlock, BumpEpoch, State
<1> HIDE DEF d, n
<1>5. u \in State /\ u.keys = k /\ u.db = d /\ u.epoch = n
  BY <1>1, <1>2, <1>3 DEF State
<1> HIDE DEF u
<1>6. /\ Sound(RebuildSidebarCache(u), e)
      /\ RebuildSidebarCache(u).keys = u.keys
      /\ RebuildSidebarCache(u).epoch = u.epoch
  BY <1>1, <1>2, <1>5, RebuildSound
<1> QED
  BY <1>3, <1>4, <1>5, <1>6

\* A login, over whatever account e was there before.
LEMMA CommitLoginSound ==
    ASSUME NEW e \in Owner, NEW s, Sound(s, e), NEW a \in Accounts, NEW k \in Token
    PROVE  /\ Sound(CommitLogin(s, a, k), a)
           /\ CommitLogin(s, a, k).epoch # s.epoch
<1>1. s \in State /\ s.epoch \in 0 .. EpochMod - 1 /\ a \in Owner /\ a # None
  BY Constants DEF Sound, State, Owner
<1> DEFINE d == [present |-> TRUE, kdf |-> TRUE, vault |-> a, tok |-> k]
           n == (s.epoch + 1) % EpochMod
           u == [s EXCEPT !.keys = a, !.orgKeys = a, !.userId = a,
                          !.syncFailed = FALSE, !.db = d, !.epoch = n]
<1>2. d \in Db /\ d.present
  BY <1>1 DEF Db
<1>3. n \in 0 .. EpochMod - 1 /\ n # s.epoch
  BY <1>1, EpochStep
<1>4. CommitLogin(s, a, k) = RebuildSidebarCache(u)
  BY <1>1 DEF CommitLogin, BumpEpoch, State
<1> HIDE DEF d, n
<1>5. u \in State /\ u.keys = a /\ u.db = d /\ u.epoch = n
  BY <1>1, <1>2, <1>3 DEF State
<1> HIDE DEF u
<1>6. /\ Sound(RebuildSidebarCache(u), a)
      /\ RebuildSidebarCache(u).epoch = u.epoch
  BY <1>1, <1>2, <1>5, RebuildSound
<1> QED
  BY <1>3, <1>4, <1>5, <1>6

\* The operations that leave the lock state alone: keys, session and epoch.
Quiet(s, n) == n.keys = s.keys /\ n.session = s.session /\ n.epoch = s.epoch

\* Storing a token pair does not disturb the record, present database or not.
LEMMA StoreTokensSound ==
    ASSUME NEW e \in Owner, NEW s, Sound(s, e), NEW k \in Token
    PROVE  /\ Sound(StoreTokens(s, k), e)
           /\ Quiet(s, StoreTokens(s, k))
<1>1. CASE ~s.db.present
  BY <1>1 DEF StoreTokens, Quiet
<1>2. CASE s.db.present
  <2>1. s \in State /\ s.db \in Db
    BY DEF Sound, State
  <2> DEFINE d == [s.db EXCEPT !.tok = k]
  <2>2. d \in Db /\ d.present = s.db.present
    BY <2>1 DEF Db
  <2>3. StoreTokens(s, k) = [s EXCEPT !.db = d]
    BY <1>2, <2>1 DEF StoreTokens, State
  <2> HIDE DEF d
  <2> DEFINE n == [s EXCEPT !.db = d]
  <2>4. n \in State
    BY <2>1, <2>2 DEF State
  <2>5. /\ n.keys = s.keys /\ n.orgKeys = s.orgKeys /\ n.sidebar = s.sidebar
        /\ n.sshIds = s.sshIds /\ n.session = s.session /\ n.epoch = s.epoch
        /\ n.db = d
    BY <2>1 DEF State
  <2> HIDE DEF n
  <2>6. Sound(n, e) /\ Quiet(s, n)
    BY <2>2, <2>4, <2>5 DEF Sound, Quiet
  <2> QED
    BY <2>3, <2>6 DEF n
<1> QED
  BY <1>1, <1>2

\* The answer of a sync, even one that arrives after lock() or for an account
\* that is no longer the configured one, leaves the record sound.
LEMMA ApplySyncSound ==
    ASSUME NEW e \in Owner, NEW s, Sound(s, e), NEW a \in Owner
    PROVE  /\ Sound(ApplySync(s, a), e)
           /\ Quiet(s, ApplySync(s, a))
           /\ ApplySync(s, a).db.present = s.db.present
<1>1. s \in State /\ s.db \in Db
  BY DEF Sound, State
<1> DEFINE v == IF s.db.present THEN a ELSE s.db.vault
           d == [s.db EXCEPT !.vault = v]
           u == [s EXCEPT !.userId = a, !.db = d, !.syncFailed = FALSE]
<1>2. v \in Owner
  BY <1>1 DEF Db
<1>3. ApplySync(s, a) = RebuildSidebarCache(u)
  BY <1>1 DEF ApplySync, State, Db
<1> HIDE DEF v
<1>4. d \in Db /\ d.present = s.db.present
  BY <1>1, <1>2 DEF Db
<1> HIDE DEF d
<1>5. u \in State
  BY <1>1, <1>4 DEF State
<1>6. /\ u.keys = s.keys /\ u.orgKeys = s.orgKeys /\ u.sidebar = s.sidebar
      /\ u.sshIds = s.sshIds /\ u.session = s.session /\ u.epoch = s.epoch
      /\ u.db = d
  BY <1>1 DEF State
<1> HIDE DEF u
<1>7. /\ s.keys # None => s.db.present /\ s.session = "Unlocked"
      /\ s.keys = None => s.orgKeys = None /\ s.session # "Unlocked"
      /\ s.sshIds # None => s.session # "LoggedOut"
      /\ LoginAtomic /\ s.keys # None => s.keys = e
      /\ LoginAtomic /\ s.sshIds # None => s.sshIds = e
      /\ s.db.present => e # None
  BY DEF Sound
<1>8. /\ Sound(RebuildSidebarCache(u), e)
      /\ RebuildSidebarCache(u).keys = u.keys
      /\ RebuildSidebarCache(u).epoch = u.epoch
      /\ RebuildSidebarCache(u).db = u.db
      /\ u.keys = None => RebuildSidebarCache(u).session = u.session
  BY <1>4, <1>5, <1>6, <1>7, RebuildSound
<1>9. RebuildSidebarCache(u).session = s.session
  <2>1. CASE s.keys = None
    BY <2>1, <1>6, <1>8
  <2>2. CASE s.keys # None
    BY <2>2, <1>6, <1>7, <1>8 DEF Sound
  <2> QED
    BY <2>1, <2>2
<1> QED
  BY <1>3, <1>4, <1>6, <1>8, <1>9 DEF Quiet

\* Recording a failed sync, or not.
LEMMA SyncFailedSound ==
    ASSUME NEW e \in Owner, NEW s, Sound(s, e), NEW b
    PROVE  /\ Sound(MarkSyncFailed(s), e) /\ Quiet(s, MarkSyncFailed(s))
           /\ Sound(RecordSyncError(s, b), e) /\ Quiet(s, RecordSyncError(s, b))
<1>1. s \in State
  BY DEF Sound
<1> DEFINE n == MarkSyncFailed(s)
<1>2. n \in State
  BY <1>1 DEF MarkSyncFailed, State
<1>3. /\ n.keys = s.keys /\ n.orgKeys = s.orgKeys /\ n.sidebar = s.sidebar
      /\ n.sshIds = s.sshIds /\ n.session = s.session /\ n.epoch = s.epoch
      /\ n.db = s.db
  BY <1>1 DEF MarkSyncFailed, State
<1> HIDE DEF n
<1>4. Sound(n, e) /\ Quiet(s, n)
  BY <1>2, <1>3 DEF Sound, Quiet
<1> QED
  BY <1>4 DEF n, RecordSyncError, Quiet

\* get_config's load of the vault file into a state without a database.
LEMMA LoadSound ==
    ASSUME NEW e \in Owner, NEW s, Sound(s, e), NEW f \in DbFile, e # None
    PROVE  LET n == [s EXCEPT !.db = LoadDb(f)] IN Sound(n, e) /\ Quiet(s, n)
<1>1. s \in State
  BY DEF Sound
<1> DEFINE d == LoadDb(f)
           n == [s EXCEPT !.db = d]
<1>2. d \in Db /\ d.present
  BY Constants DEF LoadDb, Db, DbFile
<1> HIDE DEF d
<1>3. n \in State
  BY <1>1, <1>2 DEF State
<1>4. /\ n.keys = s.keys /\ n.orgKeys = s.orgKeys /\ n.sidebar = s.sidebar
      /\ n.sshIds = s.sshIds /\ n.session = s.session /\ n.epoch = s.epoch
      /\ n.db = d
  BY <1>1 DEF State
<1> HIDE DEF n
<1>5. Sound(n, e) /\ Quiet(s, n)
  BY <1>2, <1>3, <1>4 DEF Sound, Quiet
<1> QED
  BY <1>5 DEF n, d

\* tpm_configured is independent of the rest.
LEMMA TpmFlagSound ==
    ASSUME NEW e \in Owner, NEW s, Sound(s, e), NEW b \in BOOLEAN
    PROVE  LET n == [s EXCEPT !.tpmConfigured = b] IN Sound(n, e) /\ Quiet(s, n)
<1>1. s \in State
  BY DEF Sound
<1> DEFINE n == [s EXCEPT !.tpmConfigured = b]
<1>2. n \in State
  BY <1>1 DEF State
<1>3. /\ n.keys = s.keys /\ n.orgKeys = s.orgKeys /\ n.sidebar = s.sidebar
      /\ n.sshIds = s.sshIds /\ n.session = s.session /\ n.epoch = s.epoch
      /\ n.db = s.db
  BY <1>1 DEF State
<1> HIDE DEF n
<1>4. Sound(n, e) /\ Quiet(s, n)
  BY <1>2, <1>3 DEF Sound, Quiet
<1> QED
  BY <1>4 DEF n
-----------------------------------------------------------------------------
(* Tokens, envelopes, tasks and the queue of refresh_lock *)

\* The range of a function on a finite set is no larger than the set.
LEMMA ImageBound ==
    ASSUME NEW S, IsFiniteSet(S), NEW f, f = [x \in S |-> f[x]]
    PROVE  LET T == {f[x] : x \in S}
           IN  IsFiniteSet(T) /\ Cardinality(T) <= Cardinality(S)
<1> DEFINE T == {f[x] : x \in S}
<1>1. f \in Surjection(S, T)
  BY DEF Surjection
<1> HIDE DEF T
<1> QED
  BY <1>1, FS_Surjection DEF T

\* A fresh token pair exists: fewer identities are in use than there are.
LEMMA FreshTokenType ==
    ASSUME NEW a \in Owner
    PROVE  FreshToken(a) \in Token
<1> DEFINE e == [b \in Accounts |-> envelope[b].tok.id]
           k == [t \in Tasks |-> tasks[t].tok.id]
           E == {e[b] : b \in Accounts}
           K == {k[t] : t \in Tasks}
           O == {st.db.tok.id}
<1>1. LiveIds = (O \cup E) \cup K
  BY DEF LiveIds
<1>2. IsFiniteSet(O) /\ Cardinality(O) = 1
  BY FS_Singleton
<1>3. IsFiniteSet(E) /\ Cardinality(E) <= Cardinality(Accounts)
  BY FreshAssumption, ImageBound
<1>4. IsFiniteSet(K) /\ Cardinality(K) <= Cardinality(Tasks)
  BY FreshAssumption, ImageBound
<1> HIDE DEF E, K, O, e, k
<1>5. /\ IsFiniteSet(O \cup E)
      /\ Cardinality(O \cup E) <= 1 + Cardinality(Accounts)
  <2>1. Cardinality(O \cup E) = Cardinality(O) + Cardinality(E) - Cardinality(O \cap E)
    BY <1>2, <1>3, FS_Union
  <2>2. IsFiniteSet(O \cup E) /\ IsFiniteSet(O \cap E)
    BY <1>2, <1>3, FS_Union, FS_Subset
  <2> QED
    BY <1>2, <1>3, <2>1, <2>2, FreshAssumption, FS_CardinalityType
<1>6. /\ IsFiniteSet(LiveIds)
      /\ Cardinality(LiveIds) <= 1 + Cardinality(Accounts) + Cardinality(Tasks)
  <2> DEFINE P == O \cup E
  <2> HIDE DEF P
  <2>0. IsFiniteSet(P) /\ Cardinality(P) <= 1 + Cardinality(Accounts) /\ LiveIds = P \cup K
    BY <1>1, <1>5 DEF P
  <2>1. Cardinality(P \cup K) = Cardinality(P) + Cardinality(K) - Cardinality(P \cap K)
    BY <2>0, <1>4, FS_Union
  <2>2. IsFiniteSet(P \cup K) /\ IsFiniteSet(P \cap K)
    BY <2>0, <1>4, FS_Union, FS_Subset
  <2> QED
    BY <2>0, <1>4, <2>1, <2>2, FreshAssumption, FS_CardinalityType
<1>7. ~(TokIds \subseteq LiveIds)
  <2>1. SUFFICES ASSUME TokIds \in SUBSET LiveIds PROVE FALSE
    OBVIOUS
  <2>2. Cardinality(TokIds) <= Cardinality(LiveIds)
    BY <1>6, <2>1, FS_Subset
  <2> QED
    BY <1>6, <2>2, FreshAssumption, FS_CardinalityType
<1>8. PICK n \in TokIds : n \notin LiveIds
  BY <1>7
<1>9. (CHOOSE m \in TokIds : m \notin LiveIds) \in TokIds
  BY <1>8
<1> QED
  BY <1>9 DEF FreshToken, Token

\* A write that may fail leaves a well-formed file either way.
LEMMA WrittenType ==
    ASSUME NEW S, NEW n \in S, NEW o \in S, NEW k, NEW x \in Written(k, n, o)
    PROVE  x \in S
  BY DEF Written

\* persist_current writes a well-formed envelope or nothing.
LEMMA PersistType ==
    ASSUME envelope \in [Accounts -> Envelope], NEW s \in State, NEW a \in Owner,
           a # None
    PROVE  PersistCurrent(s, a) \in [Accounts -> Envelope]
<1>1. [keys |-> s.keys, tok |-> s.db.tok] \in Envelope
  BY DEF State, Db, Envelope
<1> QED
  BY <1>1 DEF PersistCurrent, Seal, Owner

\* A task record of the right shape; away from "idle" and "spawned" it knows
\* its account.
GoodTask(r) == r \in Task /\ (r.pc \notin {"idle", "spawned"} => r.acct # None)
\* A task record that is spending a refresh token under refresh_lock.
Spends(r) == r.pc \in {"refresh", "retry"} \/ (r.pc = "exchange" /\ r.by = "request")

\* The records the handlers build are good and hold nothing of the lock.
LEMMA TaskRecords ==
    /\ GoodTask(IdleTask) /\ ~Spends(IdleTask)
    /\ GoodTask(SpawnedTask) /\ ~Spends(SpawnedTask)
    /\ \A a \in Accounts, k \in Token, b \in BOOLEAN :
            GoodTask(CallTask(a, k, b)) /\ ~Spends(CallTask(a, k, b))
<1>1. IdleTask \in Task /\ IdleTask.pc = "idle"
  BY Constants DEF IdleTask, Task, Phases, Owner
<1>2. SpawnedTask \in Task /\ SpawnedTask.pc = "spawned"
  BY <1>1 DEF SpawnedTask, Task, Phases
<1>3. ASSUME NEW a \in Accounts, NEW k \in Token, NEW b \in BOOLEAN
      PROVE  /\ CallTask(a, k, b) \in Task
             /\ CallTask(a, k, b).pc = "call" /\ CallTask(a, k, b).acct = a
  BY <1>1 DEF CallTask, Task, Phases, Owner
<1> QED
  BY <1>1, <1>2, <1>3, Constants DEF GoodTask, Spends

\* What restore_session goes on with is a good task record, and it spends
\* under the lock only if the caller is a request.
LEMMA RestoreRecords ==
    ASSUME envelope \in [Accounts -> Envelope], NEW r \in Task, r.acct # None
    PROVE  /\ GoodTask(NextSource(r)) /\ ~Spends(NextSource(r))
           /\ GoodTask(RestoreSession(r))
           /\ Spends(RestoreSession(r)) => r.by = "request"
<1>1. r.acct \in Accounts
  BY DEF Task, Owner
<1> DEFINE g == [r EXCEPT !.pc = "grant", !.tok = NoToken]
           k == envelope[r.acct].tok
           x == [r EXCEPT !.pc = "exchange", !.tok = k]
<1>2. g \in Task /\ g.pc = "grant" /\ g.acct = r.acct
  BY Constants DEF Task, Phases
<1>3. GoodTask(NextSource(r)) /\ ~Spends(NextSource(r))
  <2>1. CASE r.hash
    BY <1>2, <2>1 DEF NextSource, GoodTask, Spends
  <2>2. CASE ~r.hash
    BY <2>2, TaskRecords DEF NextSource
  <2> QED
    BY <2>1, <2>2
<1>4. k \in Token
  BY <1>1 DEF Envelope
<1> HIDE DEF g, k
<1>5. x \in Task /\ x.pc = "exchange" /\ x.acct = r.acct /\ x.by = r.by
  BY <1>4 DEF Task, Phases
<1>6. RestoreSession(r) = x \/ RestoreSession(r) = NextSource(r)
  BY DEF RestoreSession, k
<1> HIDE DEF x
<1> QED
  BY <1>3, <1>5, <1>6 DEF GoodTask, Spends

\* A task that moves on without leaving refresh_lock, or that queues for it.
LEMMA TaskStep ==
    ASSUME TypeOK, RefreshSerialized, NEW t \in Tasks, NEW r, GoodTask(r),
           SetTask(t, r), queue' = queue \/ queue' = Append(queue, t),
           Spends(r) => HoldsLock(t)
    PROVE  /\ tasks' \in [Tasks -> Task]
           /\ \A u \in Tasks : tasks'[u].pc \notin {"idle", "spawned"} =>
                                   tasks'[u].acct # None
           /\ queue' \in Seq(Tasks)
           /\ RefreshSerialized'
<1>1. /\ tasks' = [tasks EXCEPT ![t] = r] /\ tasks \in [Tasks -> Task]
      /\ queue \in Seq(Tasks) /\ r \in Task
  BY DEF SetTask, TypeOK, GoodTask
<1>2. queue' \in Seq(Tasks) /\ (queue # <<>> => queue' # <<>> /\ Head(queue') = Head(queue))
  BY <1>1
<1>3. \A u \in Tasks : HoldsLock(u) => HoldsLock(u)'
  BY <1>2 DEF HoldsLock
<1>4. \A u \in Tasks : Spending(u)' => HoldsLock(u)
  BY <1>1 DEF Spending, Spends, RefreshSerialized
<1> QED
  BY <1>1, <1>2, <1>3, <1>4 DEF TypeOK, GoodTask, RefreshSerialized

\* The holder of refresh_lock leaves it: nobody else was spending.
LEMMA TaskRelease ==
    ASSUME TypeOK, RefreshSerialized, NEW t \in Tasks, NEW r, GoodTask(r),
           SetTask(t, r), HoldsLock(t), Release, ~Spends(r)
    PROVE  /\ tasks' \in [Tasks -> Task]
           /\ \A u \in Tasks : tasks'[u].pc \notin {"idle", "spawned"} =>
                                   tasks'[u].acct # None
           /\ queue' \in Seq(Tasks)
           /\ RefreshSerialized'
<1>1. /\ tasks' = [tasks EXCEPT ![t] = r] /\ tasks \in [Tasks -> Task]
      /\ queue \in Seq(Tasks) /\ r \in Task /\ queue # <<>> /\ queue' = Tail(queue)
  BY DEF SetTask, TypeOK, GoodTask, HoldsLock, Release
<1>2. queue' \in Seq(Tasks)
  BY <1>1
<1>3. \A u \in Tasks : u # t => ~Spending(u)
  BY DEF HoldsLock, RefreshSerialized
<1>4. \A u \in Tasks : ~Spending(u)'
  BY <1>1, <1>3 DEF Spending, Spends
<1> QED
  BY <1>1, <1>2, <1>4 DEF TypeOK, GoodTask, RefreshSerialized
-----------------------------------------------------------------------------
(* The actions *)

\* The parts of Inv a step can change, by the variable that changes them.
TasksGood ==
    /\ tasks \in [Tasks -> Task]
    /\ \A u \in Tasks : tasks[u].pc \notin {"idle", "spawned"} => tasks[u].acct # None
    /\ queue \in Seq(Tasks)
    /\ RefreshSerialized
FilesGood ==
    /\ config \in Config
    /\ dbFile \in [Accounts -> DbFile]
    /\ envelope \in [Accounts -> Envelope]
    /\ blob \in [Accounts -> Owner]
    /\ LoginAtomic => BlobSealsOwnKeys

\* The obligation of EpochTracksTransitions for one step.
Ordered == (st'.keys # st.keys \/ st'.session # st.session) => st'.epoch # st.epoch

\* Inv by the variables its parts are about, now and after the step.
LEMMA InvParts ==
    /\ Inv <=> Sound(st, config.email) /\ TasksGood /\ FilesGood
    /\ Inv' <=> Sound(st', config'.email) /\ TasksGood' /\ FilesGood'
  BY DEF Inv, Sound, TypeOK, TasksGood, FilesGood

\* A step that leaves the lock state alone owes the epoch nothing.
LEMMA QuietOrdered == ASSUME Quiet(st, st') PROVE Ordered
  BY DEF Quiet, Ordered

\* What Inv says of one task in flight.
LEMMA TaskFacts ==
    ASSUME Inv, NEW t \in Tasks
    PROVE  /\ tasks[t] \in Task /\ tasks[t].tok \in Token /\ tasks[t].tok.own \in Owner
           /\ tasks[t].acct \in Owner /\ tasks[t].lockedAtEntry \in BOOLEAN
           /\ tasks[t].pc \notin {"idle", "spawned"} => tasks[t].acct \in Accounts
           /\ Spending(t) <=> Spends(tasks[t])
           /\ Spending(t) => HoldsLock(t)
           /\ config.email \in Owner
           /\ config.email # None => config.email \in Accounts
           /\ st \in State /\ st.db \in Db /\ st.db.tok \in Token
           /\ st.db.present => config.email # None
  BY DEF Inv, TypeOK, Task, Token, Owner, Spending, Spends, RefreshSerialized,
         Config, State, Db, Sound

\* A handler that never waits leaves the tasks and the queue alone.
LEMMA TasksUntouched ==
    ASSUME TasksGood, UNCHANGED <<tasks, queue>> PROVE TasksGood'
  BY DEF TasksGood, RefreshSerialized, Spending, HoldsLock

\* A step that writes no file keeps what is known of the files.
LEMMA FilesUntouched ==
    ASSUME FilesGood, UNCHANGED disk PROVE FilesGood'
  BY DEF FilesGood, BlobSealsOwnKeys, disk

\* TaskStep in terms of Inv.
LEMMA TaskStepGood ==
    ASSUME Inv, NEW t \in Tasks, NEW r, GoodTask(r), SetTask(t, r),
           queue' = queue \/ queue' = Append(queue, t), Spends(r) => HoldsLock(t)
    PROVE  TasksGood'
  BY TaskStep DEF Inv, TasksGood

\* The same for the holder leaving refresh_lock.
LEMMA TaskReleaseGood ==
    ASSUME Inv, NEW t \in Tasks, NEW r, GoodTask(r), SetTask(t, r),
           HoldsLock(t), Release, ~Spends(r)
    PROVE  TasksGood'
  BY TaskRelease DEF Inv, TasksGood

\* The initial state satisfies Inv.
LEMMA InitInv == Init => Inv
<1> SUFFICES ASSUME Init PROVE Inv
  OBVIOUS
<1>1. config \in Config /\ config.email = None /\ None \in Owner
  BY DEF Init, Config, Owner
<1>2. Sound(st, config.email)
  BY <1>1, NewStateSound DEF Init
<1>3. TasksGood
  BY TaskRecords DEF Init, TasksGood, GoodTask, RefreshSerialized, Spending, IdleTask
<1>4. FilesGood
  BY <1>1, Constants DEF Init, FilesGood, BlobSealsOwnKeys, Envelope, NoEnvelope, EmptyFile
<1> QED
  BY <1>2, <1>3, <1>4, InvParts

\* Login: nothing moves until the server has answered, then everything does.
LEMMA LoginSteps ==
    ASSUME Inv, NEW t \in Tasks,
           \/ \E a \in Accounts : LoginStart(t, a)
           \/ LoginDone(t) \/ LoginPartial(t) \/ LoginFailed(t)
    PROVE  Inv' /\ Ordered
<1>1. ASSUME NEW a \in Accounts, LoginStart(t, a) PROVE Inv' /\ Ordered
  <2> DEFINE r == [IdleTask EXCEPT !.pc = "login", !.acct = a, !.tpm = config.tpm]
  <2>1. GoodTask(r) /\ ~Spends(r)
    BY TaskRecords, Constants
    DEF GoodTask, Spends, Task, Phases, Inv, TypeOK, Config, Owner
  <2>2. SetTask(t, r) /\ UNCHANGED <<st, disk, queue>>
    BY <1>1 DEF LoginStart
  <2> HIDE DEF r
  <2>3. TasksGood'
    BY <2>1, <2>2, TaskStepGood
  <2> QED
    BY <2>2, <2>3, InvParts, FilesUntouched DEF disk, Ordered
<1>2. ASSUME LoginFailed(t) PROVE Inv' /\ Ordered
  <2>1. SetTask(t, IdleTask) /\ UNCHANGED <<st, disk, queue>>
    BY <1>2 DEF LoginFailed, EndTask
  <2>2. TasksGood'
    BY <2>1, TaskRecords, TaskStepGood
  <2> QED
    BY <2>1, <2>2, InvParts, FilesUntouched DEF disk, Ordered
<1>3. ASSUME LoginDone(t) PROVE Inv' /\ Ordered
  <2> DEFINE a == tasks[t].acct
             k == FreshToken(a)
  <2>1. a \in Accounts /\ a \in Owner
    BY <1>3, TaskFacts DEF LoginDone
  <2>2. k \in Token
    BY <2>1, FreshTokenType
  <2>3. /\ st' = CommitLogin(st, a, k)
        /\ config' = [email |-> a, tpm |-> tasks[t].tpm]
        /\ dbFile' = [dbFile EXCEPT ![a] = [kdf |-> TRUE, vault |-> a]]
        /\ envelope' \in Written("envelope",
                         [envelope EXCEPT ![a] = [keys |-> a, tok |-> k]], envelope)
        /\ SetTask(t, IdleTask) /\ UNCHANGED <<blob, queue>>
    BY <1>3 DEF LoginDone, EndTask, Seal
  <2>4. tasks[t].tpm \in BOOLEAN
    BY TaskFacts DEF Task
  <2> HIDE DEF a, k
  <2>5. Sound(st', config'.email) /\ st'.epoch # st.epoch
    BY <2>1, <2>2, <2>3, CommitLoginSound, TaskFacts DEF Inv
  <2>6. TasksGood'
    BY <2>3, TaskRecords, TaskStepGood
  <2>7. envelope' \in [Accounts -> Envelope]
    <3> DEFINE n == [envelope EXCEPT ![a] = [keys |-> a, tok |-> k]]
    <3>1. n \in [Accounts -> Envelope] /\ envelope \in [Accounts -> Envelope]
      BY <2>1, <2>2 DEF Inv, TypeOK, Envelope
    <3> HIDE DEF n
    <3>2. envelope' \in Written("envelope", n, envelope)
      BY <2>3 DEF n
    <3> QED
      BY <3>1, <3>2, WrittenType
  <2>8. FilesGood'
    BY <2>1, <2>3, <2>4, <2>7, InvParts DEF FilesGood, Config, DbFile, BlobSealsOwnKeys
  <2> QED
    BY <2>5, <2>6, <2>8, InvParts DEF Ordered
<1>4. ASSUME LoginPartial(t) PROVE Inv' /\ Ordered
  <2> DEFINE a == tasks[t].acct
             c == [email |-> a, tpm |-> tasks[t].tpm]
  <2>1. a \in Accounts /\ a \in Owner /\ a # None /\ tasks[t].tpm \in BOOLEAN
    BY <1>4, TaskFacts, Constants DEF LoginPartial, Task
  <2>2. /\ dbFile' = [dbFile EXCEPT ![a] = [kdf |-> TRUE, vault |-> a]]
        /\ config' = config \/ (~LoginAtomic /\ config' = c)
        /\ SetTask(t, IdleTask) /\ UNCHANGED <<st, envelope, blob, queue>>
    BY <1>4 DEF LoginPartial, EndTask, LoginAtomic
  <2>3. c \in Config /\ c.email = a
    BY <2>1 DEF Config
  <2> HIDE DEF a, c
  <2>4. Sound(st', config'.email)
    <3>1. CASE config' = config
      BY <2>2, <3>1 DEF Inv
    <3>2. CASE ~LoginAtomic /\ config' = c
      BY <2>1, <2>2, <2>3, <3>2 DEF Inv, Sound
    <3> QED
      BY <2>2, <3>1, <3>2
  <2>5. TasksGood'
    BY <2>2, TaskRecords, TaskStepGood
  <2>6. FilesGood'
    BY <2>1, <2>2, <2>3, InvParts DEF FilesGood, DbFile, BlobSealsOwnKeys
  <2> QED
    BY <2>2, <2>4, <2>5, <2>6, InvParts DEF Ordered
<1> QED
  BY <1>1, <1>2, <1>3, <1>4

\* What an unlock leaves in flight needs no refresh_lock.
LEMMA AfterUnlockGood ==
    ASSUME Inv, NEW t \in Tasks, NEW s, NEW h \in BOOLEAN, config.email # None,
           Sound(s, config.email), AfterUnlock(t, s, config.email, h), queue' = queue
    PROVE  TasksGood' /\ Sound(st', config.email) /\ Quiet(s, st')
<1> DEFINE r0 == [IdleTask EXCEPT !.acct = config.email, !.keys = s.keys,
                                  !.hash = h, !.by = "unlock"]
           r == RestoreSession(r0)
           n == IF s.db.tok # NoToken THEN SpawnedTask ELSE r
<1>0. config.email \in Owner /\ envelope \in [Accounts -> Envelope] /\ s.keys \in Owner
  BY DEF Inv, TypeOK, Config, Sound, State
<1>1. r0 \in Task /\ r0.acct # None /\ r0.by = "unlock"
  BY <1>0, TaskRecords DEF GoodTask, Task
<1>2. /\ st' = IF n.pc = "idle" THEN MarkSyncFailed(s) ELSE s
      /\ SetTask(t, n)
  BY DEF AfterUnlock
<1> HIDE DEF r0
<1>3. GoodTask(r) /\ ~Spends(r)
  BY <1>0, <1>1, RestoreRecords
<1> HIDE DEF r
<1>4. GoodTask(n) /\ ~Spends(n)
  BY <1>3, TaskRecords
<1> HIDE DEF n
<1>5. TasksGood'
  BY <1>2, <1>4, TaskStepGood
<1>6. Sound(st', config.email) /\ Quiet(s, st')
  <2>1. CASE n.pc = "idle"
    BY <2>1, <1>0, <1>2, SyncFailedSound
  <2>2. CASE n.pc # "idle"
    BY <2>2, <1>2 DEF Quiet
  <2> QED
    BY <2>1, <2>2
<1> QED
  BY <1>5, <1>6

\* Both unlock paths.  A PIN unlock gives the keys sealed in the blob, which
\* BlobSealsOwnKeys makes the account's own.
LEMMA UnlockSteps ==
    ASSUME Inv, NEW t \in Tasks, Unlock(t) \/ UnlockWithPin(t)
    PROVE  Inv' /\ Ordered
<1>1. ASSUME Unlock(t) PROVE Inv' /\ Ordered
  <2> DEFINE a == config.email
             s == CommitUnlock(st, a, dbFile[a])
  <2>1. a \in Owner /\ a # None /\ a \in Accounts /\ dbFile[a] \in DbFile
    BY <1>1, TaskFacts DEF Unlock, Inv, TypeOK
  <2>2. Sound(s, a) /\ s.epoch # st.epoch
    BY <2>1, CommitUnlockSound DEF Inv
  <2>3. /\ AfterUnlock(t, s, a, TRUE)
        /\ envelope' \in Written("envelope", PersistCurrent(s, a), envelope)
        /\ UNCHANGED <<config, dbFile, blob, queue>>
    BY <1>1 DEF Unlock
  <2> HIDE DEF s
  <2>4. TasksGood' /\ Sound(st', a) /\ Quiet(s, st')
    BY <2>1, <2>2, <2>3, AfterUnlockGood
  <2>5. envelope' \in [Accounts -> Envelope]
    BY <2>1, <2>2, <2>3, PersistType, WrittenType DEF Inv, TypeOK, Sound
  <2>6. FilesGood'
    BY <2>3, <2>5, InvParts DEF FilesGood, BlobSealsOwnKeys
  <2> QED
    BY <2>2, <2>3, <2>4, <2>6, InvParts DEF Ordered, Quiet
<1>2. ASSUME UnlockWithPin(t) PROVE Inv' /\ Ordered
  <2> DEFINE a == config.email
             s == CommitUnlock(st, blob[a], dbFile[a])
  <2>1. a \in Owner /\ a # None /\ a \in Accounts /\ dbFile[a] \in DbFile
    BY <1>2, TaskFacts DEF UnlockWithPin, Inv, TypeOK
  <2>2. blob[a] \in Accounts /\ (LoginAtomic => blob[a] = a)
    BY <1>2, <2>1 DEF UnlockWithPin, Inv, TypeOK, BlobSealsOwnKeys, Owner
  <2>3. Sound(s, a) /\ s.epoch # st.epoch
    BY <2>1, <2>2, CommitUnlockSound DEF Inv
  <2>4. AfterUnlock(t, s, a, FALSE) /\ UNCHANGED disk /\ queue' = queue
    BY <1>2 DEF UnlockWithPin
  <2> HIDE DEF s
  <2>5. TasksGood' /\ Sound(st', a) /\ Quiet(s, st')
    BY <2>1, <2>3, <2>4, AfterUnlockGood
  <2>6. FilesGood'
    BY <2>4, InvParts, FilesUntouched
  <2> QED
    BY <2>3, <2>4, <2>5, <2>6, InvParts DEF Ordered, Quiet, disk
<1> QED
  BY <1>1, <1>2

\* A sync that ends with an error outside refresh_lock, or inside it.
LEMMA SyncErrorGood ==
    ASSUME Inv, NEW t \in Tasks, SyncError(t),
           queue' = queue \/ (HoldsLock(t) /\ Release)
    PROVE  TasksGood' /\ Sound(st', config.email) /\ Quiet(st, st')
<1>1. Sound(st', config.email) /\ Quiet(st, st')
  BY SyncFailedSound, TaskFacts DEF SyncError, Inv
<1>2. TasksGood'
  <2>1. CASE queue' = queue
    BY <2>1, TaskRecords, TaskStepGood DEF SyncError, EndTask
  <2>2. CASE HoldsLock(t) /\ Release
    BY <2>2, TaskRecords, TaskReleaseGood DEF SyncError, EndTask
  <2> QED
    BY <2>1, <2>2
<1> QED
  BY <1>1, <1>2

\* The exchange of the stored refresh token.
LEMMA ExchangeSteps ==
    ASSUME Inv, NEW t \in Tasks, ExchangeOk(t) \/ ExchangeFailed(t)
    PROVE  Inv' /\ Ordered
<1> DEFINE r == tasks[t]
<1>0. /\ r.pc = "exchange" /\ r.acct \in Accounts /\ r.acct # None /\ r \in Task
      /\ r.by = "request" => HoldsLock(t)
      /\ r.tok.own \in Owner /\ r.lockedAtEntry \in BOOLEAN
      /\ config.email \in Owner /\ envelope \in [Accounts -> Envelope]
  BY TaskFacts, Constants DEF ExchangeOk, ExchangeFailed, Spends, Inv, TypeOK
<1>1. ASSUME ExchangeOk(t) PROVE Inv' /\ Ordered
  <2> DEFINE k == FreshToken(r.tok.own)
             s == StoreTokens(st, k)
  <2>1. k \in Token
    BY <1>0, FreshTokenType
  <2>2. Sound(s, config.email) /\ Quiet(st, s)
    BY <1>0, <2>1, StoreTokensSound DEF Inv
  <2>3. /\ envelope' \in Written("envelope", PersistCurrent(s, r.acct), envelope)
        /\ UNCHANGED <<config, dbFile, blob>>
        /\ \/ r.by = "unlock" /\ st' = s /\ SetTask(t, SpawnedTask) /\ queue' = queue
           \/ /\ r.by = "request" /\ s.db.tok # NoToken /\ st' = s
              /\ SetTask(t, CallTask(r.acct, s.db.tok, r.lockedAtEntry)) /\ Release
           \/ r.by = "request" /\ SyncError(t) /\ Release
    BY <1>1 DEF ExchangeOk
  <2> HIDE DEF s, k
  <2>4. s \in State /\ s.db.tok \in Token
    BY <2>2 DEF Sound, State, Db
  <2>5. envelope' \in [Accounts -> Envelope]
    BY <1>0, <2>3, <2>4, PersistType, WrittenType DEF Owner
  <2>6. FilesGood'
    BY <2>3, <2>5, InvParts DEF FilesGood, BlobSealsOwnKeys
  <2>7. TasksGood' /\ Sound(st', config.email) /\ Quiet(st, st')
    <3>1. CASE r.by = "unlock" /\ st' = s /\ SetTask(t, SpawnedTask) /\ queue' = queue
      BY <2>2, <3>1, TaskRecords, TaskStepGood
    <3>2. CASE /\ r.by = "request" /\ st' = s
               /\ SetTask(t, CallTask(r.acct, s.db.tok, r.lockedAtEntry)) /\ Release
      <4>1. /\ GoodTask(CallTask(r.acct, s.db.tok, r.lockedAtEntry))
            /\ ~Spends(CallTask(r.acct, s.db.tok, r.lockedAtEntry))
        BY <1>0, <2>4, TaskRecords
      <4> QED
        BY <1>0, <2>2, <3>2, <4>1, TaskReleaseGood
    <3>3. CASE r.by = "request" /\ SyncError(t) /\ Release
      BY <1>0, <3>3, SyncErrorGood
    <3> QED
      BY <2>3, <3>1, <3>2, <3>3
  <2> QED
    BY <2>3, <2>6, <2>7, InvParts, QuietOrdered
<1>2. ASSUME ExchangeFailed(t) PROVE Inv' /\ Ordered
  <2> DEFINE n == NextSource(r)
  <2>1. /\ UNCHANGED disk
        /\ \/ /\ st' = IF n.pc = "idle" THEN MarkSyncFailed(st) ELSE st
              /\ SetTask(t, n) /\ queue' = queue
           \/ r.by = "request" /\ SyncError(t) /\ Release
    BY <1>2 DEF ExchangeFailed
  <2>2. GoodTask(n) /\ ~Spends(n)
    BY <1>0, RestoreRecords
  <2> HIDE DEF n
  <2>3. TasksGood' /\ Sound(st', config.email) /\ Quiet(st, st')
    <3>1. CASE /\ st' = IF n.pc = "idle" THEN MarkSyncFailed(st) ELSE st
               /\ SetTask(t, n) /\ queue' = queue
      <4>1. TasksGood'
        BY <2>2, <3>1, TaskStepGood
      <4>2. st' = MarkSyncFailed(st) \/ st' = st
        BY <3>1
      <4> QED
        BY <1>0, <4>1, <4>2, SyncFailedSound DEF Inv, Quiet
    <3>2. CASE r.by = "request" /\ SyncError(t) /\ Release
      BY <1>0, <3>2, SyncErrorGood
    <3> QED
      BY <2>1, <3>1, <3>2
  <2> QED
    BY <2>1, <2>3, InvParts, QuietOrdered, FilesUntouched DEF disk
<1> QED
  BY <1>1, <1>2

\* The password grant of a master-password unlock.
LEMMA GrantSteps ==
    ASSUME Inv, NEW t \in Tasks, GrantOk(t) \/ GrantFailed(t)
    PROVE  Inv' /\ Ordered
<1> DEFINE r == tasks[t]
<1>0. /\ r.acct \in Accounts /\ r.acct \in Owner /\ r.acct # None
      /\ config.email \in Owner /\ envelope \in [Accounts -> Envelope]
  BY TaskFacts, Constants DEF GrantOk, GrantFailed, Inv, TypeOK
<1>1. ASSUME GrantOk(t) PROVE Inv' /\ Ordered
  <2> DEFINE k == FreshToken(r.acct)
             s == StoreTokens(st, k)
  <2>1. k \in Token
    BY <1>0, FreshTokenType
  <2>2. Sound(s, config.email) /\ Quiet(st, s)
    BY <1>0, <2>1, StoreTokensSound DEF Inv
  <2>3. /\ st' = s /\ envelope' \in Written("envelope", PersistCurrent(s, r.acct), envelope)
        /\ SetTask(t, SpawnedTask) /\ UNCHANGED <<config, dbFile, blob, queue>>
    BY <1>1 DEF GrantOk
  <2> HIDE DEF s, k
  <2>4. envelope' \in [Accounts -> Envelope]
    BY <1>0, <2>2, <2>3, PersistType, WrittenType DEF Sound
  <2>5. FilesGood'
    BY <2>3, <2>4, InvParts DEF FilesGood, BlobSealsOwnKeys
  <2>6. TasksGood'
    BY <2>3, TaskRecords, TaskStepGood
  <2> QED
    BY <2>2, <2>3, <2>5, <2>6, InvParts, QuietOrdered
<1>2. ASSUME GrantFailed(t) PROVE Inv' /\ Ordered
  <2>1. /\ st' = MarkSyncFailed(st) /\ SetTask(t, IdleTask)
        /\ UNCHANGED disk /\ queue' = queue
    BY <1>2 DEF GrantFailed, EndTask
  <2>2. Sound(st', config.email) /\ Quiet(st, st')
    BY <1>0, <2>1, SyncFailedSound DEF Inv
  <2>3. TasksGood'
    BY <2>1, TaskRecords, TaskStepGood
  <2> QED
    BY <2>1, <2>2, <2>3, InvParts, QuietOrdered, FilesUntouched DEF disk
<1> QED
  BY <1>1, <1>2

\* The entry of handle_sync: the request goes out, queues or fails.
LEMMA SyncEntryGood ==
    ASSUME Inv, NEW t \in Tasks, SyncEntry(t)
    PROVE  TasksGood' /\ Sound(st', config.email) /\ Quiet(st, st')
<1> DEFINE l == st.keys = None
           c == CallTask(config.email, st.db.tok, l)
           w == [c EXCEPT !.pc = "waitRestore", !.keys = st.keys, !.by = "request"]
<1>0. /\ st.keys \in Owner /\ l \in BOOLEAN /\ config.email \in Owner
      /\ st.db.present => config.email \in Accounts
      /\ st.db.tok \in Token
  BY TaskFacts DEF State
<1>1. \/ /\ st.db.present /\ SetTask(t, c) /\ UNCHANGED <<st, queue>>
      \/ /\ st.db.present /\ SetTask(t, w) /\ queue' = Append(queue, t) /\ st' = st
      \/ /\ st' = RecordSyncError(st, l) /\ SetTask(t, IdleTask) /\ queue' = queue
  BY DEF SyncEntry, EndTask
<1>2. CASE st.db.present /\ SetTask(t, c) /\ UNCHANGED <<st, queue>>
  <2> HIDE DEF l
  <2>1. GoodTask(c) /\ ~Spends(c)
    BY <1>0, <1>2, TaskRecords
  <2> HIDE DEF c
  <2> QED
    BY <1>2, <2>1, TaskStepGood DEF Inv, Quiet
<1>3. CASE st.db.present /\ SetTask(t, w) /\ queue' = Append(queue, t) /\ st' = st
  <2> HIDE DEF l
  <2>1. GoodTask(c) /\ c.acct = config.email /\ c \in Task
    BY <1>0, <1>3, TaskRecords DEF GoodTask, CallTask, IdleTask
  <2> HIDE DEF c
  <2>2. GoodTask(w) /\ ~Spends(w)
    BY <1>0, <1>3, <2>1, Constants DEF GoodTask, Spends, Task, Phases
  <2> HIDE DEF w
  <2> QED
    BY <1>3, <2>2, TaskStepGood DEF Inv, Quiet
<1>4. CASE st' = RecordSyncError(st, l) /\ SetTask(t, IdleTask) /\ queue' = queue
  <2> HIDE DEF l
  <2> QED
    BY <1>0, <1>4, TaskRecords, TaskStepGood, SyncFailedSound DEF Inv
<1> QED
  BY <1>1, <1>2, <1>3, <1>4

\* A client's sync request, and the background sync of an unlock.
LEMMA SyncStartSteps ==
    ASSUME Inv, NEW t \in Tasks, SyncRequest(t) \/ BackgroundSync(t)
    PROVE  Inv' /\ Ordered
<1>1. /\ UNCHANGED disk
      /\ SyncEntry(t) \/ (SetTask(t, IdleTask) /\ UNCHANGED <<st, queue>>)
  BY DEF SyncRequest, BackgroundSync, EndTask
<1>2. TasksGood' /\ Sound(st', config.email) /\ Quiet(st, st')
  <2>1. CASE SyncEntry(t)
    BY <2>1, SyncEntryGood
  <2>2. CASE SetTask(t, IdleTask) /\ UNCHANGED <<st, queue>>
    BY <2>2, TaskRecords, TaskStepGood DEF Inv, Quiet
  <2> QED
    BY <1>1, <2>1, <2>2
<1> QED
  BY <1>1, <1>2, InvParts, QuietOrdered, FilesUntouched DEF disk

\* refresh_lock acquired by a request without a token.
LEMMA RestoreUnderLockStep ==
    ASSUME Inv, NEW t \in Tasks, RestoreUnderLock(t)
    PROVE  Inv' /\ Ordered
<1> DEFINE r == tasks[t]
           n == RestoreSession(r)
           c == CallTask(r.acct, st.db.tok, r.lockedAtEntry)
<1>0. /\ r \in Task /\ r.acct \in Accounts /\ r.acct # None /\ st.db.tok \in Token
      /\ r.lockedAtEntry \in BOOLEAN /\ HoldsLock(t)
      /\ envelope \in [Accounts -> Envelope]
  BY TaskFacts, Constants DEF RestoreUnderLock, Inv, TypeOK
<1>1. /\ UNCHANGED disk
      /\ \/ SetTask(t, c) /\ Release /\ st' = st
         \/ SetTask(t, n) /\ UNCHANGED <<st, queue>>
         \/ SyncError(t) /\ Release
  BY DEF RestoreUnderLock
<1>2. GoodTask(n) /\ GoodTask(c) /\ ~Spends(c)
  BY <1>0, RestoreRecords, TaskRecords
<1> HIDE DEF n, c
<1>3. TasksGood' /\ Sound(st', config.email) /\ Quiet(st, st')
  <2>1. CASE SetTask(t, c) /\ Release /\ st' = st
    BY <1>0, <1>2, <2>1, TaskReleaseGood DEF Inv, Quiet
  <2>2. CASE SetTask(t, n) /\ UNCHANGED <<st, queue>>
    BY <1>0, <1>2, <2>2, TaskStepGood DEF Inv, Quiet
  <2>3. CASE SyncError(t) /\ Release
    BY <1>0, <2>3, SyncErrorGood
  <2> QED
    BY <1>1, <2>1, <2>2, <2>3
<1> QED
  BY <1>1, <1>3, InvParts, QuietOrdered, FilesUntouched DEF disk

\* A sync's answer, with refresh_lock held or not: the file written is the
\* one of the configured account, which exists while a database is loaded.
LEMMA SyncOkSteps ==
    ASSUME Inv, NEW t \in Tasks, CallOk(t) \/ RetryOk(t)
    PROVE  Inv' /\ Ordered
<1>0. /\ tasks[t].tok.own \in Owner /\ config.email \in Owner
      /\ st.db.present => config.email \in Accounts
      /\ RetryOk(t) => HoldsLock(t)
  BY TaskFacts DEF RetryOk, Spends
<1>1. /\ FinishSync(t)
      /\ queue' = queue \/ (HoldsLock(t) /\ Release)
  BY <1>0 DEF CallOk, RetryOk
<1>2. /\ Sound(st', config.email) /\ Quiet(st, st')
      /\ SetTask(t, IdleTask) /\ UNCHANGED <<config, envelope, blob>>
  BY <1>0, <1>1, ApplySyncSound DEF FinishSync, EndTask, Inv
<1>3. SavedDb(st'.db) \in DbFile
  BY <1>2 DEF Sound, State, Db, SavedDb, DbFile
<1>4. dbFile' \in [Accounts -> DbFile]
  <2> DEFINE n == IF st.db.present
                  THEN [dbFile EXCEPT ![config.email] = SavedDb(st'.db)] ELSE dbFile
  <2>1. n \in [Accounts -> DbFile] /\ dbFile \in [Accounts -> DbFile]
    BY <1>0, <1>3 DEF Inv, TypeOK
  <2>2. dbFile' \in Written("vault", n, dbFile)
    BY <1>1 DEF FinishSync
  <2> HIDE DEF n
  <2> QED
    BY <2>1, <2>2, WrittenType
<1>5. FilesGood'
  BY <1>2, <1>4, InvParts DEF FilesGood, BlobSealsOwnKeys
<1>6. TasksGood'
  BY <1>1, <1>2, TaskRecords, TaskStepGood, TaskReleaseGood
<1> QED
  BY <1>2, <1>5, <1>6, InvParts, QuietOrdered

\* A sync's failures.
LEMMA SyncFailSteps ==
    ASSUME Inv, NEW t \in Tasks, CallFailed(t) \/ RefreshFailed(t) \/ RetryFailed(t)
    PROVE  Inv' /\ Ordered
<1>0. RefreshFailed(t) \/ RetryFailed(t) => HoldsLock(t)
  BY TaskFacts DEF RefreshFailed, RetryFailed, Spends
<1>1. /\ SyncError(t) /\ UNCHANGED disk
      /\ queue' = queue \/ (HoldsLock(t) /\ Release)
  BY <1>0 DEF CallFailed, RefreshFailed, RetryFailed
<1>2. TasksGood' /\ Sound(st', config.email) /\ Quiet(st, st')
  BY <1>1, SyncErrorGood
<1> QED
  BY <1>1, <1>2, InvParts, QuietOrdered, FilesUntouched DEF disk

\* The 401 path: queue, decide under the lock, exchange, retry.
LEMMA RefreshSteps ==
    ASSUME Inv, NEW t \in Tasks, Call401(t) \/ Refresh401(t) \/ RefreshOk(t)
    PROVE  Inv' /\ Ordered
<1> DEFINE r == tasks[t]
<1>0. /\ r \in Task /\ r.acct \in Accounts /\ r.acct # None
      /\ st.db.tok \in Token /\ r.tok.own \in Owner /\ config.email \in Owner
      /\ envelope \in [Accounts -> Envelope]
  BY TaskFacts, Constants
  DEF Call401, Refresh401, Refresh401Decide, RefreshOk, Inv, TypeOK
<1>1. ASSUME Call401(t) PROVE Inv' /\ Ordered
  <2> DEFINE n == [r EXCEPT !.pc = "wait401"]
  <2>1. SetTask(t, n) /\ queue' = Append(queue, t) /\ UNCHANGED <<st, disk>>
    BY <1>1 DEF Call401
  <2>2. GoodTask(n) /\ ~Spends(n)
    BY <1>0 DEF GoodTask, Spends, Task, Phases
  <2> HIDE DEF n
  <2>3. TasksGood'
    BY <2>1, <2>2, TaskStepGood
  <2> QED
    BY <2>1, <2>3, InvParts, FilesUntouched DEF disk, Ordered
<1>2. ASSUME Refresh401(t) PROVE Inv' /\ Ordered
  <2> DEFINE k == st.db.tok
             p == IF k # r.tok THEN "retry" ELSE "refresh"
             n == [r EXCEPT !.tok = k, !.pc = p]
  <2>1. /\ HoldsLock(t) /\ UNCHANGED disk
        /\ \/ SetTask(t, n) /\ UNCHANGED <<st, queue>>
           \/ SyncError(t) /\ Release
    BY <1>2 DEF Refresh401, Refresh401Decide
  <2>2. p \in {"retry", "refresh"}
    OBVIOUS
  <2> HIDE DEF p, k
  <2>3. GoodTask(n)
    BY <1>0, <2>2 DEF GoodTask, Task, Phases, k
  <2> HIDE DEF n
  <2>4. TasksGood' /\ Sound(st', config.email) /\ Quiet(st, st')
    <3>1. CASE SetTask(t, n) /\ UNCHANGED <<st, queue>>
      BY <2>1, <2>3, <3>1, TaskStepGood DEF Inv, Quiet
    <3>2. CASE SyncError(t) /\ Release
      BY <2>1, <3>2, SyncErrorGood
    <3> QED
      BY <2>1, <3>1, <3>2
  <2> QED
    BY <2>1, <2>4, InvParts, QuietOrdered, FilesUntouched DEF disk
<1>3. ASSUME RefreshOk(t) PROVE Inv' /\ Ordered
  <2> DEFINE k == FreshToken(r.tok.own)
             s == StoreTokens(st, k)
             n == [r EXCEPT !.pc = "retry", !.tok = k]
             f == IF s.db.present THEN [dbFile EXCEPT ![r.acct] = SavedDb(s.db)]
                  ELSE dbFile
  <2>1. k \in Token
    BY <1>0, FreshTokenType
  <2>2. Sound(s, config.email) /\ Quiet(st, s)
    BY <1>0, <2>1, StoreTokensSound DEF Inv
  <2>3. /\ st' = s
        /\ dbFile' \in Written("vault", f, dbFile)
        /\ envelope' \in Written("envelope", PersistCurrent(s, r.acct), envelope)
        /\ SetTask(t, n) /\ UNCHANGED <<config, blob, queue>>
    BY <1>3 DEF RefreshOk
  <2>4. HoldsLock(t)
    BY <1>3, TaskFacts DEF RefreshOk, Spends
  <2> HIDE DEF s, k
  <2>5. GoodTask(n)
    BY <1>0, <2>1 DEF GoodTask, Task, Phases
  <2> HIDE DEF n
  <2>6. TasksGood'
    BY <2>3, <2>4, <2>5, TaskStepGood
  <2>7. SavedDb(s.db) \in DbFile
    BY <2>2 DEF Sound, State, Db, SavedDb, DbFile
  <2>8. dbFile' \in [Accounts -> DbFile]
    <3>1. f \in [Accounts -> DbFile] /\ dbFile \in [Accounts -> DbFile]
      BY <1>0, <2>7 DEF Inv, TypeOK
    <3> HIDE DEF f
    <3> QED
      BY <2>3, <3>1, WrittenType
  <2>9. envelope' \in [Accounts -> Envelope]
    BY <1>0, <2>2, <2>3, PersistType, WrittenType DEF Sound, Owner
  <2>10. FilesGood'
    BY <2>3, <2>8, <2>9, InvParts DEF FilesGood, BlobSealsOwnKeys
  <2> QED
    BY <2>2, <2>3, <2>6, <2>10, InvParts, QuietOrdered
<1> QED
  BY <1>1, <1>2, <1>3

\* The handlers that never wait.  Sealing a PIN from the keys in memory is
\* where KeysBelongToConfig is needed.
LEMMA InstantSteps ==
    ASSUME Inv, Instant
    PROVE  Inv' /\ (Ordered \/ Restart)
<1>0. /\ config \in Config /\ config.email \in Owner /\ config.tpm \in BOOLEAN
      /\ config.email # None => config.email \in Accounts
      /\ Sound(st, config.email) /\ TasksGood /\ FilesGood
  BY InvParts DEF FilesGood, Config, Owner
<1>1. ASSUME HandleLock PROVE Inv' /\ Ordered
  <2>1. st' = Lock(st) /\ UNCHANGED disk /\ UNCHANGED <<tasks, queue>>
    BY <1>1 DEF HandleLock
  <2>2. Sound(st', config.email) /\ st'.epoch # st.epoch
    BY <1>0, <2>1, LockSound
  <2> QED
    BY <1>0, <2>1, <2>2, TasksUntouched, FilesUntouched, InvParts DEF Ordered, disk
<1>2. ASSUME HandleLogout PROVE Inv' /\ Ordered
  <2> DEFINE a == config.email
             f == IF a = None THEN dbFile ELSE [dbFile EXCEPT ![a] = EmptyFile]
             n == IF a = None THEN envelope ELSE [envelope EXCEPT ![a] = NoEnvelope]
  <2>1. /\ st' = ClearAccount(st)
        /\ dbFile' \in Written("vault", f, dbFile)
        /\ envelope' \in Written("envelope", n, envelope)
        /\ UNCHANGED <<config, blob>> /\ UNCHANGED <<tasks, queue>>
    BY <1>2 DEF HandleLogout
  <2>2. Sound(st', config.email) /\ st'.epoch # st.epoch
    BY <1>0, <2>1, ClearAccountSound
  <2>3. NoEnvelope \in Envelope /\ EmptyFile \in DbFile
    BY Constants DEF NoEnvelope, Envelope, Owner
  <2>4. /\ f \in [Accounts -> DbFile] /\ dbFile \in [Accounts -> DbFile]
        /\ n \in [Accounts -> Envelope] /\ envelope \in [Accounts -> Envelope]
    BY <1>0, <2>3 DEF FilesGood
  <2> HIDE DEF f, n
  <2>5. dbFile' \in [Accounts -> DbFile] /\ envelope' \in [Accounts -> Envelope]
    BY <2>1, <2>4, WrittenType
  <2>6. FilesGood'
    BY <1>0, <2>1, <2>5 DEF FilesGood, BlobSealsOwnKeys
  <2> QED
    BY <1>0, <2>1, <2>2, <2>6, TasksUntouched, InvParts DEF Ordered
<1>3. ASSUME HandleGetConfig PROVE Inv' /\ Ordered
  <2>1. /\ config.email # None
        /\ st' = [st EXCEPT !.db = LoadDb(dbFile[config.email])]
        /\ UNCHANGED disk /\ UNCHANGED <<tasks, queue>>
    BY <1>3 DEF HandleGetConfig
  <2>2. dbFile[config.email] \in DbFile
    BY <1>0, <2>1 DEF FilesGood
  <2>3. Sound(st', config.email) /\ Quiet(st, st')
    BY <1>0, <2>1, <2>2, LoadSound
  <2> QED
    BY <1>0, <2>1, <2>3, TasksUntouched, FilesUntouched, InvParts, QuietOrdered DEF disk
<1>4. ASSUME SetupTpmPin \/ SetupTpmPinFromUnlocked \/ DisableTpmPin
      PROVE  Inv' /\ Ordered
  <2> DEFINE a == config.email
  <2>1. PICK k \in Owner, b \in BOOLEAN, f \in BOOLEAN :
            /\ LoginAtomic => k \in {a, None}
            /\ blob' = [blob EXCEPT ![a] = k]
            /\ config' = [config EXCEPT !.tpm = b]
            /\ st' = [st EXCEPT !.tpmConfigured = f]
            /\ UNCHANGED <<dbFile, envelope>> /\ UNCHANGED <<tasks, queue>>
            /\ a # None
    <3>0. /\ config = [config EXCEPT !.tpm = config.tpm] /\ st.tpmConfigured \in BOOLEAN
          /\ st = [st EXCEPT !.tpmConfigured = st.tpmConfigured]
          /\ st.keys \in Owner /\ a \in Owner /\ None \in Owner
      BY <1>0 DEF Config, Sound, State, Owner
    <3>1. CASE SetupTpmPin
      BY <1>0, <3>0, <3>1 DEF SetupTpmPin, SealPin, Written
    <3>2. CASE SetupTpmPinFromUnlocked
      <4>1. LoginAtomic => st.keys = a
        BY <1>0, <3>2 DEF SetupTpmPinFromUnlocked, Sound
      <4> QED
        BY <1>0, <3>0, <3>2, <4>1 DEF SetupTpmPinFromUnlocked, SealPin, Written
    <3>3. CASE DisableTpmPin
      BY <1>0, <3>0, <3>3 DEF DisableTpmPin
    <3> QED
      BY <1>4, <3>1, <3>2, <3>3
  <2>2. config' \in Config /\ config'.email = a
    BY <1>0, <2>1 DEF Config
  <2>3. Sound(st', a) /\ Quiet(st, st')
    BY <1>0, <2>1, TpmFlagSound
  <2>4. FilesGood'
    BY <1>0, <2>1, <2>2 DEF FilesGood, BlobSealsOwnKeys
  <2> QED
    BY <1>0, <2>1, <2>2, <2>3, <2>4, TasksUntouched, InvParts, QuietOrdered
<1>5. ASSUME CheckTpm PROVE Inv' /\ Ordered
  <2> DEFINE b == blob[config.email] # None
  <2>1. /\ st' = [st EXCEPT !.tpmConfigured = b] /\ b \in BOOLEAN
        /\ UNCHANGED disk /\ UNCHANGED <<tasks, queue>>
    BY <1>5 DEF CheckTpm
  <2> HIDE DEF b
  <2>2. Sound(st', config.email) /\ Quiet(st, st')
    BY <1>0, <2>1, TpmFlagSound
  <2> QED
    BY <1>0, <2>1, <2>2, TasksUntouched, FilesUntouched, InvParts, QuietOrdered DEF disk
<1>6. ASSUME Restart PROVE Inv'
  <2> DEFINE b == /\ Tpm /\ config.tpm /\ config.email # None
                  /\ blob[config.email] # None
  <2>1. /\ st' = NewState(b) /\ b \in BOOLEAN /\ UNCHANGED disk
        /\ tasks' = [t \in Tasks |-> IdleTask] /\ queue' = <<>>
    BY <1>6 DEF Restart
  <2> HIDE DEF b
  <2>2. Sound(st', config.email)
    BY <1>0, <2>1, NewStateSound
  <2>3. TasksGood'
    BY <2>1, TaskRecords DEF TasksGood, GoodTask, RefreshSerialized, Spending, IdleTask
  <2> QED
    BY <1>0, <2>1, <2>2, <2>3, FilesUntouched, InvParts DEF disk
<1> QED
  BY <1>1, <1>2, <1>3, <1>4, <1>5, <1>6 DEF Instant

\* Every step keeps Inv, and every step but a restart orders lock_epoch.
LEMMA NextInv ==
    ASSUME Inv, [Next]_vars
    PROVE  /\ Inv'
           /\ (st'.keys # st.keys \/ st'.session # st.session)
                  => st'.epoch # st.epoch \/ Restart
<1>1. CASE Instant
  BY <1>1, InstantSteps DEF Ordered
<1>2. CASE \E t \in Tasks : Request(t) \/ Answer(t) \/ Proceed(t)
  <2> PICK t \in Tasks : Request(t) \/ Answer(t) \/ Proceed(t)
    BY <1>2
  <2>1. CASE Request(t)
    BY <2>1, LoginSteps, UnlockSteps, SyncStartSteps DEF Request, Ordered
  <2>2. CASE Answer(t)
    BY <2>2, LoginSteps, ExchangeSteps, GrantSteps, SyncOkSteps, SyncFailSteps,
       RefreshSteps DEF Answer, Ordered
  <2>3. CASE Proceed(t)
    BY <2>3, SyncStartSteps, RestoreUnderLockStep, RefreshSteps DEF Proceed, Ordered
  <2> QED
    BY <2>1, <2>2, <2>3
<1>3. CASE UNCHANGED vars
  <2>1. UNCHANGED <<tasks, queue>> /\ UNCHANGED disk /\ st' = st
    BY <1>3 DEF vars
  <2> QED
    BY <2>1, TasksUntouched, FilesUntouched, InvParts DEF disk
<1> QED
  BY <1>1, <1>2, <1>3 DEF Next

\* The inductive invariant, for every number of accounts and of requests in
\* flight.
THEOREM Invariance == Spec => []Inv
  BY InitInv, NextInv, PTL DEF Spec
-----------------------------------------------------------------------------
(* The results *)

\* The agent's memory, its files and its requests in flight stay well formed;
\* in particular a handler waiting on the server knows its account.
THEOREM TypeCorrect == Spec => []TypeOK
<1>1. Inv => TypeOK
  BY DEF Inv
<1> QED
  BY <1>1, Invariance, PTL

\* The session watch and State::keys never disagree.
THEOREM SessionAgrees == Spec => []SessionMatchesKeys
<1>1. Inv => SessionMatchesKeys
  BY DEF Inv, Sound, SessionMatchesKeys
<1> QED
  BY <1>1, Invariance, PTL

\* No answer that arrives after lock() brings plaintext back.
THEOREM LockedIsEmpty == Spec => []LockedHoldsNoPlaintext
<1>1. Inv => LockedHoldsNoPlaintext
  BY DEF Inv, Sound, LockedHoldsNoPlaintext
<1> QED
  BY <1>1, Invariance, PTL

\* The keys in memory are those of the account the config file names.
THEOREM KeysOfConfig == LoginAtomic => (Spec => []KeysBelongToConfig)
<1> SUFFICES ASSUME LoginAtomic PROVE Spec => []KeysBelongToConfig
  OBVIOUS
<1>1. Inv => KeysBelongToConfig
  BY DEF Inv, Sound, KeysBelongToConfig
<1> QED
  BY <1>1, Invariance, PTL

\* A PIN blob never holds the keys of another account.
THEOREM BlobsSealOwnKeys == LoginAtomic => (Spec => []BlobSealsOwnKeys)
<1> SUFFICES ASSUME LoginAtomic PROVE Spec => []BlobSealsOwnKeys
  OBVIOUS
<1>1. Inv => BlobSealsOwnKeys
  BY DEF Inv
<1> QED
  BY <1>1, Invariance, PTL

\* The ssh-agent lists identities of the configured account only.
THEOREM SshListsOwnKeys == LoginAtomic => (Spec => []SshIdentitiesOfAccount)
<1> SUFFICES ASSUME LoginAtomic PROVE Spec => []SshIdentitiesOfAccount
  OBVIOUS
<1>1. Inv => SshIdentitiesOfAccount
  BY DEF Inv, Sound, SshIdentitiesOfAccount
<1> QED
  BY <1>1, Invariance, PTL

\* At most one request spends a refresh token at a time.
THEOREM RefreshIsSerialized == Spec => []RefreshSerialized
<1>1. Inv => RefreshSerialized
  BY DEF Inv
<1> QED
  BY <1>1, Invariance, PTL

\* lock_epoch moves with every change of the lock state, for every width of
\* the counter above one value.
THEOREM EpochOrders == Spec => EpochTracksTransitions
<1>1. Inv /\ [Next]_vars =>
        [(st'.keys # st.keys \/ st'.session # st.session)
            => st'.epoch # st.epoch \/ Restart]_vars
  BY NextInv
<1> QED
  BY <1>1, Invariance, PTL DEF Spec, EpochTracksTransitions

-----------------------------------------------------------------------------
(***************************************************************************)
(* The session envelope                                                    *)
(*                                                                         *)
(* Two properties of the file that holds the refresh token are about one   *)
(* account whose envelope can be written: with two, an exchange that ends  *)
(* after an account switch seals the new account's session in the old      *)
(* account's file.  Both need to know where a token can come from, that    *)
(* there is always a vault behind an envelope, and that the keys in memory *)
(* are never without one.                                                  *)
(***************************************************************************)

\* One account, and its envelope can be written and removed.
SoleAccount ==
    /\ \A a, b \in Accounts : a = b
    /\ "envelope" \notin Faults

\* The phases in which a task carries a token it got from the server.
Carrying == {"exchange", "call", "wait401", "refresh", "retry"}
TaskOwned(r) == r.pc \in Carrying => r.tok.own # None

\* Every token in memory, on disk or in flight was minted for an account.
TokensOwned(s, e, q) ==
    /\ s.db.tok # NoToken => s.db.tok.own # None
    /\ \A a \in Accounts : e[a] # NoEnvelope => e[a].keys # None /\ e[a].tok.own # None
    /\ \A t \in Tasks : TaskOwned(q[t])

\* Unlocked, the vault is in memory and on disk; an envelope has a vault file
\* beside it, and a database in memory that is not an empty one.
VaultBehind(s, f, e) ==
    /\ s.keys # None => s.db.vault # None /\ \A a \in Accounts : f[a].vault # None
    /\ \A a \in Accounts : e[a] # NoEnvelope =>
            f[a].vault # None /\ (s.db.present => s.db.vault # None)

\* The envelope of the configured account c is the live session.
Sealed(s, c, e) ==
    s.keys # None /\ s.db.tok # NoToken => e[c] = Seal(s.keys, s.db.tok)

EnvelopeInv ==
    /\ Inv
    /\ TokensOwned(st, envelope, tasks)
    /\ VaultBehind(st, dbFile, envelope)
    /\ ~Tpm => Sealed(st, config.email, envelope)

\* What each method of State does to the keys and to the database.
LEMMA LockFields ==
    ASSUME NEW s \in State
    PROVE  /\ Lock(s).keys = None /\ Lock(s).db.tok = NoToken
           /\ Lock(s).db.present = s.db.present /\ Lock(s).db.vault = s.db.vault
           /\ ClearAccount(s).keys = None /\ ClearAccount(s).db = NoDb
<1>1. s.db \in Db
  BY DEF State
<1>2. /\ Lock(s).keys = None /\ Lock(s).db.tok = NoToken
      /\ Lock(s).db.present = s.db.present /\ Lock(s).db.vault = s.db.vault
  BY <1>1 DEF Lock, BumpEpoch, State, Db
<1>3. ClearAccount(s).keys = None /\ ClearAccount(s).db = NoDb
  <2> DEFINE l == Lock(s)
  <2>1. l.keys = None /\ DOMAIN l = DOMAIN s
    BY DEF Lock, BumpEpoch, State
  <2>2. ClearAccount(s) = [l EXCEPT !.sshIds = None, !.db = NoDb, !.userId = None,
                                    !.syncFailed = FALSE, !.session = "LoggedOut"]
    BY DEF ClearAccount
  <2>3. "db" \in DOMAIN l /\ "keys" \in DOMAIN l
    BY <2>1 DEF State
  <2> HIDE DEF l
  <2> QED
    BY <2>1, <2>2, <2>3
<1> QED
  BY <1>2, <1>3

\* An unlock takes the vault from the file and the token from memory; a login
\* takes both from the server.
LEMMA CommitFields ==
    ASSUME NEW s \in State, NEW k \in Accounts, NEW f \in DbFile, NEW x \in Token
    PROVE  /\ CommitUnlock(s, k, f).keys = k
           /\ CommitUnlock(s, k, f).db.present
           /\ CommitUnlock(s, k, f).db.vault = f.vault
           /\ CommitUnlock(s, k, f).db.tok = s.db.tok
           /\ CommitLogin(s, k, x).keys = k
           /\ CommitLogin(s, k, x).db.present
           /\ CommitLogin(s, k, x).db.vault = k
           /\ CommitLogin(s, k, x).db.tok = x
<1>0. k # None
  BY Constants
<1>1. ASSUME NEW u, DOMAIN u = DOMAIN s, u.keys # None
      PROVE  /\ RebuildSidebarCache(u).keys = u.keys
             /\ RebuildSidebarCache(u).db = u.db
  BY <1>1 DEF RebuildSidebarCache, State
<1> DEFINE d == [LoadDb(f) EXCEPT !.tok = s.db.tok]
           u == BumpEpoch([s EXCEPT !.keys = k, !.orgKeys = k, !.db = d])
           g == [present |-> TRUE, kdf |-> TRUE, vault |-> k, tok |-> x]
           v == BumpEpoch([s EXCEPT !.keys = k, !.orgKeys = k, !.userId = k,
                                    !.syncFailed = FALSE, !.db = g])
<1>2. d.present /\ d.vault = f.vault /\ d.tok = s.db.tok
  BY DEF LoadDb
<1>3. g.present /\ g.vault = k /\ g.tok = x
  OBVIOUS
<1>4. CommitUnlock(s, k, f) = RebuildSidebarCache(u)
  BY DEF CommitUnlock
<1>5. CommitLogin(s, k, x) = RebuildSidebarCache(v)
  BY DEF CommitLogin
<1> HIDE DEF d, g
<1>6. DOMAIN u = DOMAIN s /\ u.keys = k /\ u.db = d
  BY DEF BumpEpoch, State
<1>7. DOMAIN v = DOMAIN s /\ v.keys = k /\ v.db = g
  BY DEF BumpEpoch, State
<1> HIDE DEF u, v
<1>8. /\ RebuildSidebarCache(u).keys = k /\ RebuildSidebarCache(u).db = d
      /\ RebuildSidebarCache(v).keys = k /\ RebuildSidebarCache(v).db = g
  BY <1>0, <1>1, <1>6, <1>7
<1> QED
  BY <1>2, <1>3, <1>4, <1>5, <1>8

\* A record with the keys and the database of another.
SameVault(s, n) == n.keys = s.keys /\ n.db = s.db

\* A failed sync is recorded without a look at the vault.
LEMMA SyncFailedFields ==
    ASSUME NEW s \in State, NEW b
    PROVE  SameVault(s, MarkSyncFailed(s)) /\ SameVault(s, RecordSyncError(s, b))
  BY DEF SameVault, MarkSyncFailed, RecordSyncError, State

\* The methods that leave the keys alone, and what they leave of the database.
LEMMA QuietFields ==
    ASSUME NEW s \in State, NEW k \in Token, NEW a \in Owner
    PROVE  /\ StoreTokens(s, k).keys = s.keys
           /\ StoreTokens(s, k).db.present = s.db.present
           /\ StoreTokens(s, k).db.vault = s.db.vault
           /\ StoreTokens(s, k).db.tok = IF s.db.present THEN k ELSE s.db.tok
           /\ ApplySync(s, a).keys = s.keys
           /\ ApplySync(s, a).db.present = s.db.present
           /\ ApplySync(s, a).db.vault = IF s.db.present THEN a ELSE s.db.vault
           /\ ApplySync(s, a).db.tok = s.db.tok
<1>0. s.db \in Db
  BY DEF State
<1>1. /\ StoreTokens(s, k).keys = s.keys
      /\ StoreTokens(s, k).db.present = s.db.present
      /\ StoreTokens(s, k).db.vault = s.db.vault
      /\ StoreTokens(s, k).db.tok = IF s.db.present THEN k ELSE s.db.tok
  BY <1>0 DEF StoreTokens, State, Db
<1>3. ASSUME NEW u, DOMAIN u = DOMAIN s
      PROVE  /\ RebuildSidebarCache(u).keys = u.keys
             /\ RebuildSidebarCache(u).db = u.db
  BY <1>3 DEF RebuildSidebarCache, State
<1> DEFINE d == [s.db EXCEPT !.vault = IF s.db.present THEN a ELSE s.db.vault]
           u == [s EXCEPT !.userId = a, !.db = d, !.syncFailed = FALSE]
<1>4. /\ d.present = s.db.present /\ d.tok = s.db.tok
      /\ d.vault = IF s.db.present THEN a ELSE s.db.vault
  BY <1>0 DEF Db
<1>5. ApplySync(s, a) = RebuildSidebarCache(u)
  BY <1>0 DEF ApplySync, State, Db
<1> HIDE DEF d
<1>6. DOMAIN u = DOMAIN s /\ u.keys = s.keys /\ u.db = d
  BY DEF State
<1> HIDE DEF u
<1> QED
  BY <1>1, <1>3, <1>4, <1>5, <1>6

\* A token that has an owner is a token.
LEMMA OwnedTokens ==
    /\ NoToken.own = None
    /\ \A a : FreshToken(a).own = a
    /\ NoEnvelope.keys = None /\ NoEnvelope.tok = NoToken
    /\ \A k, x : Seal(k, x).keys = k /\ Seal(k, x).tok = x
  BY DEF NoToken, FreshToken, NoEnvelope, Seal

\* The part of EnvelopeInv about the variables other than Inv's.
EnvelopeParts(s, c, f, e, q) ==
    /\ TokensOwned(s, e, q)
    /\ VaultBehind(s, f, e)
    /\ ~Tpm => Sealed(s, c, e)

\* EnvelopeInv by its parts, now and after the step.
LEMMA EnvelopeInvParts ==
    /\ EnvelopeInv <=> Inv /\ EnvelopeParts(st, config.email, dbFile, envelope, tasks)
    /\ EnvelopeInv' <=> Inv' /\ EnvelopeParts(st', config'.email, dbFile', envelope', tasks')
  BY DEF EnvelopeInv, EnvelopeParts

\* The task records the handlers build carry owned tokens: restore_session
\* takes its token from an envelope it could open.
LEMMA RecordsOwned ==
    ASSUME EnvelopeInv
    PROVE  /\ TaskOwned(IdleTask) /\ TaskOwned(SpawnedTask)
           /\ \A a, k, b : k.own # None => TaskOwned(CallTask(a, k, b))
           /\ \A r \in Task : TaskOwned(NextSource(r))
           /\ \A r \in Task : r.acct # None => TaskOwned(RestoreSession(r))
<1>1. TaskOwned(IdleTask) /\ TaskOwned(SpawnedTask)
  BY DEF TaskOwned, IdleTask, SpawnedTask, Carrying
<1>2. ASSUME NEW a, NEW k, NEW b, k.own # None PROVE TaskOwned(CallTask(a, k, b))
  BY <1>2 DEF TaskOwned, CallTask, IdleTask
<1>3. ASSUME NEW r \in Task PROVE TaskOwned(NextSource(r))
  <2>1. [r EXCEPT !.pc = "grant", !.tok = NoToken].pc = "grant"
    BY DEF Task
  <2> QED
    BY <1>1, <2>1 DEF NextSource, TaskOwned, Carrying
<1>4. ASSUME NEW r \in Task, r.acct # None PROVE TaskOwned(RestoreSession(r))
  <2>1. CASE Opens(r.keys, r.acct)
    <3>1. r.acct \in Accounts
      BY <1>4 DEF Task, Owner
    <3>2. envelope[r.acct].tok.own # None
      BY <2>1, <3>1, OwnedTokens DEF EnvelopeInv, TokensOwned, Opens, Unseal
    <3> DEFINE k == envelope[r.acct].tok
    <3>3. RestoreSession(r) = [r EXCEPT !.pc = "exchange", !.tok = k] /\ k.own # None
      BY <2>1, <3>2 DEF RestoreSession
    <3> HIDE DEF k
    <3> QED
      BY <3>3 DEF TaskOwned, Task
  <2>2. CASE ~Opens(r.keys, r.acct)
    BY <1>3, <2>2 DEF RestoreSession
  <2> QED
    BY <2>1, <2>2
<1> QED
  BY <1>1, <1>2, <1>3, <1>4

\* A task that goes on with an owned record leaves all of them owned.
LEMMA SetOwned ==
    ASSUME EnvelopeInv, NEW t \in Tasks, NEW r, TaskOwned(r), SetTask(t, r)
    PROVE  \A u \in Tasks : TaskOwned(tasks'[u])
  BY DEF EnvelopeInv, Inv, TypeOK, TokensOwned, SetTask

\* A step that leaves the keys, the database and the files alone.
LEMMA SameVaultStep ==
    ASSUME EnvelopeInv, SameVault(st, st'), config'.email = config.email,
           UNCHANGED <<dbFile, envelope>>, \A u \in Tasks : TaskOwned(tasks'[u])
    PROVE  EnvelopeParts(st', config'.email, dbFile', envelope', tasks')
  BY DEF EnvelopeInv, EnvelopeParts, SameVault, TokensOwned, VaultBehind, Sealed

\* A token pair from the server goes into the state and on into the envelope;
\* the 401 path also saves the database in memory.
LEMMA StoreStep ==
    ASSUME EnvelopeInv, SoleAccount, NEW k \in Token, k.own # None,
           NEW a \in Accounts, NEW s, s = StoreTokens(st, k),
           SameVault(s, st'), config' = config,
           \/ dbFile' = dbFile
           \/ s.db.present /\ dbFile' = [dbFile EXCEPT ![a] = SavedDb(s.db)],
           envelope' \in Written("envelope", PersistCurrent(s, a), envelope),
           \A u \in Tasks : TaskOwned(tasks'[u])
    PROVE  EnvelopeParts(st', config'.email, dbFile', envelope', tasks')
<1>1. /\ st \in State /\ envelope \in [Accounts -> Envelope]
      /\ dbFile \in [Accounts -> DbFile]
      /\ config.email \in Owner /\ (st.keys # None => config.email \in Accounts)
  BY DEF EnvelopeInv, Inv, TypeOK, Sound, Config, Owner
<1>2. /\ s.keys = st.keys /\ s.db.present = st.db.present /\ s.db.vault = st.db.vault
      /\ s.db.tok = IF st.db.present THEN k ELSE st.db.tok
  BY <1>1, QuietFields, Constants DEF Owner
<1>3. \A b \in Accounts : b = a
  BY DEF SoleAccount
<1>4. envelope' = PersistCurrent(s, a)
  BY DEF SoleAccount, Written
<1>5. s.db.tok # NoToken => s.db.tok.own # None
  BY <1>2 DEF EnvelopeInv, TokensOwned
<1>6. CASE s.keys = None \/ s.db.tok = NoToken
  <2>1. envelope' = envelope
    BY <1>4, <1>6 DEF PersistCurrent
  <2>2. TokensOwned(st', envelope', tasks')
    BY <1>5, <2>1 DEF EnvelopeInv, TokensOwned, SameVault
  <2>3. VaultBehind(st', dbFile', envelope')
    BY <1>1, <1>2, <1>3, <2>1 DEF EnvelopeInv, VaultBehind, SameVault, SavedDb
  <2> QED
    BY <1>6, <2>2, <2>3 DEF EnvelopeParts, Sealed, SameVault
<1>7. CASE s.keys # None /\ s.db.tok # NoToken
  <2>1. envelope' = [envelope EXCEPT ![a] = Seal(s.keys, s.db.tok)]
    BY <1>4, <1>7 DEF PersistCurrent
  <2>2. envelope'[a] = Seal(s.keys, s.db.tok)
    BY <1>1, <2>1
  <2>3. TokensOwned(st', envelope', tasks')
    BY <1>3, <1>5, <1>7, <2>2, OwnedTokens DEF TokensOwned, SameVault
  <2>4. VaultBehind(st', dbFile', envelope')
    BY <1>1, <1>2, <1>3, <1>7 DEF EnvelopeInv, VaultBehind, SameVault, SavedDb
  <2>5. config'.email = a
    BY <1>1, <1>2, <1>3, <1>7
  <2> QED
    BY <2>2, <2>3, <2>4, <2>5 DEF EnvelopeParts, Sealed, SameVault
<1> QED
  BY <1>6, <1>7

\* What the steps below use of EnvelopeInv.
LEMMA EnvelopeFacts ==
    ASSUME EnvelopeInv, SoleAccount
    PROVE  /\ Inv /\ st \in State /\ config.email \in Owner
           /\ st.keys \in Owner /\ st.db.tok \in Token
           /\ config.email # None => config.email \in Accounts
           /\ st.keys # None => st.db.present
           /\ st.db.present => config.email # None
           /\ dbFile \in [Accounts -> DbFile] /\ envelope \in [Accounts -> Envelope]
           /\ \A a, b \in Accounts : a = b
           /\ \A n, o : Written("envelope", n, o) = {n}
           /\ st.db.tok # NoToken => st.db.tok.own # None
           /\ \A u \in Tasks : TaskOwned(tasks[u])
  BY DEF EnvelopeInv, Inv, TypeOK, Sound, Config, Owner, SoleAccount, Written,
         TokensOwned, State, Db

\* A login seals the session it has just got, beside the vault it has just
\* saved; one that ends half way has saved a vault.
LEMMA LoginEnvelope ==
    ASSUME EnvelopeInv, SoleAccount, NEW t \in Tasks,
           LoginDone(t) \/ LoginPartial(t)
    PROVE  EnvelopeParts(st', config'.email, dbFile', envelope', tasks')
<1> DEFINE a == tasks[t].acct
           k == FreshToken(a)
<1>1. a \in Accounts /\ a # None /\ a \in Owner /\ \A b \in Accounts : b = a
  BY EnvelopeFacts, TaskFacts, Constants DEF LoginDone, LoginPartial, Owner
<1>2. k \in Token /\ k.own = a /\ k # NoToken
  BY <1>1, FreshTokenType, OwnedTokens
<1>3. /\ dbFile' = [dbFile EXCEPT ![a] = [kdf |-> TRUE, vault |-> a]]
      /\ SetTask(t, IdleTask)
  BY DEF LoginDone, LoginPartial, EndTask
<1>4. dbFile'[a].vault = a
  BY <1>1, <1>3, EnvelopeFacts
<1>5. \A u \in Tasks : TaskOwned(tasks'[u])
  BY <1>3, RecordsOwned, SetOwned
<1>6. CASE LoginDone(t)
  <2>0. /\ st' = CommitLogin(st, a, k) /\ config'.email = a
        /\ envelope' \in Written("envelope",
                         [envelope EXCEPT ![a] = Seal(a, k)], envelope)
    BY <1>6 DEF LoginDone
  <2> HIDE DEF k
  <2>1. envelope' = [envelope EXCEPT ![a] = Seal(a, k)]
    BY <2>0 DEF SoleAccount, Written
  <2>2. st'.keys = a /\ st'.db.vault = a /\ st'.db.tok = k
    <3>1. EmptyFile \in DbFile /\ st \in State
      BY Constants, EnvelopeFacts
    <3> QED
      BY <1>1, <1>2, <2>0, <3>1, CommitFields
  <2>3. envelope'[a] = Seal(a, k)
    BY <1>1, <2>1, EnvelopeFacts
  <2> HIDE DEF a
  <2>4. TokensOwned(st', envelope', tasks')
    BY <1>1, <1>2, <1>5, <2>2, <2>3, OwnedTokens DEF TokensOwned
  <2>5. VaultBehind(st', dbFile', envelope')
    BY <1>1, <1>4, <2>2 DEF VaultBehind
  <2> QED
    BY <2>0, <2>2, <2>3, <2>4, <2>5 DEF EnvelopeParts, Sealed
<1>7. CASE LoginPartial(t)
  <2>1. /\ UNCHANGED <<st, envelope>>
        /\ config'.email = config.email \/ config'.email = a
    BY <1>7 DEF LoginPartial
  <2>2. st.keys # None => config'.email = config.email
    BY <1>1, <2>1, EnvelopeFacts
  <2>3. TokensOwned(st', envelope', tasks')
    BY <1>5, <2>1 DEF EnvelopeInv, TokensOwned
  <2>4. VaultBehind(st', dbFile', envelope')
    BY <1>1, <1>4, <2>1 DEF EnvelopeInv, VaultBehind
  <2> QED
    BY <2>1, <2>2, <2>3, <2>4 DEF EnvelopeInv, EnvelopeParts, Sealed
<1> QED
  BY <1>6, <1>7

\* An unlock seals the token it finds in memory, if it is one with the master
\* password; a PIN unlock keeps it without sealing it.
LEMMA UnlockEnvelope ==
    ASSUME EnvelopeInv, SoleAccount, NEW t \in Tasks, Unlock(t) \/ UnlockWithPin(t)
    PROVE  EnvelopeParts(st', config'.email, dbFile', envelope', tasks')
<1> DEFINE a == config.email
           s == CommitUnlock(st, a, dbFile[a])
<1>0. /\ a \in Accounts /\ a # None /\ \A b \in Accounts : b = a
      /\ dbFile[a] \in DbFile
  BY EnvelopeFacts DEF Unlock, UnlockWithPin
<1>1. /\ dbFile[a].vault # None /\ UNCHANGED <<config, dbFile>>
      /\ \E h \in BOOLEAN : AfterUnlock(t, s, a, h)
      /\ \/ envelope' \in Written("envelope", PersistCurrent(s, a), envelope)
         \/ envelope' = envelope /\ Tpm
  <2>1. CASE Unlock(t)
    BY <2>1 DEF Unlock, HasAccount
  <2>2. CASE UnlockWithPin(t)
    <3>1. blob[a] = a
      BY <1>0, <2>2, EnvelopeFacts DEF UnlockWithPin, Inv, TypeOK, Owner
    <3> QED
      BY <2>2, <3>1 DEF UnlockWithPin, HasAccount, disk
  <2> QED
    BY <2>1, <2>2
<1>2. s.keys = a /\ s.db.vault # None /\ s.db.tok = st.db.tok
  BY <1>0, <1>1, EnvelopeFacts, CommitFields, Constants
<1>3. envelope' = PersistCurrent(s, a) \/ (envelope' = envelope /\ Tpm)
  BY <1>1, EnvelopeFacts
<1>4. s \in State
  BY <1>0, EnvelopeFacts, CommitUnlockSound DEF Sound, Inv
<1> HIDE DEF s
<1>5. SameVault(s, st') /\ \A u \in Tasks : TaskOwned(tasks'[u])
  <2>1. PICK h \in BOOLEAN : AfterUnlock(t, s, a, h)
    BY <1>1
  <2> DEFINE r0 == [IdleTask EXCEPT !.acct = a, !.keys = s.keys,
                                    !.hash = h, !.by = "unlock"]
             r == RestoreSession(r0)
             n == IF s.db.tok # NoToken THEN SpawnedTask ELSE r
  <2>2. r0 \in Task /\ r0.acct # None
    BY <1>0, <1>2, TaskRecords DEF GoodTask, Task, Owner
  <2>3. /\ st' = IF n.pc = "idle" THEN MarkSyncFailed(s) ELSE s
        /\ SetTask(t, n)
    BY <2>1 DEF AfterUnlock
  <2> HIDE DEF r0
  <2>4. TaskOwned(n)
    BY <2>2, RecordsOwned
  <2> HIDE DEF n
  <2>5. SameVault(s, st')
    BY <1>4, <2>3, SyncFailedFields DEF SameVault
  <2> QED
    BY <2>3, <2>4, <2>5, SetOwned
<1>6. VaultBehind(st', dbFile', envelope')
  BY <1>0, <1>1, <1>2, <1>5 DEF VaultBehind, SameVault
<1>7. CASE s.db.tok # NoToken /\ envelope' = PersistCurrent(s, a)
  <2>1. envelope'[a] = Seal(s.keys, s.db.tok)
    BY <1>0, <1>2, <1>7, EnvelopeFacts DEF PersistCurrent
  <2>2. TokensOwned(st', envelope', tasks')
    BY <1>0, <1>2, <1>5, <1>7, <2>1, OwnedTokens, EnvelopeFacts DEF TokensOwned, SameVault
  <2> QED
    BY <1>1, <1>5, <1>6, <2>1, <2>2 DEF EnvelopeParts, Sealed, SameVault
<1>8. CASE envelope' = envelope /\ (Tpm \/ s.db.tok = NoToken)
  <2>1. TokensOwned(st', envelope', tasks')
    BY <1>2, <1>5, <1>8 DEF EnvelopeInv, TokensOwned, SameVault
  <2> QED
    BY <1>5, <1>6, <1>8, <2>1 DEF EnvelopeParts, Sealed, SameVault
<1> QED
  BY <1>3, <1>7, <1>8 DEF PersistCurrent

\* The server's token answers: an exchange, a password grant, a refresh.
LEMMA TokenEnvelope ==
    ASSUME EnvelopeInv, SoleAccount, NEW t \in Tasks,
           ExchangeOk(t) \/ GrantOk(t) \/ RefreshOk(t)
    PROVE  EnvelopeParts(st', config'.email, dbFile', envelope', tasks')
<1> DEFINE r == tasks[t]
<1>1. /\ r \in Task /\ r.acct \in Accounts /\ r.acct # None /\ r.acct \in Owner
      /\ r.tok.own \in Owner /\ TaskOwned(r)
  BY EnvelopeFacts, TaskFacts, Constants DEF ExchangeOk, GrantOk, RefreshOk
<1>2. CASE ExchangeOk(t)
  <2> DEFINE k == FreshToken(r.tok.own)
             s == StoreTokens(st, k)
  <2>1. k \in Token /\ k.own # None /\ k # NoToken
    BY <1>1, <1>2, FreshTokenType, OwnedTokens DEF ExchangeOk, TaskOwned, Carrying
  <2>2. /\ envelope' \in Written("envelope", PersistCurrent(s, r.acct), envelope)
        /\ UNCHANGED <<config, dbFile>>
        /\ \/ st' = s /\ SetTask(t, SpawnedTask)
           \/ /\ s.db.tok # NoToken /\ st' = s
              /\ SetTask(t, CallTask(r.acct, s.db.tok, r.lockedAtEntry))
           \/ s.db.tok = NoToken /\ SyncError(t)
    BY <1>2 DEF ExchangeOk
  <2> HIDE DEF k
  <2>3. s.db.tok = IF st.db.present THEN k ELSE st.db.tok
    BY <1>1, <2>1, EnvelopeFacts, QuietFields
  <2>4. s.db.tok = NoToken => s = st
    BY <2>1, <2>3 DEF StoreTokens
  <2>5. s.db.tok # NoToken => s.db.tok.own # None
    BY <2>1, <2>3, EnvelopeFacts
  <2>6. SameVault(s, st')
    BY <2>2, <2>4, EnvelopeFacts, SyncFailedFields DEF SyncError, SameVault
  <2> HIDE DEF s
  <2>7. \A u \in Tasks : TaskOwned(tasks'[u])
    <3>1. PICK n : SetTask(t, n) /\ TaskOwned(n)
      BY <2>2, <2>5, RecordsOwned DEF SyncError, EndTask
    <3> QED
      BY <3>1, SetOwned
  <2> QED
    BY <1>1, <2>1, <2>2, <2>6, <2>7, StoreStep DEF s
<1>3. CASE GrantOk(t)
  <2> DEFINE k == FreshToken(r.acct)
             s == StoreTokens(st, k)
  <2>1. k \in Token /\ k.own # None
    BY <1>1, FreshTokenType, OwnedTokens
  <2>2. /\ st' = s /\ SetTask(t, SpawnedTask) /\ UNCHANGED <<config, dbFile>>
        /\ envelope' \in Written("envelope", PersistCurrent(s, r.acct), envelope)
    BY <1>3 DEF GrantOk
  <2> HIDE DEF k
  <2>3. \A u \in Tasks : TaskOwned(tasks'[u])
    BY <2>2, RecordsOwned, SetOwned
  <2>4. SameVault(s, st')
    BY <2>2 DEF SameVault
  <2> QED
    BY <1>1, <2>1, <2>2, <2>3, <2>4, StoreStep
<1>4. CASE RefreshOk(t)
  <2> DEFINE k == FreshToken(r.tok.own)
             s == StoreTokens(st, k)
             n == [r EXCEPT !.pc = "retry", !.tok = k]
             f == IF s.db.present THEN [dbFile EXCEPT ![r.acct] = SavedDb(s.db)]
                  ELSE dbFile
  <2>1. k \in Token /\ k.own # None
    BY <1>1, <1>4, FreshTokenType, OwnedTokens DEF RefreshOk, TaskOwned, Carrying
  <2>2. /\ st' = s /\ SetTask(t, n) /\ config' = config
        /\ dbFile' \in Written("vault", f, dbFile)
        /\ envelope' \in Written("envelope", PersistCurrent(s, r.acct), envelope)
    BY <1>4 DEF RefreshOk
  <2> HIDE DEF k
  <2>3. TaskOwned(n)
    BY <1>1, <2>1 DEF TaskOwned, Task
  <2> HIDE DEF n
  <2>4. \A u \in Tasks : TaskOwned(tasks'[u])
    BY <2>2, <2>3, SetOwned
  <2> HIDE DEF s
  <2>5. \/ dbFile' = dbFile
        \/ s.db.present /\ dbFile' = [dbFile EXCEPT ![r.acct] = SavedDb(s.db)]
    BY <2>2 DEF Written
  <2>6. SameVault(s, st')
    BY <2>2 DEF SameVault
  <2> QED
    BY <1>1, <2>1, <2>2, <2>4, <2>5, <2>6, StoreStep DEF s
<1> QED
  BY <1>2, <1>3, <1>4

\* A sync's answer belongs to the account of the token that was sent, so the
\* vault it leaves in memory and on disk is not an empty one.
LEMMA SyncEnvelope ==
    ASSUME EnvelopeInv, SoleAccount, NEW t \in Tasks, CallOk(t) \/ RetryOk(t)
    PROVE  EnvelopeParts(st', config'.email, dbFile', envelope', tasks')
<1> DEFINE a == tasks[t].tok.own
           f == IF st.db.present
                THEN [dbFile EXCEPT ![config.email] = SavedDb(st'.db)] ELSE dbFile
<1>1. a \in Owner /\ a # None
  BY EnvelopeFacts, TaskFacts DEF CallOk, RetryOk, TaskOwned, Carrying
<1>2. /\ st' = ApplySync(st, a) /\ dbFile' \in Written("vault", f, dbFile)
      /\ SetTask(t, IdleTask) /\ UNCHANGED <<config, envelope>>
  BY DEF CallOk, RetryOk, FinishSync, EndTask
<1>3. /\ st'.keys = st.keys /\ st'.db.present = st.db.present
      /\ st'.db.tok = st.db.tok
      /\ st'.db.vault = IF st.db.present THEN a ELSE st.db.vault
  BY <1>1, <1>2, EnvelopeFacts, QuietFields
<1>4. \A u \in Tasks : TaskOwned(tasks'[u])
  BY <1>2, RecordsOwned, SetOwned
<1>5. TokensOwned(st', envelope', tasks')
  BY <1>2, <1>3, <1>4 DEF EnvelopeInv, TokensOwned
<1>6. \A b \in Accounts : dbFile[b].vault # None => dbFile'[b].vault # None
  <2>1. CASE dbFile' = dbFile
    BY <2>1
  <2>2. CASE st.db.present /\ dbFile' = [dbFile EXCEPT ![config.email] = SavedDb(st'.db)]
    BY <1>1, <1>3, <2>2, EnvelopeFacts DEF SavedDb
  <2> QED
    BY <1>2, <2>1, <2>2 DEF Written
<1>7. VaultBehind(st', dbFile', envelope')
  <2> HIDE DEF a
  <2> QED
    BY <1>1, <1>2, <1>3, <1>6, EnvelopeFacts DEF EnvelopeInv, VaultBehind
<1> QED
  BY <1>2, <1>3, <1>5, <1>7 DEF EnvelopeInv, EnvelopeParts, Sealed

\* The steps of a task that touch neither the vault in memory nor a file.
LEMMA WaitingEnvelope ==
    ASSUME EnvelopeInv, SoleAccount, NEW t \in Tasks,
           \/ (\E a \in Accounts : LoginStart(t, a)) \/ LoginFailed(t)
           \/ SyncRequest(t) \/ ExchangeFailed(t) \/ GrantFailed(t)
           \/ CallFailed(t) \/ Call401(t) \/ RefreshFailed(t) \/ RetryFailed(t)
           \/ Proceed(t)
    PROVE  EnvelopeParts(st', config'.email, dbFile', envelope', tasks')
<1> DEFINE r == tasks[t]
           Quietly(n) == SetTask(t, n) /\ TaskOwned(n) /\ SameVault(st, st')
<1>0. /\ r \in Task /\ st \in State /\ TaskOwned(r)
      /\ r.pc \notin {"idle", "spawned"} => r.acct # None
      /\ SameVault(st, st)
  BY EnvelopeFacts, TaskFacts, Constants DEF SameVault
<1>1. UNCHANGED disk
  BY DEF LoginStart, LoginFailed, SyncRequest, ExchangeFailed, GrantFailed,
         CallFailed, Call401, RefreshFailed, RetryFailed, Proceed,
         BackgroundSync, RestoreUnderLock, Refresh401, Refresh401Decide
<1>2. ASSUME SyncError(t) PROVE Quietly(IdleTask)
  BY <1>0, <1>2, SyncFailedFields, RecordsOwned DEF SyncError, EndTask
<1>3. ASSUME NEW a \in Accounts, LoginStart(t, a) PROVE \E n : Quietly(n)
  <2> DEFINE n == [IdleTask EXCEPT !.pc = "login", !.acct = a, !.tpm = config.tpm]
  <2>1. TaskOwned(n)
    BY DEF TaskOwned, IdleTask, Carrying
  <2>2. SetTask(t, n) /\ st' = st
    BY <1>3 DEF LoginStart
  <2> HIDE DEF n
  <2> QED
    BY <1>0, <2>1, <2>2
<1>4. ASSUME LoginFailed(t) \/ GrantFailed(t) PROVE \E n : Quietly(n)
  BY <1>0, <1>4, SyncFailedFields, RecordsOwned DEF LoginFailed, GrantFailed, EndTask
<1>5. ASSUME SyncEntry(t) PROVE \E n : Quietly(n)
  <2> DEFINE l == st.keys = None
             c == CallTask(config.email, st.db.tok, l)
             w == [c EXCEPT !.pc = "waitRestore", !.keys = st.keys, !.by = "request"]
  <2>1. \/ st.db.tok # NoToken /\ SetTask(t, c) /\ st' = st
        \/ SetTask(t, w) /\ st' = st
        \/ st' = RecordSyncError(st, l) /\ SetTask(t, IdleTask)
    BY <1>5 DEF SyncEntry, EndTask
  <2>2. st.db.tok # NoToken => TaskOwned(c)
    BY EnvelopeFacts, RecordsOwned
  <2>3. TaskOwned(w)
    BY DEF TaskOwned, CallTask, IdleTask, Carrying
  <2> HIDE DEF c, w, l
  <2> QED
    BY <1>0, <2>1, <2>2, <2>3, SyncFailedFields, RecordsOwned
<1>6. ASSUME ExchangeFailed(t) PROVE \E n : Quietly(n)
  <2> DEFINE n == NextSource(r)
  <2>1. \/ SetTask(t, n) /\ (st' = MarkSyncFailed(st) \/ st' = st)
        \/ SyncError(t)
    BY <1>6 DEF ExchangeFailed
  <2>2. TaskOwned(n)
    BY <1>0, RecordsOwned
  <2> HIDE DEF n
  <2> QED
    BY <1>0, <1>2, <2>1, <2>2, SyncFailedFields
<1>7. ASSUME RestoreUnderLock(t) PROVE \E n : Quietly(n)
  <2> DEFINE n == RestoreSession(r)
             c == CallTask(r.acct, st.db.tok, r.lockedAtEntry)
  <2>1. \/ st.db.tok # NoToken /\ SetTask(t, c) /\ st' = st
        \/ SetTask(t, n) /\ st' = st
        \/ SyncError(t)
    BY <1>7 DEF RestoreUnderLock
  <2>2. TaskOwned(n) /\ (st.db.tok # NoToken => TaskOwned(c))
    BY <1>0, <1>7, EnvelopeFacts, RecordsOwned DEF RestoreUnderLock
  <2> HIDE DEF n, c
  <2> QED
    BY <1>0, <1>2, <2>1, <2>2
<1>8. ASSUME Call401(t) PROVE \E n : Quietly(n)
  <2> DEFINE n == [r EXCEPT !.pc = "wait401"]
  <2>1. SetTask(t, n) /\ st' = st
    BY <1>8 DEF Call401
  <2>2. TaskOwned(n)
    BY <1>0, <1>8 DEF Call401, TaskOwned, Task, Carrying
  <2> HIDE DEF n
  <2> QED
    BY <1>0, <2>1, <2>2
<1>9. ASSUME Refresh401(t) PROVE \E n : Quietly(n)
  <2> DEFINE k == st.db.tok
             p == IF k # r.tok THEN "retry" ELSE "refresh"
             n == [r EXCEPT !.tok = k, !.pc = p]
  <2>1. \/ k # NoToken /\ SetTask(t, n) /\ st' = st
        \/ SyncError(t)
    BY <1>9 DEF Refresh401, Refresh401Decide
  <2>2. k # NoToken => k.own # None
    BY EnvelopeFacts
  <2> HIDE DEF k, p
  <2>3. k # NoToken => TaskOwned(n)
    BY <1>0, <2>2 DEF TaskOwned, Task
  <2> HIDE DEF n
  <2> QED
    BY <1>0, <1>2, <2>1, <2>3
<1>10. ASSUME CallFailed(t) \/ RefreshFailed(t) \/ RetryFailed(t)
       PROVE  \E n : Quietly(n)
  BY <1>2, <1>10 DEF CallFailed, RefreshFailed, RetryFailed
<1>11. ASSUME BackgroundSync(t) PROVE \E n : Quietly(n)
  BY <1>0, <1>5, <1>11, RecordsOwned DEF BackgroundSync, EndTask
<1>12. ASSUME SyncRequest(t) PROVE \E n : Quietly(n)
  BY <1>5, <1>12 DEF SyncRequest
<1>13. PICK n : Quietly(n)
  BY <1>3, <1>4, <1>6, <1>7, <1>8, <1>9, <1>10, <1>11, <1>12 DEF Proceed
<1> QED
  BY <1>1, <1>13, SetOwned, SameVaultStep DEF disk

\* The handlers that never wait: a logout takes the envelope with the vault,
\* a load finds a vault where there is an envelope.
LEMMA InstantEnvelope ==
    ASSUME EnvelopeInv, SoleAccount, Instant
    PROVE  EnvelopeParts(st', config'.email, dbFile', envelope', tasks')
<1>0. st \in State /\ \A u \in Tasks : TaskOwned(tasks[u])
  BY EnvelopeFacts
<1>1. CASE HandleLock
  <2>1. st' = Lock(st) /\ UNCHANGED <<config, dbFile, envelope, tasks>>
    BY <1>1 DEF HandleLock, disk
  <2>2. /\ st'.keys = None /\ st'.db.tok = NoToken
        /\ st'.db.present = st.db.present /\ st'.db.vault = st.db.vault
    BY <1>0, <2>1, LockFields
  <2> QED
    BY <2>1, <2>2 DEF EnvelopeInv, EnvelopeParts, TokensOwned, VaultBehind, Sealed
<1>2. CASE HandleLogout
  <2> DEFINE a == config.email
             n == IF a = None THEN envelope ELSE [envelope EXCEPT ![a] = NoEnvelope]
             f == IF a = None THEN dbFile ELSE [dbFile EXCEPT ![a] = EmptyFile]
  <2>1. /\ st' = ClearAccount(st) /\ UNCHANGED <<config, tasks>>
        /\ envelope' \in Written("envelope", n, envelope)
        /\ dbFile' \in Written("vault", f, dbFile)
    BY <1>2 DEF HandleLogout
  <2>2. envelope' = n
    BY <2>1 DEF SoleAccount, Written
  <2>3. st'.keys = None /\ st'.db.tok = NoToken /\ ~st'.db.present
    BY <1>0, <2>1, LockFields, Constants
  <2>4. CASE a = None
    <3>1. envelope' = envelope /\ dbFile' = dbFile
      BY <2>1, <2>2, <2>4 DEF Written
    <3> QED
      BY <2>1, <2>3, <3>1 DEF EnvelopeInv, EnvelopeParts, TokensOwned, VaultBehind, Sealed
  <2>5. CASE a # None
    <3>1. \A b \in Accounts : envelope'[b] = NoEnvelope
      BY <2>2, <2>5, EnvelopeFacts
    <3> QED
      BY <1>0, <2>1, <2>3, <3>1 DEF EnvelopeParts, TokensOwned, VaultBehind, Sealed
  <2> QED
    BY <2>4, <2>5
<1>3. CASE HandleGetConfig
  <2> DEFINE a == config.email
             d == LoadDb(dbFile[a])
  <2>1. /\ a # None /\ ~st.db.present /\ st' = [st EXCEPT !.db = d]
        /\ UNCHANGED <<config, dbFile, envelope, tasks>>
    BY <1>3 DEF HandleGetConfig, disk
  <2>2. d.tok = NoToken /\ d.vault = dbFile[a].vault
    BY DEF LoadDb
  <2> HIDE DEF d
  <2>3. st'.keys = st.keys /\ st'.db = d
    BY <1>0, <2>1 DEF State
  <2>4. st.keys = None /\ a \in Accounts /\ \A b \in Accounts : b = a
    BY <2>1, EnvelopeFacts
  <2> HIDE DEF a
  <2> QED
    BY <2>1, <2>2, <2>3, <2>4
    DEF EnvelopeInv, EnvelopeParts, TokensOwned, VaultBehind, Sealed
<1>4. CASE SetupTpmPin \/ SetupTpmPinFromUnlocked \/ DisableTpmPin \/ CheckTpm
  <2>1. UNCHANGED <<dbFile, envelope, tasks>> /\ config'.email = config.email
    <3>1. \A b : [config EXCEPT !.tpm = b].email = config.email
      BY DEF EnvelopeInv, Inv, TypeOK, Config
    <3> QED
      BY <1>4, <3>1
      DEF SetupTpmPin, SetupTpmPinFromUnlocked, DisableTpmPin, CheckTpm, SealPin,
          Written, disk
  <2>2. SameVault(st, st')
    <3>1. \A b : SameVault(st, [st EXCEPT !.tpmConfigured = b]) /\ SameVault(st, st)
      BY <1>0 DEF State, SameVault
    <3>2. \/ st' = st \/ \E b : st' = [st EXCEPT !.tpmConfigured = b]
      BY <1>4 DEF SetupTpmPin, SetupTpmPinFromUnlocked, DisableTpmPin, CheckTpm, SealPin
    <3> QED
      BY <3>1, <3>2
  <2> QED
    BY <1>0, <2>1, <2>2, SameVaultStep
<1>5. CASE Restart
  <2>1. /\ UNCHANGED <<config, dbFile, envelope>>
        /\ tasks' = [t \in Tasks |-> IdleTask]
        /\ st'.keys = None /\ st'.db = NoDb
    BY <1>5 DEF Restart, disk, NewState
  <2>2. st'.db.tok = NoToken /\ ~st'.db.present
    BY <2>1, Constants
  <2>3. \A u \in Tasks : TaskOwned(tasks'[u])
    BY <2>1, RecordsOwned
  <2> QED
    BY <2>1, <2>2, <2>3 DEF EnvelopeInv, EnvelopeParts, TokensOwned, VaultBehind, Sealed
<1> QED
  BY <1>1, <1>2, <1>3, <1>4, <1>5 DEF Instant

\* Every step of a sole account's agent keeps EnvelopeInv.
LEMMA NextEnvelope ==
    ASSUME EnvelopeInv, SoleAccount, [Next]_vars
    PROVE  EnvelopeInv'
<1>0. Inv'
  BY EnvelopeFacts, NextInv
<1>1. CASE Instant
  BY <1>0, <1>1, InstantEnvelope, EnvelopeInvParts
<1>2. CASE \E t \in Tasks : Request(t) \/ Answer(t) \/ Proceed(t)
  <2> PICK t \in Tasks : Request(t) \/ Answer(t) \/ Proceed(t)
    BY <1>2
  <2>1. CASE Request(t)
    BY <1>0, <2>1, UnlockEnvelope, WaitingEnvelope, EnvelopeInvParts DEF Request
  <2>2. CASE Answer(t)
    BY <1>0, <2>2, LoginEnvelope, TokenEnvelope, SyncEnvelope, WaitingEnvelope,
       EnvelopeInvParts DEF Answer
  <2>3. CASE Proceed(t)
    BY <1>0, <2>3, WaitingEnvelope, EnvelopeInvParts
  <2> QED
    BY <2>1, <2>2, <2>3
<1>3. CASE UNCHANGED vars
  BY <1>0, <1>3, EnvelopeInvParts DEF vars, disk
<1> QED
  BY <1>1, <1>2, <1>3 DEF Next

\* It holds to begin with: there is no token, no envelope and no vault.
LEMMA InitEnvelope == Init => EnvelopeInv
<1> SUFFICES ASSUME Init PROVE EnvelopeInv
  OBVIOUS
<1>1. st.keys = None /\ st.db = NoDb
  BY DEF Init, NewState
<1>2. \A a \in Accounts : envelope[a] = NoEnvelope
  BY DEF Init
<1>3. \A t \in Tasks : TaskOwned(tasks[t])
  BY DEF Init, IdleTask, TaskOwned, Carrying
<1> QED
  BY <1>1, <1>2, <1>3, InitInv, Constants
  DEF EnvelopeInv, TokensOwned, VaultBehind, Sealed

\* A logout that leaves an empty vault file leaves no refresh token on disk,
\* whatever was in flight around it: a late answer finds no keys to seal with.
THEOREM LogoutSweeps == SoleAccount => (Spec => []LogoutLeavesNoEnvelope)
<1> SUFFICES ASSUME SoleAccount PROVE Spec => []LogoutLeavesNoEnvelope
  OBVIOUS
<1>1. EnvelopeInv => LogoutLeavesNoEnvelope
  BY DEF EnvelopeInv, VaultBehind, LogoutLeavesNoEnvelope, EmptyFile
<1>2. Spec => []EnvelopeInv
  BY InitEnvelope, NextEnvelope, PTL DEF Spec
<1> QED
  BY <1>1, <1>2, PTL

\* Without PIN unlock, the envelope holds the live token at every moment the
\* vault is unlocked, so that a crash at any moment loses no session.
THEOREM EnvelopeIsLive == SoleAccount /\ ~Tpm => (Spec => []EnvelopeTracksSession)
<1> SUFFICES ASSUME SoleAccount, ~Tpm PROVE Spec => []EnvelopeTracksSession
  OBVIOUS
<1>1. EnvelopeInv => EnvelopeTracksSession
  BY DEF EnvelopeInv, Sealed, EnvelopeTracksSession
<1>2. Spec => []EnvelopeInv
  BY InitEnvelope, NextEnvelope, PTL DEF Spec
<1> QED
  BY <1>1, <1>2, PTL
=============================================================================
