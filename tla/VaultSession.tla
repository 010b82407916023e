---------------------------- MODULE VaultSession ----------------------------
(***************************************************************************)
(* The agent process: its in-memory state, the files it keeps per account, *)
(* and the handlers that move a vault between logged out, locked and       *)
(* unlocked, with or without a server session.                             *)
(*                                                                         *)
(* Both agent binaries run tokio's current_thread flavor, so handlers      *)
(* interleave only where one really waits: on the server, and on           *)
(* `refresh_lock`.  Everything between two waits is one action.  A task is *)
(* a handler that is waiting; handlers that never wait are actions of      *)
(* their own.  A handler that refuses its request changes nothing and is   *)
(* not an action.                                                          *)
(***************************************************************************)
EXTENDS AgentState, Sequences, FiniteSets

CONSTANTS
    Tasks,      \* connections that can have a request in flight
    Tpm,        \* is the agent built with the `tpm` feature
    Faults      \* the local failures that can happen

ASSUME TpmAssumption == Tpm \in BOOLEAN
\* "config", "envelope", "vault": a write of that file fails.  "unlock":
\* vault::unlock fails at the end of a login.
ASSUME FaultsAssumption == Faults \subseteq {"config", "envelope", "vault", "unlock"}
\* There is always an identity for a fresh token pair.
ASSUME FreshAssumption ==
    /\ IsFiniteSet(TokIds) /\ IsFiniteSet(Tasks) /\ IsFiniteSet(Accounts)
    /\ Cardinality(TokIds) > Cardinality(Tasks) + Cardinality(Accounts) + 1

VARIABLES
    st,         \* the State record
    config,     \* the config file: the account's email, tpm_enabled
    dbFile,     \* the vault file of each account
    envelope,   \* the session file of each account
    blob,       \* the TPM-sealed keys of each account: whose keys are in it
    tasks,      \* the requests in flight
    queue       \* refresh_lock: its holder, then the waiters (FIFO)

disk == <<config, dbFile, envelope, blob>>
vars == <<st, disk, tasks, queue>>

Config == [email : Owner, tpm : BOOLEAN]
Envelope == [keys : Owner, tok : Token]
NoEnvelope == [keys |-> None, tok |-> NoToken]

Phases == {"idle",
           "login",        \* prelogin, login and the initial sync
           "exchange",     \* restore_session: the stored refresh token
           "grant",        \* restore_session: the password grant
           "spawned",      \* the background sync an unlock leaves behind
           "waitRestore",  \* with_refresh has no token, wants refresh_lock
           "call",         \* the request itself
           "wait401",      \* the request was refused, wants refresh_lock
           "refresh",      \* with_refresh: exchange of the refresh token
           "retry"}        \* the request again, refresh_lock still held

\* What a waiting handler remembers: the email in the config it loaded, the
\* keys it was given, the token it sent, whether it has a password hash, who
\* called restore_session, the lock state a sync saw at entry, the
\* tpm_enabled flag a login loaded.
Task == [pc : Phases, acct : Owner, keys : Owner, tok : Token,
         hash : BOOLEAN, by : {"none", "unlock", "request"},
         lockedAtEntry : BOOLEAN, tpm : BOOLEAN]
IdleTask == [pc |-> "idle", acct |-> None, keys |-> None, tok |-> NoToken,
             hash |-> FALSE, by |-> "none", lockedAtEntry |-> FALSE,
             tpm |-> FALSE]

\* One type invariant for the whole agent.
TypeOK ==
    /\ st \in State
    /\ config \in Config
    /\ dbFile \in [Accounts -> DbFile]
    /\ envelope \in [Accounts -> Envelope]
    /\ blob \in [Accounts -> Owner]
    /\ tasks \in [Tasks -> Task]
    /\ \A t \in Tasks : tasks[t].pc \notin {"idle", "spawned"} =>
                            tasks[t].acct # None
    /\ queue \in Seq(Tasks)
-----------------------------------------------------------------------------
(* Helpers *)

\* Token identities in use anywhere; a new pair gets one that is not.
LiveIds == {st.db.tok.id} \cup {envelope[a].tok.id : a \in Accounts}
                          \cup {tasks[t].tok.id : t \in Tasks}
FreshToken(a) == [own |-> a, id |-> CHOOSE n \in TokIds : n \notin LiveIds]

\* What a file may hold after a write whose failure is only logged.
Written(kind, new, old) == {new} \cup (IF kind \in Faults THEN {old} ELSE {})

\* session_envelope::seal and open: an AEAD under the vault keys.  The account
\* in its AAD is that of the file's name, so only the keys can be wrong.
Seal(k, tok) == [keys |-> k, tok |-> tok]
Unseal(k, e) == e.keys # None /\ e.keys = k

\* session_store::persist_current on state s: nothing while locked, else the
\* token the state holds now, under the keys it holds now, in the file of the
\* caller's account.
PersistNothing(s, a) == envelope
PersistCurrent(s, a) ==
    IF s.keys = None \/ s.db.tok = NoToken THEN envelope
    ELSE [envelope EXCEPT ![a] = Seal(s.keys, s.db.tok)]

\* session_store::load: the stored refresh token, if these keys open it.
Opens(k, a) == Unseal(k, envelope[a])

SetTask(t, rec) == tasks' = [tasks EXCEPT ![t] = rec]
EndTask(t) == SetTask(t, IdleTask)
Release == queue' = Tail(queue)
HoldsLock(t) == queue # <<>> /\ Head(queue) = t

\* The first source restore_session tries for a task record r, and what it
\* falls back to; "idle" when there is no source left.
NextSource(r) == IF r.hash THEN [r EXCEPT !.pc = "grant", !.tok = NoToken]
                 ELSE IdleTask
RestoreSession(r) ==
    IF Opens(r.keys, r.acct)
    THEN [r EXCEPT !.pc = "exchange", !.tok = envelope[r.acct].tok]
    ELSE NextSource(r)

SpawnedTask == [IdleTask EXCEPT !.pc = "spawned"]
CallTask(a, tok, locked) ==
    [IdleTask EXCEPT !.pc = "call", !.acct = a, !.tok = tok,
                     !.lockedAtEntry = locked]
-----------------------------------------------------------------------------
Init ==
    /\ st = NewState(FALSE)
    /\ config = [email |-> None, tpm |-> FALSE]
    /\ dbFile = [a \in Accounts |-> EmptyFile]
    /\ envelope = [a \in Accounts |-> NoEnvelope]
    /\ blob = [a \in Accounts |-> None]
    /\ tasks = [t \in Tasks |-> IdleTask]
    /\ queue = <<>>
-----------------------------------------------------------------------------
(* Login, unlock, PIN unlock *)

\* handle_login loads the config, then waits for prelogin, login and sync;
\* until all three have answered nothing is written.  A mutant saves the new
\* email first.
LoginStartSavesConfig(t, a) ==
    /\ tasks[t].pc = "idle"
    /\ SetTask(t, [IdleTask EXCEPT !.pc = "login", !.acct = a, !.tpm = config.tpm])
    /\ config' = [config EXCEPT !.email = a]
    /\ UNCHANGED <<st, dbFile, envelope, blob, queue>>

LoginStart(t, a) ==
    /\ tasks[t].pc = "idle"
    /\ SetTask(t, [IdleTask EXCEPT !.pc = "login", !.acct = a, !.tpm = config.tpm])
    /\ UNCHANGED <<st, disk, queue>>

\* The vault, the config as loaded at the start, the envelope and the state.
LoginDone(t) ==
    LET a == tasks[t].acct
        tok == FreshToken(a)
    IN  /\ tasks[t].pc = "login"
        /\ dbFile' = [dbFile EXCEPT ![a] = [kdf |-> TRUE, vault |-> a]]
        /\ config' = [email |-> a, tpm |-> tasks[t].tpm]
        /\ envelope' \in Written("envelope",
                         [envelope EXCEPT ![a] = Seal(a, tok)], envelope)
        /\ st' = CommitLogin(st, a, tok)
        /\ EndTask(t)
        /\ UNCHANGED <<blob, queue>>

\* A login that returns an error half way: the vault is saved and the config
\* is not, or both are and the vault does not open.
LoginPartial(t) ==
    LET a == tasks[t].acct
    IN  /\ tasks[t].pc = "login"
        /\ dbFile' = [dbFile EXCEPT ![a] = [kdf |-> TRUE, vault |-> a]]
        /\ \/ "config" \in Faults /\ UNCHANGED config
           \/ "unlock" \in Faults /\ config' = [email |-> a, tpm |-> tasks[t].tpm]
        /\ EndTask(t)
        /\ UNCHANGED <<st, envelope, blob, queue>>

LoginFailed(t) ==
    /\ tasks[t].pc = "login"
    /\ EndTask(t)
    /\ UNCHANGED <<st, disk, queue>>

\* What an unlock path does once its state commit s is made: with a token it
\* leaves a background sync, without one it restores the session, and a
\* restore with no source at all is recorded at once.
AfterUnlock(t, s, a, hash) ==
    LET r == RestoreSession([IdleTask EXCEPT !.acct = a, !.keys = s.keys,
                                             !.hash = hash, !.by = "unlock"])
        next == IF s.db.tok # NoToken THEN SpawnedTask ELSE r
    IN  /\ st' = IF next.pc = "idle" THEN MarkSyncFailed(s) ELSE s
        /\ SetTask(t, next)

\* handle_unlock with the right master password.  Only the account's own
\* protected key opens under a password salted with its email.
Unlock(t) ==
    LET a == config.email
        s == CommitUnlock(st, a, dbFile[a])
    IN  /\ tasks[t].pc = "idle"
        /\ a # None
        /\ HasAccount(dbFile[a]) /\ dbFile[a].vault = a
        /\ AfterUnlock(t, s, a, TRUE)
        /\ envelope' \in Written("envelope", PersistCurrent(s, a), envelope)
        /\ UNCHANGED <<config, dbFile, blob, queue>>

\* handle_unlock_with_pin with the right PIN; the sealed keys must open the
\* vault's private key.
UnlockWithPin(t) ==
    LET a == config.email
        s == CommitUnlock(st, blob[a], dbFile[a])
    IN  /\ Tpm
        /\ tasks[t].pc = "idle"
        /\ config.tpm
        /\ a # None
        /\ HasAccount(dbFile[a])
        /\ blob[a] # None /\ blob[a] = dbFile[a].vault
        /\ AfterUnlock(t, s, a, FALSE)
        /\ UNCHANGED <<disk, queue>>
-----------------------------------------------------------------------------
(* restore_session, from an unlock or from a request *)

\* The end of a sync with a server error, holding refresh_lock or not.
SyncError(t) ==
    /\ st' = RecordSyncError(st, tasks[t].lockedAtEntry)
    /\ EndTask(t)

\* try_stored_refresh_token: adopt the new pair and roll the envelope forward.
\* A request then goes on with the token the state now holds, if it does.
ExchangeOk(t) ==
    LET r == tasks[t]
        s == StoreTokens(st, FreshToken(r.tok.own))
    IN  /\ r.pc = "exchange"
        /\ envelope' \in Written("envelope", PersistCurrent(s, r.acct), envelope)
        /\ UNCHANGED <<config, dbFile, blob>>
        /\ \/ /\ r.by = "unlock"
              /\ st' = s
              /\ SetTask(t, SpawnedTask)
              /\ UNCHANGED queue
           \/ /\ r.by = "request" /\ s.db.tok # NoToken
              /\ st' = s
              /\ SetTask(t, CallTask(r.acct, s.db.tok, r.lockedAtEntry))
              /\ Release
           \/ /\ r.by = "request" /\ s.db.tok = NoToken
              /\ SyncError(t)
              /\ Release

ExchangeFailed(t) ==
    LET r == tasks[t]
        next == NextSource(r)
    IN  /\ r.pc = "exchange"
        /\ UNCHANGED disk
        /\ \/ /\ r.by = "unlock"
              /\ st' = IF next.pc = "idle" THEN MarkSyncFailed(st) ELSE st
              /\ SetTask(t, next)
              /\ UNCHANGED queue
           \/ /\ r.by = "request"
              /\ SyncError(t)
              /\ Release

\* try_password_grant, only ever after a master-password unlock.
GrantOk(t) ==
    LET r == tasks[t]
        s == StoreTokens(st, FreshToken(r.acct))
    IN  /\ r.pc = "grant"
        /\ st' = s
        /\ envelope' \in Written("envelope", PersistCurrent(s, r.acct), envelope)
        /\ SetTask(t, SpawnedTask)
        /\ UNCHANGED <<config, dbFile, blob, queue>>

GrantFailed(t) ==
    /\ tasks[t].pc = "grant"
    /\ st' = MarkSyncFailed(st)
    /\ EndTask(t)
    /\ UNCHANGED <<disk, queue>>
-----------------------------------------------------------------------------
(* handle_sync and with_refresh *)

\* From the entry of handle_sync to its first wait: a database is needed,
\* then a token or the keys to restore one.
SyncEntry(t) ==
    LET locked == st.keys = None
        call == CallTask(config.email, st.db.tok, locked)
    IN  \/ /\ st.db.present /\ st.db.tok # NoToken
           /\ SetTask(t, call)
           /\ UNCHANGED <<st, queue>>
        \/ /\ st.db.present /\ st.db.tok = NoToken /\ ~locked
           /\ SetTask(t, [call EXCEPT !.pc = "waitRestore", !.keys = st.keys,
                                      !.by = "request"])
           /\ queue' = Append(queue, t)
           /\ UNCHANGED st
        \/ /\ ~st.db.present \/ (st.db.tok = NoToken /\ locked)
           /\ st' = RecordSyncError(st, locked)
           /\ EndTask(t)
           /\ UNCHANGED queue

SyncRequest(t) ==
    /\ tasks[t].pc = "idle"
    /\ SyncEntry(t)
    /\ UNCHANGED disk

\* The task spawned by an unlock: gives up silently if the token is gone.
BackgroundSync(t) ==
    /\ tasks[t].pc = "spawned"
    /\ \/ st.db.tok # NoToken /\ SyncEntry(t)
       \/ st.db.tok = NoToken /\ EndTask(t) /\ UNCHANGED <<st, queue>>
    /\ UNCHANGED disk

\* refresh_lock acquired with no token at entry: someone else may have
\* restored one meanwhile, else the envelope is the only source.
RestoreUnderLock(t) ==
    LET r == tasks[t]
        next == RestoreSession(r)
    IN  /\ r.pc = "waitRestore"
        /\ HoldsLock(t)
        /\ UNCHANGED disk
        /\ \/ /\ st.db.tok # NoToken
              /\ SetTask(t, CallTask(r.acct, st.db.tok, r.lockedAtEntry))
              /\ Release
              /\ UNCHANGED st
           \/ /\ st.db.tok = NoToken /\ next.pc # "idle"
              /\ SetTask(t, next)
              /\ UNCHANGED <<st, queue>>
           \/ /\ st.db.tok = NoToken /\ next.pc = "idle"
              /\ SyncError(t)
              /\ Release

\* The success arm of handle_sync; the file is the one the config names now.
FinishSync(t) ==
    /\ st' = ApplySync(st, tasks[t].tok.own)
    /\ dbFile' \in Written("vault",
                       IF st.db.present
                       THEN [dbFile EXCEPT ![config.email] = SavedDb(st'.db)]
                       ELSE dbFile, dbFile)
    /\ EndTask(t)
    /\ UNCHANGED <<config, envelope, blob>>

CallOk(t) ==
    /\ tasks[t].pc = "call"
    /\ FinishSync(t)
    /\ UNCHANGED queue

CallFailed(t) ==
    /\ tasks[t].pc = "call"
    /\ SyncError(t)
    /\ UNCHANGED <<disk, queue>>

\* HTTP 401: the token pair that was sent has expired.
Call401(t) ==
    /\ tasks[t].pc = "call"
    /\ SetTask(t, [tasks[t] EXCEPT !.pc = "wait401"])
    /\ queue' = Append(queue, t)
    /\ UNCHANGED <<st, disk>>

\* refresh_lock acquired after a 401.  A mutant goes ahead without the lock.
Refresh401Decide(t) ==
    LET r == tasks[t]
        current == st.db.tok
    IN  /\ r.pc = "wait401"
        /\ UNCHANGED disk
        /\ \/ /\ current # NoToken
              /\ SetTask(t, [r EXCEPT !.tok = current,
                                      !.pc = IF current # r.tok THEN "retry"
                                             ELSE "refresh"])
              /\ UNCHANGED <<st, queue>>
           \/ /\ current = NoToken
              /\ SyncError(t)
              /\ Release

Refresh401Unlocked(t) == queue # <<>> /\ Refresh401Decide(t)
Refresh401(t) == HoldsLock(t) /\ Refresh401Decide(t)

\* The exchange answered: store the pair, save the database in memory under
\* the email loaded at entry, roll the envelope forward, retry.
RefreshOk(t) ==
    LET r == tasks[t]
        tok == FreshToken(r.tok.own)
        s == StoreTokens(st, tok)
    IN  /\ r.pc = "refresh"
        /\ st' = s
        /\ dbFile' \in Written("vault",
                           IF s.db.present
                           THEN [dbFile EXCEPT ![r.acct] = SavedDb(s.db)]
                           ELSE dbFile, dbFile)
        /\ envelope' \in Written("envelope", PersistCurrent(s, r.acct), envelope)
        /\ SetTask(t, [r EXCEPT !.pc = "retry", !.tok = tok])
        /\ UNCHANGED <<config, blob, queue>>

\* The exchange failed; a mutant returns with refresh_lock still held.
RefreshFailedLeaks(t) ==
    /\ tasks[t].pc = "refresh"
    /\ SyncError(t)
    /\ UNCHANGED <<disk, queue>>

RefreshFailed(t) ==
    /\ tasks[t].pc = "refresh"
    /\ SyncError(t)
    /\ Release
    /\ UNCHANGED disk

RetryOk(t) ==
    /\ tasks[t].pc = "retry"
    /\ FinishSync(t)
    /\ Release

RetryFailed(t) ==
    /\ tasks[t].pc = "retry"
    /\ SyncError(t)
    /\ Release
    /\ UNCHANGED disk
-----------------------------------------------------------------------------
(* Handlers that never wait *)

\* handle_lock, the inactivity timer, logind's Lock and PrepareForSleep.
HandleLock ==
    /\ st' = Lock(st)
    /\ UNCHANGED <<disk, tasks, queue>>

\* handle_logout: the envelope, the vault file, then the state.  A mutant
\* forgets the envelope.
HandleLogoutKeepsEnvelope ==
    LET a == config.email
    IN  /\ st' = ClearAccount(st)
        /\ dbFile' = IF a = None THEN dbFile ELSE [dbFile EXCEPT ![a] = EmptyFile]
        /\ UNCHANGED <<config, envelope, blob, tasks, queue>>

HandleLogout ==
    LET a == config.email
    IN  /\ st' = ClearAccount(st)
        /\ dbFile' \in Written("vault",
                           IF a = None THEN dbFile
                           ELSE [dbFile EXCEPT ![a] = EmptyFile], dbFile)
        /\ envelope' \in Written("envelope",
                           IF a = None THEN envelope
                           ELSE [envelope EXCEPT ![a] = NoEnvelope], envelope)
        /\ UNCHANGED <<config, blob, tasks, queue>>

\* handle_get_config loads the vault file if the state holds no database.
HandleGetConfig ==
    /\ ~st.db.present
    /\ config.email # None
    /\ st' = [st EXCEPT !.db = LoadDb(dbFile[config.email])]
    /\ UNCHANGED <<disk, tasks, queue>>

\* handle_setup_tpm_pin (master password) and ..._from_unlocked (keys in
\* memory): seal, set tpm_enabled, set tpm_configured.
SealPin(k) ==
    /\ blob' = [blob EXCEPT ![config.email] = k]
    /\ config' \in Written("config", [config EXCEPT !.tpm = TRUE], config)
    /\ st' = [st EXCEPT !.tpmConfigured = TRUE]
    /\ UNCHANGED <<dbFile, envelope, tasks, queue>>

SetupTpmPin ==
    LET a == config.email
    IN  /\ Tpm
        /\ a # None
        /\ HasAccount(dbFile[a]) /\ dbFile[a].vault = a
        /\ SealPin(a)

SetupTpmPinFromUnlocked ==
    /\ Tpm
    /\ st.keys # None
    /\ config.email # None
    /\ SealPin(st.keys)

\* The blob goes first; a config that cannot be saved ends the handler there.
DisableTpmPin ==
    /\ Tpm
    /\ config.email # None
    /\ st.keys # None
    /\ blob' = [blob EXCEPT ![config.email] = None]
    /\ \/ /\ config' = [config EXCEPT !.tpm = FALSE]
          /\ st' = [st EXCEPT !.tpmConfigured = FALSE]
       \/ "config" \in Faults /\ UNCHANGED <<config, st>>
    /\ UNCHANGED <<dbFile, envelope, tasks, queue>>

\* handle_check_tpm refreshes the flag from the blob's existence.
CheckTpm ==
    /\ Tpm
    /\ config.email # None
    /\ st' = [st EXCEPT !.tpmConfigured = blob[config.email] # None]
    /\ UNCHANGED <<disk, tasks, queue>>

\* The agent stops (Quit, a crash, a reboot) and starts again: the files stay,
\* memory and every request in flight are gone.
Restart ==
    /\ st' = NewState(/\ Tpm /\ config.tpm /\ config.email # None
                      /\ blob[config.email] # None)
    /\ tasks' = [t \in Tasks |-> IdleTask]
    /\ queue' = <<>>
    /\ UNCHANGED disk
-----------------------------------------------------------------------------
Request(t) ==
    \/ \E a \in Accounts : LoginStart(t, a)
    \/ Unlock(t)
    \/ UnlockWithPin(t)
    \/ SyncRequest(t)

\* The server's answers, and the steps a task takes by itself.
Answer(t) ==
    \/ LoginDone(t) \/ LoginPartial(t) \/ LoginFailed(t)
    \/ ExchangeOk(t) \/ ExchangeFailed(t)
    \/ GrantOk(t) \/ GrantFailed(t)
    \/ CallOk(t) \/ CallFailed(t) \/ Call401(t)
    \/ RefreshOk(t) \/ RefreshFailed(t)
    \/ RetryOk(t) \/ RetryFailed(t)

Proceed(t) == BackgroundSync(t) \/ RestoreUnderLock(t) \/ Refresh401(t)

Instant ==
    \/ HandleLock \/ HandleLogout \/ HandleGetConfig
    \/ SetupTpmPin \/ SetupTpmPinFromUnlocked \/ DisableTpmPin \/ CheckTpm
    \/ Restart

Next == Instant \/ \E t \in Tasks : Request(t) \/ Answer(t) \/ Proceed(t)

Spec == Init /\ [][Next]_vars

\* tokio polls every ready task, and each server call ends, with an answer or
\* with the connection's error.
Fairness == \A t \in Tasks : WF_vars(Answer(t)) /\ WF_vars(Proceed(t))
FairSpec == Spec /\ Fairness
-----------------------------------------------------------------------------
(* Properties *)

\* The session watch the SSH signers wait on says Unlocked exactly while the
\* vault keys are in memory: every handler that sets or drops State::keys
\* also moves session_tx, whatever was in flight around it.
SessionMatchesKeys == (st.session = "Unlocked") <=> (st.keys # None)

\* A locked agent holds no organisation keys and no decrypted sidebar entry,
\* even when the answer of a sync that began unlocked arrives after lock().
LockedHoldsNoPlaintext ==
    st.keys = None => st.orgKeys = None /\ st.sidebar = None

\* The keys in memory are those of the account the config file names, and the
\* vault database is loaded: the handlers that write files by
\* config.email (sync, PIN set-up) write them for the unlocked account.
KeysBelongToConfig ==
    st.keys # None => st.keys = config.email /\ st.db.present

\* A sealed PIN blob opens its own account's vault: no order of logins, PIN
\* set-ups and unlocks seals one account's keys in another account's file.
BlobSealsOwnKeys == \A a \in Accounts : blob[a] \in {a, None}

\* The ssh-agent lists keys of the configured account only, and none after a
\* logout, although the cache survives lock() and late sync answers.
SshIdentitiesOfAccount ==
    st.sshIds # None => st.sshIds = config.email /\ st.session # "LoggedOut"

\* Tasks that hold or wait for refresh_lock.
LockPhases == {"waitRestore", "wait401", "refresh", "retry"}
AtLock(t) == \/ tasks[t].pc \in LockPhases
             \/ tasks[t].pc = "exchange" /\ tasks[t].by = "request"
Spending(t) == \/ tasks[t].pc \in {"refresh", "retry"}
               \/ tasks[t].pc = "exchange" /\ tasks[t].by = "request"

\* with_refresh runs its token exchanges one at a time: a task that is
\* exchanging a refresh token (or retrying with the result) is the holder of
\* refresh_lock.
RefreshSerialized == \A t \in Tasks : Spending(t) => HoldsLock(t)

\* lock_epoch orders Config snapshots: a step that changes the lock state or
\* the account in memory changes the epoch too, so two snapshots with one
\* epoch never disagree on is_locked.  (A restart changes session_id.)
EpochTracksTransitions ==
    [][(st'.keys # st.keys \/ st'.session # st.session)
        => st'.epoch # st.epoch \/ Restart]_vars

\* While unlocked with a live token, the account's envelope holds that very
\* token under those very keys ("so the stored envelope tracks the live
\* session", session_store.rs): a restart at any moment loses no session.
EnvelopeTracksSession ==
    st.keys # None /\ st.db.tok # NoToken =>
        envelope[config.email] = Seal(st.keys, st.db.tok)

\* An account whose vault file logout has emptied has no session envelope
\* left on disk ("so logout cannot report a clean sweep while a usable
\* refresh token is still on disk", session_store.rs).
LogoutLeavesNoEnvelope ==
    \A a \in Accounts : dbFile[a] = EmptyFile => envelope[a] = NoEnvelope

\* Every request ends: no order of failures, locks and logouts leaves a
\* handler waiting for refresh_lock for ever.
RequestsFinish == \A t \in Tasks : tasks[t].pc # "idle" ~> tasks[t].pc = "idle"
=============================================================================
