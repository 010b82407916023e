----------------------------- MODULE AgentState -----------------------------
(***************************************************************************)
(* The agent's in-memory `State` (cosmarden-agent/src/state.rs) as a       *)
(* record, and its methods as operators from a record to the next record.  *)
(*                                                                         *)
(* Vault contents, keys and tokens are abstracted to the account they      *)
(* belong to: `keys = a` is "the vault keys of account a", `db.vault = a`  *)
(* is "the protected key and the entries of account a".  `None` stands     *)
(* for Rust's `None` and for an empty collection.                          *)
(***************************************************************************)
EXTENDS Integers

CONSTANTS
    Accounts,   \* the accounts a user of this machine logs in to
    None,       \* Rust's None, an empty cache
    TokIds,     \* identities of token pairs; 0 is "no token"
    EpochMod    \* lock_epoch is a wrapping counter: 2^64 in the code

ASSUME AccountsAssumption == None \notin Accounts
ASSUME TokIdsAssumption == TokIds \subseteq Nat \ {0}
ASSUME EpochAssumption == EpochMod \in Nat /\ EpochMod > 1

Owner == Accounts \cup {None}

\* An access/refresh token pair minted by the server for account `own`; a
\* refresh replaces both, so the pair has one identity.
Token == [own : Owner, id : TokIds \cup {0}]
NoToken == [own |-> None, id |-> 0]

\* cosmarden_core::db::Db.  `kdf` is "kdf and iterations are set"; tokens are
\* #[serde(skip)], so the file of an account holds a DbFile only.
DbFile == [kdf : BOOLEAN, vault : Owner]
EmptyFile == [kdf |-> FALSE, vault |-> None]
Db == [present : BOOLEAN, kdf : BOOLEAN, vault : Owner, tok : Token]
NoDb == [present |-> FALSE, kdf |-> FALSE, vault |-> None, tok |-> NoToken]

LoadDb(file) ==
    [present |-> TRUE, kdf |-> file.kdf, vault |-> file.vault, tok |-> NoToken]
SavedDb(db) == [kdf |-> db.kdf, vault |-> db.vault]
HasAccount(file) == file.kdf /\ file.vault # None

VaultSessions == {"Locked", "Unlocked", "LoggedOut"}

State == [keys : Owner,          \* keys and org_keys, set and cleared together
          orgKeys : Owner,
          db : Db,
          userId : Owner,        \* the account UUID sent with cipher writes
          sidebar : Owner,       \* sidebar_cache: plaintext names and hosts
          sshIds : Owner,        \* ssh_identity_cache
          session : VaultSessions,
          pending : BOOLEAN,     \* pending_entry_id is set
          notified : BOOLEAN,    \* unlock_requested_notified
          syncFailed : BOOLEAN,
          epoch : 0 .. EpochMod - 1,
          tpmConfigured : BOOLEAN]

\* State::new; tpm_configured is then set once by the start-up code.
NewState(tpm) ==
    [keys |-> None, orgKeys |-> None, db |-> NoDb, userId |-> None,
     sidebar |-> None, sshIds |-> None, session |-> "LoggedOut",
     pending |-> FALSE, notified |-> FALSE, syncFailed |-> FALSE,
     epoch |-> 0, tpmConfigured |-> tpm]

\* lock_epoch is bumped with wrapping_add.
BumpEpoch(s) == [s EXCEPT !.epoch = (@ + 1) % EpochMod]

\* The public keys the ssh-agent can list: those that decrypt.
SshIdentities(s) == IF s.db.vault = s.keys THEN s.keys ELSE None

\* A rebuild that forgets the keys check: a mutant of the next definition.
RebuildSidebarCacheUnkeyed(s) ==
    [s EXCEPT !.sidebar = s.db.vault,
              !.sshIds = s.db.vault,
              !.session = IF s.keys # None THEN "Unlocked" ELSE @]

\* The sidebar is rebuilt from the database only while the keys are there,
\* and only then are the SSH identities and the session watch refreshed.
RebuildSidebarCache(s) ==
    IF s.keys # None
    THEN [s EXCEPT !.sidebar = s.db.vault,
                   !.sshIds = SshIdentities(s),
                   !.session = "Unlocked"]
    ELSE [s EXCEPT !.sidebar = None]

\* lock() without its session_tx.send_replace, and without the epoch bump:
\* mutants of Lock.
LockKeepsSession(s) ==
    BumpEpoch([s EXCEPT !.keys = None, !.orgKeys = None, !.sidebar = None,
                        !.pending = FALSE, !.notified = FALSE,
                        !.db.tok = NoToken])
LockKeepsEpoch(s) ==
    [s EXCEPT !.keys = None, !.orgKeys = None, !.sidebar = None,
              !.pending = FALSE, !.notified = FALSE, !.session = "Locked",
              !.db.tok = NoToken]

\* lock(): runs whatever the state was, keeps ssh_identity_cache, user_id,
\* sync_failed and the encrypted database.
Lock(s) ==
    BumpEpoch([s EXCEPT !.keys = None, !.orgKeys = None, !.sidebar = None,
                        !.pending = FALSE, !.notified = FALSE,
                        !.session = "Locked", !.db.tok = NoToken])

ClearAccount(s) ==
    [Lock(s) EXCEPT !.sshIds = None, !.db = NoDb, !.userId = None,
                    !.syncFailed = FALSE, !.session = "LoggedOut"]

\* request_unlock(): prompts once, until the next lock(); what is broadcast is
\* PinRequested or UnlockRequested, by tpm_configured.
RequestUnlock(s) == [s EXCEPT !.notified = TRUE]
PromptEvent(s) == IF s.notified THEN "none"
                  ELSE IF s.tpmConfigured THEN "PinRequested"
                  ELSE "UnlockRequested"

\* The state commit shared by the unlock paths: the keys, the database just
\* loaded from disk carrying over the tokens of the one in memory.
CommitUnlock(s, k, file) ==
    RebuildSidebarCache(
        BumpEpoch([s EXCEPT !.keys = k, !.orgKeys = k,
                            !.db = [LoadDb(file) EXCEPT !.tok = s.db.tok]]))

\* The state commit of a login: everything comes from the server's answers.
CommitLogin(s, a, tok) ==
    RebuildSidebarCache(
        BumpEpoch([s EXCEPT !.keys = a, !.orgKeys = a, !.userId = a,
                            !.syncFailed = FALSE,
                            !.db = [present |-> TRUE, kdf |-> TRUE,
                                    vault |-> a, tok |-> tok]]))

\* adopt_tokens / the 401 path: the new pair goes into whatever database the
\* state holds now, if it holds one.
StoreTokens(s, tok) ==
    IF s.db.present THEN [s EXCEPT !.db.tok = tok] ELSE s

\* handle_sync's success arm: the answer belongs to the token's account.
ApplySync(s, a) ==
    RebuildSidebarCache(
        [s EXCEPT !.userId = a,
                  !.db.vault = IF s.db.present THEN a ELSE @,
                  !.syncFailed = FALSE])

MarkSyncFailed(s) == [s EXCEPT !.syncFailed = TRUE]

\* failed_sync_is_lock_race and the error arm of handle_sync: a vault locked
\* under a sync that began unlocked is not out of sync.
RecordSyncError(s, lockedAtEntry) ==
    IF s.keys = None /\ ~lockedAtEntry THEN s ELSE MarkSyncFailed(s)
=============================================================================
