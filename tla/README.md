# Cosmarden in TLA+

Cosmarden is a Bitwarden/Vaultwarden client: an agent process holds the vault,
and a COSMIC applet with a vault window, a Plasma tray, a CLI, a browser
extension and the system's SSH clients talk to it over sockets. This directory
models the agent, the vault window, the tray and the browser extension, checks the models
with TLC on small instances, and proves with TLAPS, for every instance, every safety
property that the passing runs check.

Paths below are relative to `src/crates/cosmarden-agent/src/` unless they start
with `core/` (`src/crates/cosmarden-core/src/`), `ui/`
(`src/crates/cosmarden-ui/src/`), `tray/` (`src/crates/cosmarden-plasma-tray/src/`)
or `ext/` (`src/browser-extension/`).

## Inventory

| Component | State it keeps | Operations | What makes it correct |
|---|---|---|---|
| Agent state (`state.rs`) | keys, org keys, database with tokens, user id, sidebar and SSH caches, session watch, prompt flag, `sync_failed`, `lock_epoch`, `tpm_configured` | `lock`, `clear_account`, `rebuild_sidebar_cache`, `request_unlock`, `bump_epoch` | no plaintext while locked; the session watch and the epoch follow every transition |
| Login / unlock / restore (`handler/auth/{login,unlock,reauth}.rs`) | locals kept across server calls | login, unlock, restore from the stored refresh token, password grant | the keys in memory belong to the configured account; a failure leaves a usable, honestly reported state |
| Token refresh (`server/auth.rs`) | `refresh_lock`, the token that was sent | run a request, refresh on 401, restore when there is no token, retry | one exchange at a time, the lock is always released, every request ends |
| Session envelope (`session_store.rs`, `core/session_envelope.rs`) | one sealed refresh token per account | persist, load, clear | tracks the live token; gone after a logout |
| Sync (`handler/vault/sync.rs`) | database, vault file, `sync_failed` | sync on request and after an unlock | a late answer does no harm |
| Config (`core/config.rs`, `handler/auth/config.rs`) | email, URLs, timeouts, `tpm_enabled` | load, save, GetConfig, Lock, Logout | names the account in memory |
| TPM PIN (`handler/auth/tpm_pin`, `tpm/`) | a sealed blob per account | set up, unlock, disable, status | a blob seals its own account's keys |
| SSH agent (`ssh_agent/`) | waiting sign requests, identity cache | sign, list identities | every request is answered, wake-ups are not lost |
| Prompts and subscribers (`state.rs`, `lib.rs`, `handler/subscription_handler.rs`) | subscribers, the prompt flag, a pending deep link | Subscribe, RequestUnlock, SetPendingEntry, Quit | one prompt per lock period |
| Inactivity timer (`timeout.rs`) | last activity, timeout | run, reset, set_duration | an idle vault locks in time |
| logind (`logind.rs`) | sleep inhibitor | session Lock, PrepareForSleep/Shutdown | locked before the machine sleeps |
| Cipher operations (`handler/vault`, `server/ops`, `core/api/models/vault.rs`) | entries of the database, pinned ids | add, update, delete, favourite, meta and full reads, on-demand secrets, merge of redacted secrets | an update carries the edit and loses nothing else; what is written can be read again |
| URL matching, TOTP (`handler/vault/query.rs`, `core/domain.rs`) | none | match, code | a URL matches the entries its rule says |
| Generator (`handler/generator`, `core/generator_settings.rs`) | settings, key and history files | generate, history, delete, settings | the history stays readable for its lifetime |
| Client and protocol (`core/agent_client.rs`, `core/protocol.rs`) | one connection per process | request, reconnect and retry | answers come in the order of the requests |
| Vault window and applet (`ui/app`) | view, forms, unlock mode, list, selection, detail, secrets, edit buffer, dialogs, generator pane | messages of the user, answers, events | it agrees with the agent once everything in flight has arrived |
| Browser extension (`ext/`) | native-port queue, one pending credential per tab, popup state, icons on a page | save prompt, popup, autofill, generate | answers reach their own request; a password goes to its own entry and site |
| Plasma tray (`tray/`) | `TrayState`, an event stream, clicked commands, the clipboard and its timers | probe, subscribe, wait for a signal, build the menu, run a command, clear a copy | the menu follows the agent; a copied secret does not stay, unless clearing it fails |
| CLI | none beyond its one request | one request per process | - |

**How they interact.** Every client connection is a task of one tokio runtime;
both agent binaries use the `current_thread` flavor. Tasks share one
`Arc<Mutex<State>>`, the files of the account, `refresh_lock` and the session
`watch` channel. The timer and the logind listener are further tasks that call
`State::lock`. Subscribers get events over unbounded channels. A UI process has
one request connection, used first come first served, and a second one for its
events; both feed the application's message queue. The extension has one native
port with a queue of requests whose answers carry no id.

**What is hard.** A handler reads the config and the state, waits for a server,
and writes the state and the files after the wait; meanwhile the vault may have
been locked, logged out of, or replaced by another account. Token exchanges
rotate the refresh token, so doing one twice loses the session. Writes of four
files are not atomic together, and the process may stop between any two
requests. Signers sleep on a channel that keeps only its latest value. The timer
sees activity only when a response is ready. Secrets leave the agent redacted
and come back in an edit, where the agent has to tell "unchanged" from "emptied".
A client's answers and events arrive after the user has moved on. The browser
kills the popup at any moment, and a page changes while its fields are filled.
`PROJECT.json` lists each such hazard at its line.

## Modules

| Module | Models |
|---|---|
| `AgentState` | `State` as a record, its methods as operators, and the state commits of the handlers |
| `VaultSession` | the handlers that log in, unlock, restore, sync, refresh, lock, log out and manage a PIN, over the state, the files and the requests in flight |
| `SshSign` | sign requests waiting for an unlock, prompts and subscribers, over the same `State` record |
| `Autolock` | the inactivity timer and the requests that reset it |
| `EntryCodec` | one entry on its way between server, agent and client: encryption, redaction, merge, request bodies |
| `VaultEdits` | reading, editing, adding, deleting and pinning entries, with syncs, locks and another device, over `EntryCodec` |
| `AgentLink` | the shared FIFO connection of a client process |
| `AppletSession` | views, unlock forms, events and config snapshots of the vault window and the applet, over `AgentLink` |
| `VaultPane` | list, detail pane, on-demand secrets, reprompt, edit buffer, deletion, over `AgentLink` |
| `SavePrompt` | the extension's background script: native port, pending credentials, the bar |
| `Popup` | the extension's popup, its stored state and autofill, over `AgentLink` |
| `GenerateIcon` | operators for the generate icon on a page |
| `Generator` | the agent's generator files and handlers, the generator pane, the other surfaces, over `AgentLink` and `GenerateIcon` |
| `PasswordHistory` | the abstract specification of the generator's history, which `Generator` implements |
| `Tray` | the tray's loop, its event stream, menu, commands and clipboard, and what the agent does meanwhile |
| `TrayAutolock` | `Autolock` with the tray's periodic read |
| `MC*` | the instances for TLC |
| `VaultSessionProofs`, `VaultEditsProofs`, `AppletProofs` (of `AppletSession`), `TrayProofs`, `PopupProofs`, `SavePromptProofs`, `GeneratorProofs` | the theorems about the module in their name |
| `LockProofs` | the theorems about `SshSign`, `Autolock` and `VaultPane` |

### VaultSession

State: `st` (the record), the files (`config`, and per account `dbFile`,
`envelope`, `blob`), `tasks` (one record per connection: where it waits, and the
locals it uses after the wait) and `queue` (tokio's fair mutex `refresh_lock`:
holder first, then waiters).

On one thread, code between two awaits that really wait is atomic. Those awaits
are server calls and a contended `refresh_lock`; `state.lock().await` is held
only over code that does not wait, so it never yields, and the TPM calls are
synchronous. So a handler is an action up to its first wait and one action per
answer after it:

| Handler | Actions |
|---|---|
| `handle_login` | `LoginStart`; `LoginDone`, `LoginPartial`, `LoginFailed` |
| `handle_unlock`, `handle_unlock_with_pin` | `Unlock`, `UnlockWithPin`; `ExchangeOk/Failed`, `GrantOk/Failed` |
| the sync an unlock spawns, `handle_sync` | `BackgroundSync`, `SyncRequest`; `CallOk`, `CallFailed`, `RetryOk`, `RetryFailed` |
| `with_refresh` | `SyncEntry`, `RestoreUnderLock`, `Call401`, `Refresh401`, `RefreshOk`, `RefreshFailed` |
| lock, logout, get_config, PIN set-up/disable/status | `HandleLock`, `HandleLogout`, `HandleGetConfig`, `SetupTpmPin`, `SetupTpmPinFromUnlocked`, `DisableTpmPin`, `CheckTpm` |
| the process ends and starts again | `Restart` |

A handler that refuses its request (wrong password, no account, a 2FA
challenge) changes nothing and is not an action. The three server calls of a
login are one wait: nothing is written between them.

Data: a key set, a database and a token are represented by the account they
belong to. Keys of account `a` open what was sealed for `a` and nothing else. A
token pair also has an identity, so that a stale pair can be told from the
current one; a fresh pair takes the smallest identity that is not in use, which
keeps the state space finite. An access token and its refresh token share one
identity. `kdf` is "the KDF parameters are present". Left out: pinned ids, error
texts, server URLs, the keyring (an optional cargo feature that is off by
default) and, in this module, subscribers and prompts. All requests through
`with_refresh` are represented by the sync, which is the one that writes the
session's state; what the others write is in `VaultEdits`.

`Faults` chooses which local failures can happen: a write of the config
(`"config"`), of a session envelope (`"envelope"`), of a vault file (`"vault"`),
and a vault that does not open at the end of a login (`"unlock"`). A file that
exists can be read. Where the code logs a failed write and goes on, the file
keeps its old contents (`Written`); where it returns, the rest does not happen.

### SshSign

A signer is new, waiting, or has an outcome. `Wake` and `TimeOut` are one poll
of its future. A poll sees the latest value of the watch only: this is why the
session is read from `st` when the poll happens, not when it changed.
`tokio::time::timeout` polls the inner future first, so a deadline and an unlock
together give the unlock. `prompts` is a history variable.

### Autolock

`now` is in seconds, `wake` is the end of the timer's current sleep, and the
clock cannot pass it: a timer that is due runs before the next second. Activity
is recorded by the response to a request, while the unlock's keys are in place
from its commit on (`UnlockCommit`, then `UnlockResponse`). The clock never goes
back.

### EntryCodec and VaultEdits

An entry is a record whose type-specific part is a function from the slots of
the type (the fields of a variant of `EntryData`) to values; a value is a text
and the key it is encrypted with. `EntryCodec` gives, per type, which slots are
secret and what each path does with them: decryption, the redaction of a bulk
read, the list of filled secrets, the fetch of one secret, the merge of a
redacted edit into the stored entry, the bodies of `POST` and `PUT /ciphers`
and the reading of a synced cipher. Agent and clients know a secret's row by its
label, so the announced list, the choice of request (`OnDemandSecret`) and the lookup in
the answer (`FieldPlaintext`) go by that string (`Label`), and a custom field may be
called like a slot: `Stocked` entries of every type have a hidden field "Password". In
the same way typing into the form's row of a label also overwrites the first custom
field of that name (`SetFirstNamed`). `VaultEdits` runs them: a client reads an
entry (redacted or in full), edits rows of its copy and saves, adds, deletes or
pins; the CLI's edit command sends back what one read answered with one field changed
(`CliEdit`); the agent's request waits for the answer to its write and then for the
answer to the sync after it; another device changes the account, the vault locks
and unlocks, the organization comes and goes.

### AgentLink, AppletSession, VaultPane

`AgentLink` is `AgentClient`: requests wait in order, the agent serves the first,
its answer is delivered before the next is served, and it is posted to the
application's inbox. One message handler of the UI is one step (`Handle`), and so
is one request handler of the agent (`Serve`); events come over a stream of their
own. `Elsewhere` is what other clients do to the agent.

`AppletSession` has the fields of `CosmardenApp` that decide which view and form
is shown: the config snapshot with session id and epoch, the view, the unlock
mode and PIN toggles, the deep link, the list and its search id, in both run
modes (window and panel applet). `VaultPane` has the list, the selection, the
loaded entry with its secrets and reveal marks, the reprompt and delete dialogs
and the edit buffer, for an entry that asks for the master password again and
one that does not. The search box's text, layout and the clipboard are left out.
A dialog lies over the view in a stack and does not stop clicks beside it.

### SavePrompt, Popup

In the extension every `await` lets another handler run. `SavePrompt` makes a
handler a task with a program counter and the copy of the pending record it has
read; requests go into the native port's queue, `Serve` answers the request on
the wire, and a disconnect empties the queue. Pending credentials and alarms
are in `storage.session`. `Popup` has the popup's globals and the view, the
snapshot it stores, and autofill: the entry is fetched, the tab is asked for its
address again, and the page checks the host a last time, if it has one: `Pages` are
the sites and a page without a host (`None`), where `content.js` compares nothing and
the popup lists without a domain. Closing the popup destroys its globals while its
requests are still served. A login is named by the site it matches, so URL matching is
a relation here.

### Generator, GenerateIcon, PasswordHistory

`disk` has the three files; a file that was truncated and not written is `Torn`.
A handler never waits, so it is one step, with a fault at one of its file
operations (`Serve(f)`) or a crash between two (`Crash`, after which the client
repeats the request once or reports an error). Passwords and keys are numbered.
The pane fetches settings and history, generates, reveals rows, deletes through
a dialog that remembers a row number, and is wiped by a lock. CLI, applet and
context menu each send one request. `GenerateIcon` has the page: fields in
forms, the icons a scan gives them, and what a click fills. The page adds fields and
drops a form's fields or a single one (`DropFields`), and an icon keeps its group until
a scroll or a resize finds its own field gone. A field's form and its `autocomplete`
attribute do not change while it is there.

`PasswordHistory` says what the user is promised, without files, keys, faults
and crashes: an entry can be read until it is TTL seconds old or its second is
deleted, and a step adds at most one entry, dated now. `Generator` implements it
with `entries` mapped to the entries that the key in the key file opens
(`ImplementsHistory`).

### Tray, TrayAutolock

`Tray` is the loop of `tray/tray.rs`: `ProbeVersion`, `ProbeConfig` and
`ProbeSidebar` are the requests of one `probe`, a step each, so that the agent
may change, stop or start between them. Waiting in `next_signal` it takes a
clicked command, an event, the end of the subscription or the tick. A frame is
read in two parts (`ReadLength`, `EventReceived`), because `select!` drops the
read when another branch wins; the stream is then `deaf`: what follows is read
as a length, and either fails (`eof`) or waits for that many bytes. `clip.timers`
holds the secrets whose clearing is due, oldest first, as all delays are equal.
A timer ends with `ClearIfOurs`, or with `ClearFails` when the clipboard cannot be
locked, read or written: then it is over all the same, and `clip.failed` is set if it
was the last one for the text on the clipboard. A copy can fail too. A copied value is
named by its command. `agent.silent` marks a favourite that is
changed in memory and not announced yet; `tray.early` is a history variable, true
while the last probe began before the subscription was open.

`TrayAutolock` gives the inactivity timer two kinds of requests, those of a
person and the tray's, and remembers in `used` when a person last made one. After
an event the tray reads at once, else every `ProbeInterval`.

## Runs

| Run | Instance | Shows |
|---|---|---|
| `session` | 1 account, 2 requests, no TPM, logins that may fail to open the vault, fairness | `RefreshSerialized`, `LogoutLeavesNoEnvelope`, `EnvelopeTracksSession`, `EpochTracksTransitions`, `RequestsFinish` |
| `switch` | 2 accounts, TPM, failing vault writes; 2 requests, one of them the logins, without PINs, or 1 request with PINs and failing config writes | `SessionMatchesKeys`, `LockedHoldsNoPlaintext`, `KeysBelongToConfig`, `SshIdentitiesOfAccount`, `BlobSealsOwnKeys` |
| `ssh` | 2 signers of 2 accounts, 1 subscriber, fairness | `PromptedOnce`, `SignRequestsFinish`, `WakeupNotLost` |
| `autolock` | `MaxSleep` 2, timeouts 0, 1, 2, 3, 5, nine seconds | `LocksInTime` |
| `edits` | 1 entry of each of the 8 types, 2 operations, an organization, another device; a second request overlaps in a vault of secure notes | `UpdateCarriesTheEdit`, `ServerReadable`, `CreatedAsTyped`, `AnnouncedSecretsLoad`, `PinsMatchEntries` |
| `applet` | window and panel applet, 3 operations of the user and of other clients | `VaultShownOnlyUnlocked`, `ListSettles`, `DeepLinkNotLost`, `PreferenceKept` |
| `pane` | a login and a gated secure note, 5 operations | `PaneListFresh`, `SelectionExists` |
| `saveprompt` | 1 tab, 2 users, 2 passwords, 3 handlers at a time, 4 operations, fairness | `AnswersOwn`, `UpdatesOwnEntry`, `DeferredReoffered`, `PromptSettles` |
| `popup` | logins of 2 sites, a note, 6 operations | `EditsCurrent`, `FilledWhereMatched`, `StateKept` |
| `generator` | a lifetime of 1 in a clock of 0 to 2, 5 operations, 2 faults or crashes, 3 fields in 2 forms | `HistoryDecrypts`, `ImplementsHistory`, `GeneratedIsShown`, `RevealedWasChosen`, `IconsSpareLogins` |
| `tray` | 2 logins, one of them gated, 4 operations of users, other clients and the session, fairness | `MenuFresh`, `MenuFollows`, `CopiesCleared` |
| `v_tray_autolock` | `MaxSleep` 2, `ProbeInterval` 2, timeouts 0, 3, 5 | `LocksUnattended` is violated |

**Bounds.** In `VaultSession`, two requests are what every race needs: one that
waits and one that moves the state under it; a third only lengthens the queue,
and `RefreshSerialized` is proved for any number. Two accounts are what a
confusion of accounts needs. `EpochMod = 2` is the harshest modulus: a step that
forgot to move the epoch, or moved it twice, shows at once. `TokIds` has more
identities than places that can hold a token (an assumption of the module,
evaluated by every run). Timeouts lie below, at and above `MaxSleep`, and the
clock lasts for several sleeps. Requests, locks, logouts and restarts are not
bounded. `switch` is two instances in one state space, kept apart by the action
constraint `InOneInstance`: a client that logs in beside another request, without
PINs, or one request at a time with PINs. Both together are out of reach; what
they check is proved for every instance, under the conditions given below.

In the other modules `MaxOps` bounds what users, other clients and the
environment start, never the answers, events and handlers that follow; with the
operations used up the system comes to rest, so these runs have `CHECK_DEADLOCK
FALSE`. `MaxPending` bounds how many requests a user has under way when he acts
again: two or three are enough for answers that overtake a decision. Two
operations in `edits` are an edit and a save, or a save and a change on another
device; the breadth of that run is in the entries (every type, with and without
an item key, owned by the user or by an organization, redacted or full), and
`OverlapSpec` lets a pin, a sync or an unlock start while another request is
under way for the smallest type only: what overlaps, the entries as a whole, the
pins and the answers, does not depend on an entry's slots. The codec treats names, notes and custom fields of all types alike but for an SSH
key's fields, so names are edited in secure notes with an item key, notes in entries
without one, and the field `f1` in SSH keys, logins and secure notes. Six
operations in `popup` are opening, filtering, opening an entry, editing it,
closing and reopening. Five in `generator` are two generations, a change of the
clock, and a deletion in two clicks. Four in `tray` are a copy, a second one and a
lock or logout around them, or an agent that stops, starts and changes twice.

**Fairness.** `FairSpec` of `VaultSession` is weak fairness of a task's next
step: tokio polls every ready task, the lock is FIFO, and a server call ends
with an answer or a connection error. The API client sets no timeout of its own,
so the last point is an assumption about the network stack: `RequestsFinish`
does not cover a server that keeps a connection open without answering.
Clients' requests, locks, logouts and restarts have no fairness. `FairSpec` of
`SshSign` is weak fairness of polling a waiting signer and strong fairness of
the passing of its deadline, because time runs on while the vault locks and
unlocks. A deadline passes and fires only while the session reads Locked, so it
cannot hide a lost wake-up from `WakeupNotLost`. `FairSpec` of `SavePrompt` is
weak fairness of the native host's answers, of the fallback timer and of each
handler's next step: the browser's event loop runs what is ready. `FairSpec` of
`Tray` is weak fairness of the loop and of the clearing timers, which end by clearing or by
failing: requests over the local socket are answered or fail, and the tick ends every
wait. Users, other
clients and disconnects have none.

Several properties of the window speak of a settled state, in which every
request is answered and every event handled. They promise nothing about what is
shown in between, and the observations below say what can be.

### A disagreement between the documents and the code

`v_tray_autolock` ends in a violation. The agent "locks ... on an inactivity
timeout" (`README.md:62` of the repository), and `lib.rs:318` lists the "Actions
that should NOT reset the inactivity timer". `GetSidebarEntries`, which the tray
sends every 30 seconds while the vault is open, is not among them. With a timeout
above the interval the timer is reset before it can run out, and the vault stays
unlocked for as long as the tray runs. Without the tray's reads the same bound
holds: it is `LocksInTime`. `findings` in
`PROJECT.json` quotes the lines.

### Observations

What follows was met while modelling and is what the code does; it bounds the
properties above, which are stated so that they hold.

Sessions.
- An exchange answered after `lock()` leaves its tokens in the locked agent
  (`handler/auth/reauth.rs:72`), and a PIN unlock that finds them carries them
  over and never persists them (`tpm_pin/unlock.rs:172`).
- `handle_logout` only logs a failed unlink of the session file and
  acknowledges (`handler/auth/config.rs:93`).
- An exchange answered after a logout of A and a login to B writes A's session
  file again (`reauth.rs:80`); a sync answered then sets A's user id
  (`handler/vault/sync.rs:41`); `tpm_configured` survives the switch
  (`handler/auth/login.rs:191`).
- An unlock restores without `refresh_lock`, so one stored token can be in two
  exchanges (`handler/auth/unlock.rs:139`).
- A late sync success clears the `sync_failed` a later unlock has set
  (`sync.rs:82`).
- A `lock()` right after a logout hides `LoggedOut` from a waiting signer, which
  then waits for its deadline (`state.rs:316`).
- The timer may lock a vault whose unlock is still restoring its session
  (`lib.rs:338`).

Entries.
- The match type of a URI is sent as `match` (`server/ops/update.rs:110`,
  `server/ops/add.rs:106`) and read from a sync as `match_type`
  (`core/api/models/vault.rs:308`), with Domain as the default: a URI set to Never
  matches again after a sync.
- An update sends neither folder nor organization, and never an SSH fingerprint;
  entries of an organization without an item key are encrypted with the user's
  key.
- The merge runs only if the agent has the entry when the update comes: an entry
  that a sync has removed, or a copy the agent cannot decrypt, is written as the
  client sent it (`handler/vault/ops.rs:102`). Hidden fields are merged by name: of
  several with one name each gets the first one's value, and one that another edit has
  made visible or renamed since gets none. `MeantField` promises a value only where
  the agent has exactly one hidden field of the name. Notes are redacted but, on
  purpose, not merged, so an update must come from a copy with its notes.
- A hidden custom field that is called like a slot takes that slot's path
  (`core/field_access.rs:36`). "Password" on an identity is announced, and its copy button
  sends `GetPassword`, which answers "entry has no password"
  (`handler/vault/mod.rs:64`); on a card it copies the card number. "Public Key" on an SSH
  key copies the slot. A visible custom field "Card Number" makes the redacted number
  seem loaded. `AnnouncedSecretsLoad` promises slots and notes whatever the fields are
  called, and a hidden field if no other field and no filled slot has its label and it is not
  called Password, TOTP or Notes; a slot seems loaded only if a visible field shares its label.
- Typing into the form's Password row also overwrites the first custom field called
  "Password" (`ui/app/update/vault_edit.rs:219`).
- A pin shown at once is undone by an older sync in flight until the next one; a
  draft saved after a pin carries the old flag.

Vault window.
- An older config snapshot of the same epoch can put an earlier view back until
  the next one (`ui/app/update/lifecycle.rs:100`). A lock between the first
  `GetConfig` and the subscription is seen only with the next snapshot.
- One request connection without a timeout: a slow sync or login holds up every
  other request of the window, a lock included. A retried request may be
  executed twice (`core/agent_client.rs:53`).
- A late secret is shown or copied for whatever is selected when it arrives, and
  late answers fill a pane that a lock has wiped
  (`ui/app/update/vault_secrets.rs:84`, `wipe.rs:9`).
- The reprompt dialog opens for the entry selected now, not the one refused
  (`vault_actions.rs:120`). Dialogs survive a lock. A save's answer drops a draft
  begun since.
- The dialog that restores an expired session "deliberately does not route through
  UnlockSubmitted", so that the sealed PIN is kept (`ui/app/update/auth.rs:185`).
  Its answer is an `AuthResult`, which decides about the PIN as for a login form:
  with that form's PIN toggle off it sends `DisableTpmPin` (`auth.rs:258`), and the
  PIN is gone.
- A `Locked` event between an unlock and its answer wipes the PIN to apply, so
  the PIN typed with it is discarded and the sealed one deleted.

Browser extension.
- A newer submission can be overwritten or cleared by an older evaluation's copy;
  overlapping evaluations can show the bar again after Save.
- A lock between the two requests of an evaluation drops the credential; an unlock
  from outside the popup does not offer a deferred one again
  (`ext/background.js:222`).
- `content.js` compares the host of the page with the login's only if the page has one
  (`ext/content.js:7`): a tab that goes to a file page while the message is on its way is
  filled. `docs/grok_xhigh_security_review_plan.md:410` says that "a tab that navigated
  between click and inject is not filled". `FilledWhereMatched` covers pages with a host.
- A restored edit draft is lost when the popup is closed a second time
  (`ext/popup/popup-edit.js:33`); restoring the detail of a deleted entry leaves
  the popup blank; a cached config lets a restored popup show its list while the
  vault is locked.

Tray.
- The first probe runs before the tray subscribes: a change between the two shows
  only with the next event or tick (`tray/tray.rs:122`). `MenuFresh` excepts it.
- A click or a tick while an event's frame is half read leaves the subscription
  open and deaf until the agent restarts; the menu then follows every 30 seconds
  only (`tray/supervisor.rs:85`, `core/agent_client.rs:96`).
- A favourite that the server refuses is changed in memory and not announced
  (`handler/vault/ops.rs:247`).
- The tray subscribes too, so it may take a pending deep link (`lib.rs:375`).
- Clearing a copied secret is tried once: after a poisoned lock, a failed read or a
  failed write the secret stays (`tray/clipboard.rs:77`, `:88`, `:97`). `CopiesCleared`
  excepts it.
- Exit drops the clearing timers: a secret that a clipboard manager keeps stays
  (`tray/clipboard.rs:69`).

Generator.
- A crash between truncating and writing the key file makes every later append
  and history read fail (`handler/generator/storage.rs:62`): passwords are then
  generated and no longer recorded.
- The delete dialog holds a row number, and a list refreshed meanwhile moves it
  to another row (`ui/app/update/pwgen.rs:115`).
- Settings that are rejected are still saved. An icon keeps the fields it found
  first, so a confirmation field rendered later is left out
  (`ext/content-generate.js:186`), and it outlives them: where a page drops the
  confirmation field only, the field left alone keeps its icon and a click overwrites it,
  although a login form's lone field "never gets the icon" (line 88 there).
  `IconsSpareLogins` covers fields that have always been alone in their form, but for
  fields marked as the current password.

## Theorems

Every theorem is about the specification that the runs check (`Spec`, `TimerSpec` of
`Autolock`, `PaneSpec` of `VaultPane`), for all values of the constants that satisfy the
`ASSUME`s of the modules, and for runs of any length: the bounds of the instances
(`MaxOps`, `MaxPending`, numbers of requests, tabs, logins, faults) are arbitrary.
The assumptions say that identifiers for "nothing" are not used for something
(`None \notin Snapshots`, `Root \notin Forms`, `NoId \notin Ids`, `Nil \notin Entries`), that the bounds are numbers, and what
the code fixes (a password is at least as long as the number of character groups, an
epoch has more than one value, the timer's longest sleep is not zero, what is typed is
new or empty, the rows a client edits are slots, notes, name and custom fields other than
the two an SSH key mirrors).

| Module | Theorem | States |
|---|---|---|
| `VaultSessionProofs` | `TypeCorrect` | `TypeOK` |
| | `SessionAgrees`, `LockedIsEmpty`, `RefreshIsSerialized`, `EpochOrders` | `SessionMatchesKeys`, `LockedHoldsNoPlaintext`, `RefreshSerialized`, `EpochTracksTransitions` |
| | `KeysOfConfig`, `BlobsSealOwnKeys`, `SshListsOwnKeys` | `KeysBelongToConfig`, `BlobSealsOwnKeys`, `SshIdentitiesOfAccount`, under `LoginAtomic` |
| | `LogoutSweeps`, `EnvelopeIsLive` | `LogoutLeavesNoEnvelope`, `EnvelopeTracksSession`, under `SoleAccount`, the second without TPM |
| `VaultEditsProofs` | `UpdatesCarryTheEdit`, `ServerStaysReadable`, `EntriesCreatedAsTyped`, `AnnouncedSecretsAlwaysLoad`, `PinsAlwaysMatch` | the five properties of the entries, from the invariant of `VaultEditsInductive` |
| `LockProofs` | `PromptedOnceHolds` | `PromptedOnce` |
| | `AutolockTypes`, `AutolockBound` | types, `LocksInTime` |
| | `PaneAlwaysFresh`, `SelectionAlwaysExists` | `PaneListFresh`, `SelectionExists` |
| `AppletProofs` | `VaultShownOnlyUnlockedHolds`, `ListSettlesHolds`, `DeepLinkNotLostHolds`, `PreferenceKeptHolds` | the four properties of the window |
| `TrayProofs` | `MenuFreshHolds` | `MenuFresh` |
| `PopupProofs` | `EditsCurrentHolds`, `FilledWhereMatchedHolds`, `StateKeptHolds` | the three properties of the popup |
| `SavePromptProofs` | `AnswersOwnHolds`, `UpdatesOwnEntryHolds`, `DeferredReofferedHolds` | its three invariants |
| `GeneratorProofs` | `HistoryDecryptsHolds`, `GeneratedIsShownHolds`, `RevealedWasChosenHolds`, `IconsSpareLoginsHolds` | its four invariants |
| | `NewestFirstSorts` | the history answer is a sorted listing of the file, without repetition |
| | `ImplementsHistoryHolds` | `Generator` implements `PasswordHistory` |

### VaultSessionProofs: the session

The first eight theorems rest on one inductive invariant,

    Inv == TypeOK /\ Sound(st, config.email)
                  /\ (LoginAtomic => BlobSealsOwnKeys) /\ RefreshSerialized

`Sound(s, e)` gathers what relates the fields of the state record to each other
and to the configured email: the session watch and the keys, the empty caches of
a locked state, and under `LoginAtomic` the owner of the keys and of the SSH
identities. No one of these is inductive alone. A late sync answer calls
`RebuildSidebarCache` on whatever state there is, so the caches are right only
because the keys are; the keys an unlock by PIN installs are right only because
the blob is; and the blob a set-up writes is right only because the keys in
memory are. The type invariant carries the fact that every waiting task knows
an account, without which a late answer could write to no file at all.
The operators of `AgentState` preserve `Sound` by lemmas of their own; one lemma
per action then shows that it preserves `Inv`. `RefreshSerialized` needs only the
queue: a task spends a token in the phases it enters as head of the queue, and
only the head removes itself. `EpochOrders` follows from the types (the epoch is
below `EpochMod > 1`, so adding one changes it).

`LoginAtomic` (the vault a login has just saved opens, `"unlock"` not in `Faults`)
is needed: a login that saves the config of account B and then fails to open B's
vault leaves A's keys in memory, and a PIN set-up then seals them for B.

### VaultSessionProofs: the envelope

`LogoutSweeps` and `EnvelopeIsLive` hold for `SoleAccount`: one account, whose
envelope can be written and removed; every other fault may happen. Both conditions
are needed, and so is the absence of the TPM in `EnvelopeIsLive`: with two accounts a
late exchange writes the file of the account that was logged out of, a failed unlink
leaves the file, and a PIN unlock carries a token that was never persisted (see the
observations). The invariant adds to `Inv`

- `TokensOwned`: every token in memory, on disk or carried by a task was minted for
  an account;
- `VaultBehind`: unlocked, the vault is in memory and on disk; and an envelope has a vault
  file beside it and no empty database in memory. An exchange answered after a logout
  finds no keys, and this is what says that it then writes nothing;
- `Sealed`, without TPM: unlocked with a token, the envelope seals that token with
  those keys. Every commit of a token is followed in the same step by `persist`.

`EnvelopeInv` was model-checked for one account, with and without TPM, before it was
proved.

### VaultEditsProofs

The five properties follow from one invariant (`Inv`) with four parts.

- *Keys fit.* Every cipher that is live on the server, in a database or in a request can be
  opened with its own keys, and has the two fields an SSH key mirrors once each (`SealedOK`).
- *What an editor holds* (`EditOK`): relative to the copy it read, each row is what was
  typed, or the copy's value, or nothing if it was redacted; type, item key,
  history and reprompt are the copy's. A form for a new entry has the same text in
  every slot, the form's fields being alike for the model (`NewForm`).
- *What a request carries* (`PutOK`, `PostOK`): `UpdateCarriesTheEdit` and
  `CreatedAsTyped` for the request on its way, with the stored entry it was
  merged into.
- *Versions agree* (`KindsOK`): there is a type for each id, and an answer to whether it has an
  item key, that all its versions share, wherever they are; an id has no version
  before its creation, and two creations never use one id. Without this an
  update could meet a stored entry of another type, or an item key it does not know.

The slots of the types are finite tables, and the facts about them are checked type by
type: redaction and merge name the same slots, decryption handles all of them, a `PUT`
leaves only the fingerprint out, every announced slot can be fetched by
its label, and no two slots of a type share one
(`SlotsAgree`, `AddSlotsSent`, `RedactedFetched`, `LabelsDiffer`, `MainLabels`). `EntryCodec`'s paths are then
characterised by what they do to any slot and field (`Reads`, `Redacts`, `Merges`,
`Seals`, `Syncs`), and an update is their composition: `SlotsCarried` for the slots and
`FieldsCarried` for the custom fields, whose merge is by name.

The custom fields made the proof say precisely what can be promised of a hidden field that
the client saw nothing of: the agent knows it by its name only, so `MeantField` gives
it the stored value where exactly one stored hidden field has that name, and
says nothing elsewhere (see the observations).

### LockProofs, TrayProofs

`PromptedOnce` is not inductive: a client that has its prompt while
`unlock_requested_notified` is down again would get another. `Remembered` adds that
the flag stays up while some client's prompt counts; what is left is which methods of
`State` lower it, and these are `lock` and `clear_account`, which begin a new period.

`LocksInTime` speaks of the past; its strengthening `DueInTime` says the timer's
next wake-up lies inside the bound, whatever the timer sleeps for.

`PaneListFresh` and `SelectionExists` rest on `PaneInv`, which TLC checked first. While the
agent is unlocked, every `Locked` on its way is followed by an `Unlocked`, and the vault
is shown or about to be. Then either something on its way makes the window read the list
again (`Renewal`), or three things hold (`Follows`): every list on its way is the agent's,
the window has that list or it is coming, and what is selected, now or when the answer
to a save selects it, exists or has a list coming behind it that will drop it. As in
`AppletProofs` the FIFO order of connection and inbox carries this from step to step.

`MenuFresh` is about the end of a probe of three requests. `ProbeFresh` follows the
probe: after each answer, what the tray has read is what the agent still has, unless
the subscription holds a sign of a change (a frame, its end, or deafness).

### AppletProofs

The window's properties speak of the moment when everything has arrived, so the
invariant speaks of what is on its way. As long as a *renewal* is (an event that makes
the window read the agent, or a `GetConfig` not yet answered) nothing is claimed. With
none on its way, every message that would show the vault is followed by a config of the
agent's present epoch (`Covered`) or belongs to the time before the subscription
(`Excused`), every list that is not the agent's is followed by that config or by a
list that is (`Listed`), and the same holds of what the window shows now. Two facts
carry this through every step: a config of the present epoch tells the present state
(`ConfigsOK`, since each change of the lock state moves the epoch), and the request
connection and the inbox are FIFO, so what follows stays behind. Before the subscription,
the window shows only what an early config has shown it (`Unsubscribed`).

### PopupProofs, SavePromptProofs

The popup's answers arrive in every view. The proof goes by what a handler does to the
screen: it moves to another view and saves (`Show`, `EditForm`), it touches nothing that
is saved (`Agree`), or the popup is closed. `FilledWhereMatched` needs that every fill on its
way names the site of its login (`FillsMatch`), since a page with a host compares it again. A fill of a page without one is in the model
and outside the theorem.

For the save prompt three things are carried through every `await`: what a handler's
copy of the record may be (`TaskOK`: an update names a login of its user); that the
queue holds waiting handlers, each once, and the wire the request of its head, with an
answer that fits (`PortOK`); and that after the popup's unlock each record still marked as deferred
is ahead of some handler that will look at it (`Swept`).

### GeneratorProofs

`DiskOK` says that the history is empty or has the one key of the key file, with entries that are
told apart by their passwords; the rest of the invariant follows the requests and answers
on their way. A list that answers after a password has it, as long as the file has
(`Follows`), and a password that is shown and not listed has a list still to come
(`Coming`). Each icon's fields were eligible when it found them, and as `LoginField` counts the fields
a form has ever had, they stay so when others are dropped (`PageOK`).
For the refinement, every step changes the readable entries in one of the ways that
`PasswordHistory`'s next-state relation allows, or leaves them. The history is a set in the model: the file's
order is the order in which passwords were made, and the sort by second, which is
stable, keeps it among the entries of one second (`Before`).

## What only TLC checks

Liveness under fairness (`RequestsFinish`, `SignRequestsFinish`, `WakeupNotLost`,
`PromptSettles`, `MenuFollows`, `CopiesCleared`) is beyond the prover, which handles neither
`ENABLED` nor fairness. Every invariant and action property of a passing run has a
theorem, and so has the refinement of `PasswordHistory`. The properties of the envelope with several accounts,
a TPM or failing files do not hold in general, see the observations.

## Not modelled

Cryptography, HTTP, TPM commands and framing are abstracted to their outcomes.
TOTP codes, the public suffix list, URL matching and the extension's form
heuristics are computations on strings and page structure; a match is a relation
in the models that use it. The keyring feature is off by default. Of the clients,
the tray's icon, theme and launching of programs, clipboard clearing in the
window and the extension, the panel's search popup, the settings file shared by window and applet, layout and
localisation are left out; the CLI has no state beyond its requests. The
crates of tests and the packaging scripts are not part of the system. Steps of
the wall clock in the timer, a partly written TPM blob, the order of suspend
signals and the subscriber that takes a pending deep link are listed as hazards.

## Plan

1. Core session life cycle: `AgentState`, `VaultSession`, `SshSign`, `Autolock`
   and their first theorems (done).
2. Entries, clients and generator: `EntryCodec`, `VaultEdits`, `AgentLink`,
   `AppletSession`, `VaultPane`, `SavePrompt`, `Popup`, `Tray`, `Generator` and
   the abstract `PasswordHistory` (done).
3. Proofs: the session with its envelope, the entries, the SSH prompts, the timer, the
   window's session and vault pane, tray, popup, save prompt and generator with the
   refinement of `PasswordHistory` (done).
4. Still to model: the sleep inhibitor against an unlock, the subscriber of a
   deep link, and the write of a TPM blob and a crash in it.
