--------------------------- MODULE AppletSession ---------------------------
(***************************************************************************)
(* The vault window and the panel applet: which view the application shows *)
(* while the agent locks and unlocks underneath it.                        *)
(*                                                                         *)
(* Requests go over AgentLink; events come over the subscription's own     *)
(* connection and are posted to the same message queue.  A message handler *)
(* of the application (update_app) and a request handler of the agent are  *)
(* one step each.  The agent stays up: its own steps are in VaultSession.  *)
(***************************************************************************)
EXTENDS AgentLink

CONSTANTS
    RunModes,    \* "window" and "applet": what detect_run_mode may return
    MaxOps,      \* bound on the user's and the other clients' operations
    MaxPending   \* they start one only with fewer requests and messages pending

ASSUME RunModesAssumption == RunModes # {} /\ RunModes \subseteq {"window", "applet"}
ASSUME BoundsAssumption == MaxOps \in Nat /\ MaxPending \in Nat

VARIABLES
    agent,       \* what the agent knows that a reply or an event tells
    events,      \* the subscription's stream
    io,          \* waiting requests, the reply not yet read, the message queue
    ui,          \* the fields of CosmardenApp
    ops          \* operations so far, up to MaxOps
vars == <<agent, events, io, ui, ops>>

IsUnlocked(view) == view \in {"Vault", "Settings", "PasswordGenerator"}
NoList == 0      \* an empty list; versions of the agent's list count from 1
NoEpoch == 0     \* no config yet; the agent's epoch counts from 1

Request(kind, by) == [kind |-> kind, by |-> by]
Reply(m, code, snap) ==
    [kind |-> m.kind, by |-> m.by, code |-> code, snap |-> snap, epoch |-> agent'.epoch]
Nothing == [none |-> TRUE]
RefreshStateInternal == [kind |-> "Refresh"]

Init ==
    /\ agent \in [locked : BOOLEAN, account : BOOLEAN, pin : BOOLEAN, epoch : {1},
                  list : {1}, notified : {FALSE}, link : {FALSE}, subscribed : {FALSE}]
    /\ ~agent.account => agent.locked /\ ~agent.pin
    /\ events = <<>>
    /\ io = NewLink(<<Request("GetConfig", "app")>>)
    /\ ui \in [run : RunModes, view : {"Loading"}, last : {NoEpoch}, account : {FALSE},
               tpm : {FALSE}, pin : {FALSE}, mode : {"Password"}, preferred : {FALSE},
               applyPin : {FALSE}, unlockPin : {FALSE}, loginPin : {FALSE},
               popup : {FALSE}, list : {NoList}, link : {"none"}, early : {FALSE}]
    /\ ops = 0

Settled == Idle(io) /\ events = <<>>

-----------------------------------------------------------------------------
(* The agent.                                                              *)

Broadcast(e) ==
    events' = IF agent.subscribed
              THEN Append(events, [kind |-> "Event", event |-> e, epoch |-> agent'.epoch])
              ELSE events

\* State::lock, also when it is locked already.
Lock(a) == [a EXCEPT !.locked = TRUE, !.epoch = @ + 1, !.notified = FALSE,
                     !.link = FALSE]
\* commit of a login, an unlock and a PIN unlock.
Unlock(a) == [a EXCEPT !.locked = FALSE, !.epoch = @ + 1]
Synced(a) == [a EXCEPT !.list = @ + 1]
ClearAccount(a) == [Lock(a) EXCEPT !.account = FALSE]

\* handle_get_config; `early` remembers that the subscription was not open.
Config(a) == [locked |-> a.locked, account |-> a.account, early |-> ~a.subscribed]

Answer(m, code, snap) == io' = Answered(io, Reply(m, code, snap))

\* Requests that only read: GetConfig, CheckTpm, GetSidebarEntries.
Read(m) ==
    /\ UNCHANGED <<agent, events>>
    /\ \/ m.kind = "GetConfig" /\ Answer(m, "ok", Config(agent))
       \/ m.kind = "CheckTpm" /\ Answer(m, "ok", [pin |-> agent.pin])
       \/ m.kind = "GetEntries" /\ agent.locked /\ Answer(m, "locked", Nothing)
       \/ m.kind = "GetEntries" /\ ~agent.locked /\ Answer(m, "ok", [list |-> agent.list])

\* handle_login, handle_unlock and handle_unlock_with_pin: their outcomes.
Authenticate(m) ==
    \/ /\ \/ m.kind = "Login"
          \/ m.kind = "Unlock" /\ agent.account
          \/ m.kind = "UnlockWithPin" /\ agent.account /\ agent.pin
       /\ agent' = [Unlock(agent) EXCEPT !.account = TRUE]
       /\ Broadcast("Unlocked") /\ Answer(m, "ok", Nothing)
    \/ /\ UNCHANGED <<agent, events>>
       /\ \/ m.kind \in {"Login", "Unlock", "UnlockWithPin"} /\ Answer(m, "err", Nothing)
          \/ m.kind = "Login" /\ Answer(m, "new_device", Nothing)
          \* ERR_TPM_BLOB_MISSING, or ERR_TPM_STATE_CHANGED after an update.
          \/ m.kind = "UnlockWithPin" /\ Answer(m, "pin_gone", Nothing)

LockOrLogout(m) ==
    /\ \/ m.kind = "Lock" /\ agent' = Lock(agent)
       \/ m.kind = "Logout" /\ agent' = ClearAccount(agent)
    /\ Broadcast("Locked") /\ Answer(m, "ok", Nothing)

\* handle_setup_tpm_pin_from_unlocked and handle_disable_tpm_pin.
ChangePin(m) ==
    /\ UNCHANGED events
    /\ \/ /\ m.kind = "SetupTpmPin" /\ ~agent.locked
          /\ agent' = [agent EXCEPT !.pin = TRUE] /\ Answer(m, "ok", Nothing)
       \/ /\ m.kind = "SetupTpmPin" /\ agent.locked
          /\ UNCHANGED agent /\ Answer(m, "err", Nothing)
       \/ /\ m.kind = "DisableTpmPin"
          /\ agent' = [agent EXCEPT !.pin = FALSE] /\ Answer(m, "ok", Nothing)

\* The request at the head of the connection, once the last reply was read.
Serve ==
    /\ CanServe(io)
    /\ LET m == Head(io.waiting)
       IN Read(m) \/ Authenticate(m) \/ LockOrLogout(m) \/ ChangePin(m)
    /\ UNCHANGED <<ui, ops>>

\* Subscribe, on a connection of its own: a pending deep link goes to the new
\* subscriber.
Subscribe ==
    /\ ~agent.subscribed
    /\ agent' = [agent EXCEPT !.subscribed = TRUE, !.link = FALSE]
    /\ events' = IF agent.link THEN <<[kind |-> "Event", event |-> "OpenEntry",
                                       epoch |-> agent.epoch]>> ELSE <<>>
    /\ UNCHANGED <<io, ui, ops>>

\* A reply or an event is read from its connection and posted.
Post ==
    /\ \/ /\ io.reply # <<>> /\ UNCHANGED events
          /\ io' = Delivered(io)
       \/ /\ events # <<>> /\ events' = Tail(events)
          /\ io' = PostMessage(io, Head(events))
    /\ UNCHANGED <<agent, ui, ops>>

-----------------------------------------------------------------------------
(* What other clients, the timer and other devices make the agent do.      *)

MayStart == ops < MaxOps /\ Pending(io) < MaxPending
Elsewhere ==
    /\ MayStart /\ ops' = ops + 1
    /\ \/ agent' = Lock(agent) /\ Broadcast("Locked")
       \/ agent.account /\ agent' = Unlock(agent) /\ Broadcast("Unlocked")
       \/ ~agent.locked /\ agent' = Synced(agent) /\ Broadcast("VaultChanged")
       \* request_unlock, once until the next lock.
       \/ /\ ~agent.notified /\ agent' = [agent EXCEPT !.notified = TRUE]
          /\ Broadcast(IF agent.pin THEN "PinRequested" ELSE "UnlockRequested")
       \* SetPendingEntry.
       \/ agent' = [agent EXCEPT !.link = TRUE] /\ Broadcast("OpenEntry")
    /\ UNCHANGED <<io, ui>>

-----------------------------------------------------------------------------
(* The application's message handlers.  `q` is the rest of io.             *)

AskFor(q, kinds, by) == Enqueue(q, [i \in DOMAIN kinds |-> Request(kinds[i], by)])
Ask(q, kinds) == AskFor(q, kinds, "app")
\* search_id + 1: an outstanding list reply will be ignored.
NewSearch(q) ==
    LET Current(s) == Keeping(s, {i \in DOMAIN s : s[i].kind # "GetEntries"})
    IN [waiting |-> Current(q.waiting), reply |-> Current(q.reply), inbox |-> Current(q.inbox)]

\* RefreshStateInternal.
Refresh(q) ==
    /\ io' = IF IsUnlocked(ui.view) THEN Ask(NewSearch(q), <<"GetConfig", "GetEntries">>)
                                    ELSE Ask(q, <<"GetConfig">>)
    /\ UNCHANGED ui

\* wipe_session_secrets and wipe_for_lock.
Wipe(u) == [u EXCEPT !.list = NoList, !.applyPin = FALSE, !.unlockPin = FALSE,
                     !.loginPin = FALSE]
WipeForLock(u) == [Wipe(u) EXCEPT !.view = "Unlock"]

\* apply_unlock_pin: what an empty or a filled PIN field asks of the agent.
PinIntent(u, pin) ==
    IF u.tpm /\ pin THEN <<"SetupTpmPin">>
    ELSE IF u.tpm /\ u.pin THEN <<"DisableTpmPin">> ELSE <<>>
AskPin(q, u, pin, by) == AskFor(q, PinIntent(u, pin), by)

\* A snapshot of an older epoch is dropped.
Stale(m) == m.epoch < ui.last
\* A mutant that leaves a waiting deep link for later.
LinkLeft(c, link) == link
\* pending_vault_entry.take(): a shown vault opens the link (SelectEntry).
LinkAfter(c, link) == IF c.account /\ ~c.locked THEN "none" ELSE link
\* A mutant that fetches no list for the vault it shows.
RequestsForNoList(view) == <<"CheckTpm">>
RequestsFor(view) == IF view = "Vault" THEN <<"GetEntries", "CheckTpm">> ELSE <<"CheckTpm">>
\* A mutant that shows the vault whatever the lock state is.
ViewForAccount(c) == IF ~c.account THEN "Setup" ELSE "Vault"
ViewFor(c) == IF ~c.account THEN "Setup" ELSE IF c.locked THEN "Unlock" ELSE "Vault"
ConfigReceived(m, q) ==
    LET c == m.snap
        view == ViewFor(c)
    IN IF Stale(m)
       THEN io' = q /\ UNCHANGED ui
       ELSE /\ ui' = [ui EXCEPT !.last = m.epoch, !.account = c.account, !.early = c.early,
                                !.view = view, !.link = LinkAfter(c, @)]
            /\ io' = Ask(IF view = "Vault" THEN NewSearch(q) ELSE q, RequestsFor(view))

\* A mutant that promotes the PIN form over the user's choice.
PromotePinAlways(pin) == pin /\ ui.view = "Unlock"
PromotePin(pin) == pin /\ ui.view = "Unlock" /\ ~ui.preferred
TpmStatusReceived(m, q) ==
    /\ ui' = [ui EXCEPT !.tpm = TRUE, !.pin = m.snap.pin,
                        !.mode = IF PromotePin(m.snap.pin) THEN "Pin" ELSE @]
    /\ io' = q

\* EntriesReceived: an answer of the current search; "agent is locked" clears.
EntriesReceived(m, q) ==
    /\ ui' = [ui EXCEPT !.list = IF m.code = "ok" THEN m.snap.list ELSE NoList]
    /\ io' = q

\* AuthResult of the login form, the unlock form and the session restore.
AuthResult(m, q) ==
    LET pin == IF ui.applyPin THEN ui.unlockPin ELSE ui.loginPin
        u == [ui EXCEPT !.view = "Vault", !.applyPin = FALSE,
                        !.unlockPin = @ /\ ~ui.applyPin, !.loginPin = @ /\ ui.applyPin]
    IN IF m.code = "ok"
       THEN /\ ui' = u
            /\ io' = AskPin(PostMessage(Ask(q, <<"GetEntries">>), RefreshStateInternal),
                            ui, pin, m.by)
       ELSE /\ ui' = [ui EXCEPT !.applyPin = FALSE,
                         !.view = IF m.code = "new_device" \/ ui.last = NoEpoch
                                  THEN "Setup" ELSE "Unlock"]
            /\ io' = q

\* MainWindowPinResult and AppletPinResult; only the applet's leaves the vault.
PinResult(m, q) ==
    IF m.code = "ok"
    THEN ui' = [ui EXCEPT !.view = "Vault"] /\ io' = PostMessage(q, RefreshStateInternal)
    ELSE /\ ui' = [ui EXCEPT !.mode = IF m.code = "pin_gone" THEN "Password" ELSE @,
                             !.view = IF m.by = "popup" THEN "Unlock" ELSE @]
         /\ io' = q

\* AppletUnlockResult: the popup shows the vault and asks for no refresh.
AppletUnlockResult(m, q) ==
    IF m.code = "ok"
    THEN /\ ui' = [ui EXCEPT !.view = "Vault", !.unlockPin = FALSE]
         /\ io' = AskPin(q, ui, ui.unlockPin, m.by)
    ELSE io' = q /\ UNCHANGED ui

LockResult(q) == ui' = WipeForLock(ui) /\ io' = q
LogoutResult(q) == ui' = [Wipe(ui) EXCEPT !.view = "Setup"] /\ io' = q

TpmSetupResult(m, q) == ui' = [ui EXCEPT !.pin = @ \/ m.code = "ok"] /\ io' = q
TpmDisableResult(m, q) ==
    ui' = [ui EXCEPT !.pin = FALSE, !.mode = "Password", !.preferred = TRUE] /\ io' = q

\* on_unlock_event: without an account to unlock it only asks for the config.
OnUnlockEvent(pin, q) ==
    IF ui.account
    THEN /\ ui' = [ui EXCEPT !.view = "Unlock",
                      !.mode = IF pin THEN "Pin" ELSE "Password",
                      !.preferred = @ /\ ~pin]
         /\ io' = q
    ELSE io' = Ask(q, <<"GetConfig">>) /\ UNCHANGED ui

\* A mutant that wipes on Locked and asks for nothing.
LockedEventOnly(q) == ui' = WipeForLock(ui) /\ io' = q
LockedEvent(q) == ui' = WipeForLock(ui) /\ io' = Ask(q, <<"GetConfig">>)
EventReceived(e, q) ==
    \/ e = "Locked" /\ LockedEvent(q)
    \/ e = "PinRequested" /\ OnUnlockEvent(TRUE, q)
    \/ e = "UnlockRequested" /\ OnUnlockEvent(FALSE, q)
    \/ e = "Unlocked" /\ ui' = [ui EXCEPT !.view = "Vault"]
                      /\ io' = PostMessage(q, RefreshStateInternal)
    \/ e = "VaultChanged" /\ UNCHANGED ui /\ io' = PostMessage(q, RefreshStateInternal)
    \/ /\ e = "OpenEntry" /\ io' = q
       /\ ui' = [ui EXCEPT !.link = IF ui.view = "Vault" THEN @
                                    ELSE IF IsUnlocked(ui.view) THEN "settings"
                                    ELSE "locked"]

Handle ==
    /\ io.inbox # <<>>
    /\ LET m == Head(io.inbox)
           q == Taken(io)
       IN \/ m.kind = "Event" /\ EventReceived(m.event, q)
          \/ m.kind = "Refresh" /\ Refresh(q)
          \/ m.kind = "GetConfig" /\ ConfigReceived(m, q)
          \/ m.kind = "CheckTpm" /\ TpmStatusReceived(m, q)
          \/ m.kind = "GetEntries" /\ EntriesReceived(m, q)
          \/ m.kind \in {"Login", "Unlock"} /\ m.by # "popup" /\ AuthResult(m, q)
          \/ m.kind = "Unlock" /\ m.by = "popup" /\ AppletUnlockResult(m, q)
          \/ m.kind = "UnlockWithPin" /\ PinResult(m, q)
          \/ m.kind = "Lock" /\ LockResult(q)
          \/ m.kind = "Logout" /\ LogoutResult(q)
          \/ m.kind = "SetupTpmPin" /\ TpmSetupResult(m, q)
          \/ m.kind = "DisableTpmPin" /\ TpmDisableResult(m, q)
    /\ UNCHANGED <<agent, events, ops>>

-----------------------------------------------------------------------------
(* The user: what each view offers, and what a click or a submit does.  A  *)
(* form is filled and submitted in one step.                               *)

\* view_auth: the setup form, the PIN form, a spinner or the password form.
SetupForm == {"LoginSubmitted"}
PinForm == {"PinSubmitted", "UseMasterPassword"}
PasswordForm == {"UnlockSubmitted", "LogoutClicked"}
AuthForm(u) ==
    IF u.view = "Setup" THEN SetupForm
    ELSE IF u.mode = "Pin" /\ u.pin THEN PinForm
    ELSE IF ~u.tpm THEN {} ELSE PasswordForm
\* view_sidebar; the restore form stands there while the session is expired.
RestoreForm == {"SessionRestoreSubmitted"}
Sidebar == {"SelectEntry", "LockClicked", "LogoutClicked", "SettingsViewClicked",
            "GeneratorViewClicked"} \cup RestoreForm
\* view_settings: the form behind the PIN toggle.
SettingsForm(u) ==
    IF ~u.tpm THEN {} ELSE IF u.pin THEN {"TpmDisableSubmitted"} ELSE {"TpmSetupSubmitted"}
ViewContent(u) ==
    CASE u.view = "Loading" -> {}
      [] u.view \in {"Setup", "Unlock"} -> AuthForm(u)
      [] u.view \in {"Vault", "PasswordGenerator"} -> Sidebar
      [] u.view = "Settings" -> Sidebar \cup SettingsForm(u)
\* unlock::view of the popup, which shows the PIN form without a known PIN.
PopupUnlock(u) ==
    IF ~u.tpm THEN {}
    ELSE IF u.mode = "Pin" THEN {"PinSubmitted", "UseMasterPassword"} ELSE {"UnlockSubmitted"}
HeaderRow(u) == {"LogoutClicked"} \cup (IF IsUnlocked(u.view) THEN {"LockClicked"} ELSE {})
\* applet_popup_content: an unlocked vault's search and a login link are left out.
PopupContent(u) ==
    HeaderRow(u) \cup (IF IsUnlocked(u.view) \/ u.view = "Setup" THEN {} ELSE PopupUnlock(u))
Offered(u) ==
    IF u.run = "window" THEN ViewContent(u)
    ELSE {"AppletIconClicked"} \cup (IF u.popup THEN PopupContent(u) ELSE {})

Send(kind, by) == io' = AskFor(io, <<kind>>, by)
SurfaceOf(u) == IF u.run = "window" THEN "window" ELSE "popup"

\* LoginSubmitted with the PIN toggle on or off; it is offered with a TPM.
LoginSubmitted(pin) ==
    /\ "LoginSubmitted" \in Offered(ui) /\ (pin => ui.tpm)
    /\ ui' = [ui EXCEPT !.loginPin = pin] /\ Send("Login", "login")
\* UnlockSubmitted and AppletUnlockSubmitted, with the PIN field filled or not.
UnlockSubmitted(pin) ==
    /\ "UnlockSubmitted" \in Offered(ui) /\ Send("Unlock", SurfaceOf(ui))
    /\ ui' = [ui EXCEPT !.unlockPin = pin, !.applyPin = @ \/ ui.run = "window"]
\* MainWindowPinSubmitted and AppletPinSubmitted.
PinSubmitted ==
    /\ "PinSubmitted" \in Offered(ui) /\ Send("UnlockWithPin", SurfaceOf(ui))
    /\ UNCHANGED ui
AppletUseMasterPasswordInstead ==
    /\ "UseMasterPassword" \in Offered(ui) /\ UNCHANGED io
    /\ ui' = [ui EXCEPT !.mode = "Password", !.preferred = TRUE]
\* SessionRestoreSubmitted: a plain unlock of the session the server ended.
SessionRestoreSubmitted ==
    "SessionRestoreSubmitted" \in Offered(ui) /\ Send("Unlock", "restore") /\ UNCHANGED ui
LockClicked == "LockClicked" \in Offered(ui) /\ Send("Lock", "app") /\ UNCHANGED ui
LogoutClicked == "LogoutClicked" \in Offered(ui) /\ Send("Logout", "app") /\ UNCHANGED ui
SettingsViewClicked ==
    /\ "SettingsViewClicked" \in Offered(ui) /\ Send("CheckTpm", "app")
    /\ ui' = [ui EXCEPT !.view = "Settings"]
\* GeneratorViewClicked; what it fetches is in Generator.
GeneratorViewClicked ==
    /\ "GeneratorViewClicked" \in Offered(ui) /\ UNCHANGED io
    /\ ui' = [ui EXCEPT !.view = "PasswordGenerator"]
TpmSetupSubmitted ==
    "TpmSetupSubmitted" \in Offered(ui) /\ Send("SetupTpmPin", "app") /\ UNCHANGED ui
TpmDisableSubmitted ==
    "TpmDisableSubmitted" \in Offered(ui) /\ Send("DisableTpmPin", "app") /\ UNCHANGED ui
\* SelectEntry: here only that it shows the vault again.
SelectEntry ==
    "SelectEntry" \in Offered(ui) /\ ui' = [ui EXCEPT !.view = "Vault"] /\ UNCHANGED io
\* AppletIconClicked (and WindowClosed): opening the popup asks for the config.
AppletIconClicked ==
    /\ "AppletIconClicked" \in Offered(ui) /\ ui' = [ui EXCEPT !.popup = ~@]
    /\ IF ui.popup THEN UNCHANGED io ELSE Send("GetConfig", "app")

User ==
    /\ MayStart /\ ops' = ops + 1
    /\ \/ \E pin \in BOOLEAN : LoginSubmitted(pin) \/ UnlockSubmitted(pin)
       \/ PinSubmitted \/ AppletUseMasterPasswordInstead \/ SessionRestoreSubmitted
       \/ LockClicked \/ LogoutClicked \/ SettingsViewClicked \/ GeneratorViewClicked
       \/ TpmSetupSubmitted \/ TpmDisableSubmitted \/ SelectEntry \/ AppletIconClicked
    /\ UNCHANGED <<agent, events>>

Next == Serve \/ Subscribe \/ Post \/ Handle \/ Elsewhere \/ User
Spec == Init /\ [][Next]_vars

-----------------------------------------------------------------------------
(* Properties.                                                             *)

\* Once every reply and event is in, a window that shows the vault shows an
\* unlocked agent's, whatever was locked, unlocked or logged out meanwhile.
\* The one exception the code has is a config read before the subscription
\* was open (lifecycle.rs ConfigReceived and EventReceived).
VaultShownOnlyUnlocked ==
    Settled /\ ~ui.early /\ IsUnlocked(ui.view) => ~agent.locked

\* ... and its list is the agent's: an outstanding reply of an earlier search
\* never wins over the last refresh (search_id in EntriesReceived).
ListSettles ==
    Settled /\ ~ui.early /\ ui.view = "Vault" => ui.list = agent.list

\* A deep link that arrived on the lock screen is opened with the vault.
DeepLinkNotLost ==
    Settled /\ ~ui.early /\ ui.view = "Vault" => ui.link # "locked"

\* "use master password instead" stays the form until the agent asks for a PIN.
PreferenceKept == ui.preferred => ui.mode = "Password"
=============================================================================
