----------------------------- MODULE VaultPane -----------------------------
(***************************************************************************)
(* The vault window's list and detail pane: selection, secrets fetched on  *)
(* demand, master-password reprompts, the edit buffer and deletion, while  *)
(* answers arrive for what the user has meanwhile left, other clients      *)
(* delete entries and the agent locks.                                     *)
(*                                                                         *)
(* Pins, the search box and the session's forms (AppletSession) are left   *)
(* out; a secret is named by its entry and field.  A dialog stands on top  *)
(* of the pane and does not stop clicks beside it.                         *)
(***************************************************************************)
EXTENDS AgentLink, FiniteSets

CONSTANTS
    Entries,      \* entries of the vault
    Gated,        \* those with master_password_reprompt
    SecureNotes,  \* those of type SecureNote
    Nil,          \* Rust's None
    MaxOps,       \* bound on the user's and the other clients' operations
    MaxPending    \* they start one only with fewer requests and messages pending

ASSUME EntriesAssumption == Gated \subseteq Entries /\ SecureNotes \subseteq Entries
ASSUME NilAssumption == Nil \notin Entries

VARIABLES
    agent,        \* locked, the entries it has
    events,       \* the subscription's stream
    link,         \* AgentLink
    pane,         \* the fields of CosmardenApp that the pane shows
    ops
paneVars == <<agent, events, link, pane, ops>>

Draft == "new"    \* the placeholder id of an entry that is being added
FieldsOf(id) == IF id \in SecureNotes THEN {"Notes"} ELSE {"Password", "TOTP", "Notes"}
NoEntry == [id |-> Nil, loaded |-> {}]
\* What GetEntryMeta answers, a redacted entry, and GetEntry, a full one.
Meta(id) == [id |-> id, loaded |-> {}]
Full(id) == [id |-> id, loaded |-> {<<id, f>> : f \in FieldsOf(id) \ {"TOTP"}}]
NoIntent == [kind |-> "none", field |-> "none"]

Request(kind, id, field, copy, pw) ==
    [kind |-> kind, id |-> id, field |-> field, copy |-> copy, pw |-> pw]
FetchList == Request("List", Nil, "none", FALSE, FALSE)
FetchMeta(id) == Request("Meta", id, "none", FALSE, FALSE)
FetchFull(id, pw) == Request("Edit", id, "none", FALSE, pw)
FetchSecret(id, field, copy, pw) == Request("Secret", id, field, copy, pw)

PaneInit ==
    /\ agent = [locked |-> FALSE, ids |-> Entries]
    /\ events = <<>> /\ link = NewLink(<<>>)
    /\ pane = [view |-> "Vault", list |-> Entries, selected |-> Nil, shown |-> NoEntry,
               editing |-> Nil, code |-> Nil, revealed |-> {}, reprompt |-> Nil,
               intent |-> NoIntent, confirm |-> Nil, deleting |-> FALSE]
    /\ ops = 0

Settled == Idle(link) /\ events = <<>>

-----------------------------------------------------------------------------
(* The agent.                                                              *)

\* handle_get_sidebar_entries and handle_sync.
Lists(m, code, ids) == m.kind \in {"List", "Sync"} /\ code = "ok" /\ ids = agent.ids
\* verify_reprompt: a gated entry is only opened with the master password.
Verified(m) == IF m.id \in Gated /\ ~m.pw THEN "reprompt_required" ELSE "ok"
\* What each handler answers, and the entries it leaves.
Handles(m, code, ids) ==
    \/ Lists(m, code, ids)
    \/ /\ m.kind \in {"Meta", "Edit", "Secret"} /\ ids = agent.ids
       /\ code = IF m.id \notin agent.ids THEN "err" ELSE IF m.kind = "Meta" THEN "ok" ELSE Verified(m)
    \/ m.kind = "Save" /\ code \in {"ok", "err"} /\ ids = agent.ids
    \/ m.kind = "Delete" /\ m.id \in agent.ids /\ code = "ok" /\ ids = agent.ids \ {m.id}
    \/ m.kind = "Delete" /\ code = "err" /\ ids = agent.ids
Serve ==
    /\ CanServe(link)
    /\ LET m == Head(link.waiting)
       IN \E code \in {"ok", "err", "locked", "reprompt_required"}, ids \in SUBSET agent.ids :
            /\ IF agent.locked THEN code = "locked" /\ ids = agent.ids ELSE Handles(m, code, ids)
            /\ agent' = [agent EXCEPT !.ids = ids]
            /\ link' = Answered(link, [req |-> m, code |-> code, ids |-> ids])
    /\ UNCHANGED <<events, pane, ops>>

Post ==
    /\ \/ link.reply # <<>> /\ UNCHANGED events /\ link' = Delivered(link)
       \/ /\ events # <<>> /\ events' = Tail(events)
          /\ link' = PostMessage(link, [event |-> Head(events)])
    /\ UNCHANGED <<agent, pane, ops>>

MayStart == ops < MaxOps /\ Pending(link) < MaxPending
\* Another client, another device or the timer.
Elsewhere ==
    /\ MayStart /\ ops' = ops + 1
    /\ \/ agent' = [agent EXCEPT !.locked = TRUE] /\ events' = Append(events, "Locked")
       \/ agent' = [agent EXCEPT !.locked = FALSE] /\ events' = Append(events, "Unlocked")
       \/ /\ ~agent.locked /\ events' = Append(events, "VaultChanged")
          /\ \E id \in agent.ids : agent' = [agent EXCEPT !.ids = @ \ {id}]
    /\ UNCHANGED <<link, pane>>

-----------------------------------------------------------------------------
(* The application's message handlers; `q` is the rest of the link.        *)

\* search_id + 1: outstanding list answers will be ignored.
NewSearch(q) ==
    LET IsList(m) == "req" \in DOMAIN m /\ m.req.kind = "List"
        Current(s) == Keeping(s, {i \in DOMAIN s : ~IsList(s[i])})
    IN [waiting |-> Keeping(q.waiting, {i \in DOMAIN q.waiting : q.waiting[i].kind # "List"}),
        reply |-> Current(q.reply), inbox |-> Current(q.inbox)]
\* A mutant that lets a list answer on its way do for this refresh too.
RefreshCoalesced(q) == IF NewSearch(q) # q THEN q ELSE Enqueue(q, <<FetchList>>)
Refresh(q) == Enqueue(NewSearch(q), <<FetchList>>)

Deselected(p) == [p EXCEPT !.selected = Nil, !.shown = NoEntry, !.editing = Nil]
\* wipe_session_secrets; the dialogs stay.
Wipe(p) == [Deselected(p) EXCEPT !.view = "Unlock", !.list = {}, !.code = Nil,
                                 !.revealed = {}, !.intent = NoIntent]

Select(p, id) ==
    [p EXCEPT !.selected = id, !.shown = NoEntry, !.editing = Nil, !.code = Nil,
              !.intent = NoIntent, !.view = "Vault"]

\* EntryReceived; a secure note's body is fetched at once.
EntryReceived(m, q) ==
    IF m.code = "ok"
    THEN /\ pane' = [pane EXCEPT !.shown = Meta(m.req.id), !.reprompt = Nil]
         /\ link' = IF m.req.id \in SecureNotes
                    THEN Enqueue(q, <<FetchSecret(m.req.id, "Notes", FALSE, FALSE)>>) ELSE q
    ELSE UNCHANGED pane /\ link' = q

\* The payload of an answer goes to whatever is shown by now.
Filled(p, m) ==
    CASE m.req.field = "TOTP" -> [p EXCEPT !.code = m.req.id]
      [] m.req.field = "Password" ->
           [p EXCEPT !.shown.loaded = IF p.shown.id \in SecureNotes \cup {Nil} THEN @
                                      ELSE @ \cup {<<m.req.id, "Password">>}]
      [] OTHER -> [p EXCEPT !.shown = Full(m.req.id)]
Intent(m) == [kind |-> IF m.req.copy THEN "Copy" ELSE "Reveal", field |-> m.req.field]
OnDemandSecretLoaded(m, q) ==
    /\ link' = q
    /\ pane' = CASE m.code = "ok" ->
                      [Filled(pane, m) EXCEPT
                         !.revealed = @ \cup (IF pane.selected = Nil THEN {}
                                              ELSE {<<pane.selected, m.req.field>>}),
                         !.reprompt = Nil, !.intent = NoIntent]
                 [] m.code = "reprompt_required" ->
                      [pane EXCEPT !.reprompt = pane.selected, !.intent = Intent(m)]
                 [] OTHER -> pane

EditEntryLoaded(m, q) ==
    /\ link' = q
    /\ pane' = CASE m.code = "ok" ->
                      [pane EXCEPT !.editing = m.req.id, !.reprompt = Nil, !.intent = NoIntent]
                 [] m.code = "reprompt_required" ->
                      [pane EXCEPT !.reprompt = pane.selected,
                                   !.intent = [kind |-> "Edit", field |-> "none"]]
                 [] OTHER -> pane

\* SaveEditResult: the saved entry is selected again.
SaveEditResult(m, q) ==
    IF m.code = "ok"
    THEN /\ pane' = [pane EXCEPT !.editing = Nil,
                                 !.shown = IF @.id = Draft THEN NoEntry ELSE @]
         /\ link' = IF pane.selected = Nil THEN Refresh(q)
                    ELSE PostMessage(Refresh(q), [event |-> "Reselect", id |-> pane.selected])
    ELSE UNCHANGED pane /\ link' = q

DeleteEntryResult(m, q) ==
    LET p == [pane EXCEPT !.deleting = FALSE]
    IN IF m.code = "ok" THEN pane' = Deselected(p) /\ link' = Refresh(q)
       ELSE pane' = p /\ link' = q
SyncResult(m, q) == UNCHANGED pane /\ link' = IF m.code = "ok" THEN Refresh(q) ELSE q

\* A mutant that leaves a vanished entry selected.
EntriesReceivedKeeps(m, q) ==
    link' = q /\ pane' = [pane EXCEPT !.list = IF m.code = "ok" THEN m.ids ELSE {}]
\* EntriesReceived: a selected entry that has gone leaves the pane.
EntriesReceived(m, q) ==
    /\ link' = q
    /\ LET p == [pane EXCEPT !.list = IF m.code = "ok" THEN m.ids ELSE {}]
       IN pane' = IF m.code = "ok" /\ pane.selected # Nil /\ pane.selected \notin m.ids
                  THEN Deselected(p) ELSE p

SelectEntry(id, q) == pane' = Select(pane, id) /\ link' = Enqueue(q, <<FetchMeta(id)>>)
EventReceived(m, q) ==
    \/ m.event = "Locked" /\ pane' = Wipe(pane) /\ link' = q
    \/ /\ m.event = "Unlocked" /\ pane' = [pane EXCEPT !.view = "Vault"]
       /\ link' = Refresh(q)
    \/ m.event = "VaultChanged" /\ UNCHANGED pane
       /\ link' = IF pane.view = "Vault" THEN Refresh(q) ELSE q
    \/ m.event = "Reselect" /\ SelectEntry(m.id, q)

Handle ==
    /\ link.inbox # <<>>
    /\ LET m == Head(link.inbox)
           q == Taken(link)
       IN IF "event" \in DOMAIN m THEN EventReceived(m, q)
          ELSE \/ m.req.kind = "List" /\ EntriesReceived(m, q)
               \/ m.req.kind = "Meta" /\ EntryReceived(m, q)
               \/ m.req.kind = "Secret" /\ OnDemandSecretLoaded(m, q)
               \/ m.req.kind = "Edit" /\ EditEntryLoaded(m, q)
               \/ m.req.kind = "Save" /\ SaveEditResult(m, q)
               \/ m.req.kind = "Delete" /\ DeleteEntryResult(m, q)
               \/ m.req.kind = "Sync" /\ SyncResult(m, q)
    /\ UNCHANGED <<agent, events, ops>>

-----------------------------------------------------------------------------
(* The user.                                                               *)

Send(r) == link' = Enqueue(link, <<r>>)
\* view_entry_details: a shown entry that is not being edited.
Detail == pane.view = "Vault" /\ pane.shown.id # Nil /\ pane.editing = Nil
Editor == pane.view = "Vault" /\ pane.shown.id # Nil /\ pane.editing # Nil

AddEntryRequested ==
    /\ pane.view = "Vault" /\ UNCHANGED link
    /\ pane' = [pane EXCEPT !.shown = Meta(Draft), !.editing = Draft, !.selected = Nil]
EditEntry == Detail /\ Send(FetchFull(pane.shown.id, FALSE)) /\ UNCHANGED pane
CancelEdit == Editor /\ pane' = [pane EXCEPT !.editing = Nil] /\ UNCHANGED link
SaveEdit == Editor /\ Send(Request("Save", pane.editing, "none", FALSE, FALSE)) /\ UNCHANGED pane
\* The editor's button asks about the entry that is shown behind it.
DeleteEntry ==
    Editor /\ ~pane.deleting /\ pane' = [pane EXCEPT !.confirm = pane.shown.id] /\ UNCHANGED link
ConfirmDelete ==
    /\ pane.confirm # Nil /\ pane' = [pane EXCEPT !.confirm = Nil, !.deleting = TRUE]
    /\ Send(Request("Delete", pane.confirm, "none", FALSE, FALSE))
CancelDelete == pane.confirm # Nil /\ pane' = [pane EXCEPT !.confirm = Nil] /\ UNCHANGED link

\* The rows of the pane, one view_field each, and secret_is_loaded of one.
Rows == IF Detail THEN FieldsOf(pane.shown.id) ELSE {}
IsLoaded(field) == \E s \in pane.shown.loaded : s[2] = field
ToggleRevealField(field) ==
    LET key == <<pane.shown.id, field>>
    IN IF key \in pane.revealed
       THEN /\ pane' = [pane EXCEPT !.revealed = @ \ {key},
                                    !.code = IF field = "TOTP" THEN Nil ELSE @]
            /\ UNCHANGED link
       ELSE IF IsLoaded(field)
       THEN pane' = [pane EXCEPT !.revealed = @ \cup {key}] /\ UNCHANGED link
       ELSE UNCHANGED pane /\ Send(FetchSecret(pane.shown.id, field, FALSE, FALSE))
\* Copying what is loaded goes to the clipboard at once.
CopySecretField(field) ==
    /\ ~IsLoaded(field) /\ ~(field = "TOTP" /\ pane.code # Nil)
    /\ Send(FetchSecret(pane.shown.id, field, TRUE, FALSE)) /\ UNCHANGED pane

\* view_dialogs: one dialog at a time, the deletion's first.
RepromptDialog == pane.reprompt # Nil /\ pane.confirm = Nil
SubmitReprompt ==
    /\ RepromptDialog /\ UNCHANGED pane
    /\ Send(IF pane.intent.kind \in {"Reveal", "Copy"}
            THEN FetchSecret(pane.reprompt, pane.intent.field, pane.intent.kind = "Copy", TRUE)
            ELSE FetchFull(pane.reprompt, TRUE))
CancelReprompt ==
    /\ RepromptDialog /\ UNCHANGED link
    /\ pane' = [pane EXCEPT !.reprompt = Nil, !.intent = NoIntent]
SyncClicked ==
    pane.view = "Vault" /\ Send(Request("Sync", Nil, "none", FALSE, FALSE)) /\ UNCHANGED pane

User ==
    /\ MayStart /\ ops' = ops + 1
    /\ \/ \E id \in pane.list : pane.view = "Vault" /\ SelectEntry(id, link)
       \/ AddEntryRequested \/ EditEntry \/ CancelEdit \/ SaveEdit
       \/ DeleteEntry \/ ConfirmDelete \/ CancelDelete
       \/ \E f \in Rows : ToggleRevealField(f) \/ CopySecretField(f)
       \/ SubmitReprompt \/ CancelReprompt \/ SyncClicked
    /\ UNCHANGED <<agent, events>>

PaneNext == Serve \/ Post \/ Handle \/ Elsewhere \/ User
PaneSpec == PaneInit /\ [][PaneNext]_paneVars

-----------------------------------------------------------------------------
(* Properties.                                                             *)

\* Once every answer and event is in, an open vault lists the entries the
\* agent has: no answer of an earlier search wins (search_id) ...
PaneListFresh ==
    Settled /\ pane.view = "Vault" /\ ~agent.locked => pane.list = agent.ids

\* ... and nothing that was deleted is still selected, whatever was clicked
\* while the list was on its way (EntriesReceived).
SelectionExists ==
    Settled /\ pane.view = "Vault" /\ ~agent.locked
        => pane.selected \in agent.ids \cup {Nil}
=============================================================================
