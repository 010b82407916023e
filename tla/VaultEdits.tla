----------------------------- MODULE VaultEdits -----------------------------
(***************************************************************************)
(* Vault edits: a client reads an entry, edits the copy and saves it, pins *)
(* and deletes entries, while syncs and other edits are in flight and      *)
(* another device changes the same account.                                *)
(*                                                                         *)
(* A task is a request inside the agent; it waits twice, for the answer to *)
(* its write and for the answer to the sync that follows.  The agent runs  *)
(* on one thread, so everything between two waits is one step.  Tokens and *)
(* their refresh are in VaultSession: here a request of a locked agent     *)
(* fails and any other request is answered or fails.                       *)
(***************************************************************************)
EXTENDS EntryCodec, FiniteSets

NoId == "new-"    \* the placeholder id of an entry not yet created

\* What a client edits: a slot, the custom fields of a name, or the head.
SlotRow(s) == <<"slot", s>>
FieldRow(n) == <<"field", n>>
NotesRow == <<"notes", "">>
NameRow == <<"name", "">>

CONSTANTS
    Ids,         \* the ids the server gives to entries
    Tasks,       \* the requests that may be in flight together
    Types,       \* the entry types of the run
    Rows,        \* the rows the client edits
    Texts,       \* what the client types: "new", or "" to clear
    MaxOps       \* bound on the writes and other devices' changes

ASSUME IdsAssumption == NoId \notin Ids
ASSUME TypesAssumption == Types \subseteq EntryTypes /\ Types # {}
ASSUME TextsAssumption == Texts \subseteq {"", "new"}
ASSUME MaxOpsAssumption == MaxOps \in Nat
\* The two custom fields that the agent keeps in step with an SSH key are not
\* edited by hand.
ASSUME RowsAssumption ==
    \A row \in Rows :
        \/ row \in {NameRow, NotesRow}
        \/ row = SlotRow(row[2])
        \/ row = FieldRow(row[2]) /\ row[2] \notin {"private_key", "public_key"}

VARIABLES
    server,      \* the ciphers on the server
    serverOrg,   \* the server lists the organization in the profile
    db,          \* State::db: the entries of the last applied sync
    protOrg,     \* Db::protected_org_keys has the organization
    orgKeys,     \* State::org_keys has it
    unlocked,    \* State::keys
    pinned,      \* State::pinned_ids
    draft,       \* the client's edit buffer
    task,        \* the requests in flight
    ops          \* the operations so far, up to MaxOps
vars == <<server, serverOrg, db, protOrg, orgKeys, unlocked, pinned, draft,
          task, ops>>

Gone == [Missing EXCEPT !.trashed = TRUE]    \* a deleted id, never given again
NoDraft == [open |-> FALSE, id |-> NoId, entry |-> Missing, base |-> Missing,
            full |-> TRUE, dirty |-> {}]
\* `stored` and `edit` are the agent's copy and the client's buffer when the
\* request was built: the properties compare the request with them.
NoTask == [op |-> "idle", id |-> NoId, fav |-> FALSE, req |-> Missing,
           snap |-> [i \in Ids |-> Missing], snapOrg |-> FALSE,
           stored |-> Missing, edit |-> NoDraft,
           orgKeys |-> FALSE]
Ops == {"idle", "put", "post", "delete", "fav", "sync", "answered"}

\* An entry with every slot filled, sealed with the user's key or with an
\* item key that the user's key seals.  Two custom fields have the same name,
\* and one has the label of a login's password.
Stocked(ty, itemKey) ==
    LET k == IF itemKey THEN "item" ELSE "user"
        v == Enc(k, Plain("old"))
    IN [Blank(ty) EXCEPT
           !.live = TRUE, !.folder = TRUE, !.history = {"h"},
           !.reprompt = itemKey,
           !.key = IF itemKey THEN Enc("user", Plain("item")) ELSE None,
           !.name = v, !.notes = v, !.data = [s \in Slots[ty] |-> v],
           !.match = IF ty = "Login" THEN "Never" ELSE "none",
           !.fields = <<[name |-> Enc(k, Plain("f1")), value |-> v, ty |-> "Hidden"],
                        [name |-> Enc(k, Plain("f1")), value |-> v, ty |-> "Text"],
                        [name |-> Enc(k, Label["password"]), value |-> v, ty |-> "Hidden"]>>]

Init ==
    /\ server \in [Ids -> {Missing} \cup
                  {Stocked(ty, itemKey) : ty \in Types, itemKey \in BOOLEAN}]
    /\ db = [i \in Ids |-> Missing]    \* the vault was empty at login
    /\ serverOrg = FALSE /\ protOrg = FALSE /\ orgKeys = FALSE
    /\ unlocked = TRUE
    /\ pinned = {} /\ draft = NoDraft
    /\ task = [t \in Tasks |-> NoTask]
    /\ ops = 0

-----------------------------------------------------------------------------
(* The client.                                                             *)

Clear(e, orgKs) == Decrypt(e, orgKs)

\* handle_get_entry_meta and handle_get_entries: a redacted copy.
GetEntryMeta(id) ==
    /\ unlocked /\ db[id].live /\ ~draft.open /\ ops < MaxOps
    /\ draft' = [NoDraft EXCEPT !.open = TRUE, !.id = id, !.full = FALSE,
                    !.entry = Redact(Clear(db[id], orgKeys)),
                    !.base = Clear(db[id], orgKeys)]
    /\ UNCHANGED <<server, serverOrg, db, protOrg, orgKeys, unlocked,
                   pinned, task, ops>>

\* verify_reprompt: an entry with a reprompt needs the master password.
RepromptPassed(e, password) == e.reprompt => password

\* handle_get_entry: the whole entry.
GetEntry(id, password) ==
    /\ unlocked /\ db[id].live /\ ~draft.open /\ ops < MaxOps
    /\ RepromptPassed(db[id], password)
    /\ draft' = [NoDraft EXCEPT !.open = TRUE, !.id = id,
                    !.entry = Clear(db[id], orgKeys),
                    !.base = Clear(db[id], orgKeys)]
    /\ UNCHANGED <<server, serverOrg, db, protOrg, orgKeys, unlocked,
                   pinned, task, ops>>

\* AddEntryRequested and NewEntryTypeChanged.
NewDraft(ty, x) ==
    /\ ~draft.open /\ ops < MaxOps /\ \E id \in Ids : server[id] = Missing
    /\ draft' = [NoDraft EXCEPT !.open = TRUE,
                    !.entry = [Blank(ty) EXCEPT !.live = TRUE,
                        !.name = Plain("new"), !.notes = Plain(x),
                        !.data = [s \in Slots[ty] |-> Plain(x)],
                        !.match = IF ty = "Login" THEN "Domain" ELSE "none"]]
    /\ UNCHANGED <<server, serverOrg, db, protOrg, orgKeys, unlocked,
                   pinned, task, ops>>

\* EditFieldChanged: the slot with the label typed into, of those the edit form
\* knows, and the first custom field of that name.
Editable ==
    [Login |-> {"username", "password"}, SshKey |-> SshSlots,
     Card |-> {"number", "cardholder_name", "brand"},
     Identity |-> {"username", "email"}, SecureNote |-> {},
     BankAccount |-> {}, DriversLicense |-> {}, Passport |-> {}]
SetFirstNamed(fields, label, v) ==
    [i \in DOMAIN fields |->
        IF /\ fields[i].name = label
           /\ \A j \in DOMAIN fields : fields[j].name = label => i <= j
        THEN [fields[i] EXCEPT !.value = v] ELSE fields[i]]
EditFieldChanged(row, x) ==
    /\ draft.open /\ draft.id # NoId /\ draft.dirty = {}
    /\ \/ \E s \in Editable[draft.entry.ty] :
             /\ row = SlotRow(s)
             /\ draft' = [draft EXCEPT
                   !.entry.data[s] = Plain(x),
                   !.entry.fields = SetFirstNamed(@, Label[s], Plain(x)),
                   !.dirty = {row, FieldRow(Label[s].text)}]
       \/ /\ row = FieldRow("f1")
          /\ \E i \in DOMAIN draft.entry.fields : draft.entry.fields[i].name = Plain("f1")
          /\ draft' = [draft EXCEPT
                !.entry.fields = SetFirstNamed(@, Plain("f1"), Plain(x)),
                !.dirty = {row}]
       \/ /\ row = NotesRow    \* NotesAction
          /\ draft' = [draft EXCEPT !.entry.notes = Plain(x), !.dirty = {row}]
       \/ /\ row = NameRow    \* EditNameChanged
          /\ draft' = [draft EXCEPT !.entry.name = Plain(x), !.dirty = {row}]
    /\ UNCHANGED <<server, serverOrg, db, protOrg, orgKeys, unlocked,
                   pinned, task, ops>>
CancelEdit ==
    /\ draft.open /\ draft' = NoDraft
    /\ UNCHANGED <<server, serverOrg, db, protOrg, orgKeys, unlocked,
                   pinned, task, ops>>

\* SaveEdit: blank notes become None.
Saved(e) == [e EXCEPT !.notes = NonEmpty(@)]

-----------------------------------------------------------------------------
(* The agent's handlers up to their first wait.                            *)

\* An operation that counts against MaxOps.
Counted == /\ ops < MaxOps /\ ops' = ops + 1
Idle(t) == task[t].op = "idle"

Started(t, r) == task' = [task EXCEPT ![t] = r]

\* handle_update_entry, with the entry the client sends.
UpdateWith(t, id, sent, edit) ==
    LET merged == IF db[id].live
                  THEN MergeRedactedSecrets(sent, Clear(db[id], orgKeys))
                  ELSE sent
        e == SyncSshFields(merged)
    IN IF PutKeyOpens(e)
       THEN Started(t, [NoTask EXCEPT !.op = "put", !.id = id,
                          !.req = PutRequest(e), !.stored = db[id],
                          !.edit = edit, !.orgKeys = orgKeys])
       ELSE UNCHANGED task    \* the write could not even be sent
HandleUpdateEntry(t) ==
    /\ Idle(t) /\ Counted /\ draft.open /\ draft.id # NoId /\ unlocked
    /\ UpdateWith(t, draft.id, Saved(draft.entry), draft)
    /\ draft' = IF task'[t].op = "put" THEN NoDraft ELSE draft
    /\ UNCHANGED <<server, serverOrg, db, protOrg, orgKeys, unlocked,
                   pinned>>

\* The CLI's edit command sends back what GetEntry answered, with no master
\* password for a reprompt, and its arguments put in as they are typed.
CliArguments ==
    [ty \in EntryTypes |->
        CASE ty = "Login" -> {"username", "password"}
          [] ty = "SshKey" -> {"private_key", "public_key"}
          [] OTHER -> {}]
CliSet(e, row, x, ty) ==
    CASE row = NameRow -> [e EXCEPT !.name = Plain(x)]
      [] row = NotesRow -> [e EXCEPT !.notes = Plain(x)]
      [] row[1] = "field" -> [e EXCEPT !.fields = SetField(@, row[2], Plain(x), ty)]
      [] OTHER -> [e EXCEPT !.data[row[2]] = Plain(x)]
CliEdit(t, row, x, ty) ==
    LET sent == CliSet(draft.entry, row, x, ty)
    IN  /\ Idle(t) /\ Counted /\ unlocked
        /\ draft.open /\ draft.id # NoId /\ draft.full /\ draft.dirty = {}
        /\ RepromptPassed(draft.base, FALSE)
        /\ row[1] = "slot" => row[2] \in CliArguments[draft.entry.ty]
        /\ row[1] # "field" => ty = "Text"    \* only --secret-field is Hidden
        /\ UpdateWith(t, draft.id, sent,
                      [draft EXCEPT !.open = FALSE, !.entry = sent, !.dirty = {row}])
        /\ draft' = NoDraft
        /\ UNCHANGED <<server, serverOrg, db, protOrg, orgKeys, unlocked,
                       pinned>>

\* handle_update_login_password: the agent decrypts its own copy.
HandleUpdateLoginPassword(t, id) ==
    /\ Idle(t) /\ Counted /\ unlocked /\ db[id].live /\ db[id].ty = "Login"
    /\ LET e == [Clear(db[id], orgKeys) EXCEPT !.data["password"] = Plain("new")]
       IN UpdateWith(t, id, e,
             [NoDraft EXCEPT !.id = id, !.entry = e, !.base = Clear(db[id], orgKeys),
                             !.dirty = {SlotRow("password")}])
    /\ UNCHANGED <<server, serverOrg, db, protOrg, orgKeys, unlocked,
                   pinned, draft>>

\* save_action of a new entry, a handle_add_* and add_entry_to_server.
HandleAddEntry(t, id) ==
    /\ Idle(t) /\ Counted /\ draft.open /\ draft.id = NoId /\ unlocked
    /\ server[id] = Missing /\ \A u \in Tasks : ~(task[u].op = "post" /\ task[u].id = id)
    /\ Started(t, [NoTask EXCEPT !.op = "post", !.id = id, !.edit = draft,
                      !.req = PostRequest(HandleAdd(SaveAction(Saved(draft.entry))))])
    /\ draft' = NoDraft
    /\ UNCHANGED <<server, serverOrg, db, protOrg, orgKeys, unlocked,
                   pinned>>

\* handle_delete_entry.
HandleDeleteEntry(t, id) ==
    /\ Idle(t) /\ Counted /\ unlocked /\ db[id].live
    /\ task' = [task EXCEPT ![t] = [NoTask EXCEPT !.op = "delete", !.id = id]]
    /\ UNCHANGED <<server, serverOrg, db, protOrg, orgKeys, unlocked,
                   pinned, draft>>

\* set_favorite: memory and vault file first, then the server, with the
\* folder of the agent's copy.
SetFavorite(t, id, on) ==
    /\ Idle(t) /\ Counted /\ unlocked /\ db[id].live
    /\ db' = [db EXCEPT ![id].fav = on]
    /\ pinned' = IF on THEN pinned \cup {id} ELSE pinned \ {id}
    /\ task' = [task EXCEPT ![t] = [NoTask EXCEPT !.op = "fav", !.id = id,
                                       !.fav = on, !.stored = db[id]]]
    /\ UNCHANGED <<server, serverOrg, protOrg, orgKeys, unlocked, draft>>

\* handle_sync up to its request; a locked agent has no token.
SyncBegin(t) ==
    Started(t, IF unlocked THEN [NoTask EXCEPT !.op = "sync"] ELSE NoTask)
HandleSync(t) ==
    /\ Idle(t) /\ SyncBegin(t)
    /\ UNCHANGED <<server, serverOrg, db, protOrg, orgKeys, unlocked,
                   pinned, draft, ops>>

-----------------------------------------------------------------------------
(* The answers.                                                            *)

\* The external server: PUT replaces the cipher, the partial update sets
\* folder and favourite.
Apply(t, i) ==
    LET r == task[t]
    IN CASE r.op = "put" -> [r.req EXCEPT !.trashed = server[i].trashed]
         [] r.op = "post" -> r.req
         [] r.op = "delete" -> Gone
         [] r.op = "fav" -> [server[i] EXCEPT !.fav = r.fav, !.folder = r.stored.folder]

\* The write is done and acknowledged: a write of the entry is followed by
\* handle_sync, a favourite is not.
WriteDone(t) ==
    /\ task[t].op \in {"put", "post", "delete", "fav"}
    /\ task[t].op \in {"put", "fav"} => server[task[t].id].live
    /\ server' = [server EXCEPT ![task[t].id] = Apply(t, task[t].id)]
    /\ IF task[t].op = "fav"
       THEN Started(t, NoTask)
       ELSE SyncBegin(t)
    /\ UNCHANGED <<serverOrg, db, protOrg, orgKeys, unlocked, pinned,
                   draft, ops>>

\* The write failed; the server may have applied it all the same.  The
\* client still has its buffer (SaveEditResult).
WriteFailed(t) ==
    /\ task[t].op \in {"put", "post", "delete", "fav"}
    /\ \/ UNCHANGED server
       \/ /\ task[t].op \in {"put", "fav"} => server[task[t].id].live
          /\ server' = [server EXCEPT ![task[t].id] = Apply(t, task[t].id)]
    /\ task' = [task EXCEPT ![t] = NoTask]
    /\ draft' = IF task[t].edit.open /\ ~draft.open THEN task[t].edit ELSE draft
    /\ UNCHANGED <<serverOrg, db, protOrg, orgKeys, unlocked, pinned, ops>>

\* GET /sync: the server reads its tables, the answer is under way.
SyncAnswered(t) ==
    /\ task[t].op = "sync"
    /\ task' = [task EXCEPT ![t].op = "answered", ![t].snapOrg = serverOrg,
                            ![t].snap = server]
    /\ UNCHANGED <<server, serverOrg, db, protOrg, orgKeys, unlocked,
                   pinned, draft, ops>>

\* The success arm of handle_sync, whatever happened since the request.  A
\* mutant leaves the pinned ids as they were.
SyncAppliedKeepsPins(t) ==
    /\ task[t].op = "answered"
    /\ db' = [i \in Ids |-> ToEntry(task[t].snap[i])]
    /\ protOrg' = task[t].snapOrg
    /\ task' = [task EXCEPT ![t] = NoTask]
    /\ UNCHANGED <<server, serverOrg, orgKeys, unlocked, pinned, draft, ops>>
SyncApplied(t) ==
    /\ task[t].op = "answered"
    /\ db' = [i \in Ids |-> ToEntry(task[t].snap[i])]
    /\ pinned' = {i \in Ids : db'[i].live /\ db'[i].fav}
    /\ protOrg' = task[t].snapOrg
    /\ task' = [task EXCEPT ![t] = NoTask]
    /\ UNCHANGED <<server, serverOrg, orgKeys, unlocked, draft, ops>>

\* The failure arm.
SyncFails(t) ==
    /\ task[t].op \in {"sync", "answered"}
    /\ task' = [task EXCEPT ![t] = NoTask]
    /\ UNCHANGED <<server, serverOrg, db, protOrg, orgKeys, unlocked,
                   pinned, draft, ops>>

-----------------------------------------------------------------------------
(* Lock, unlock and the other device.                                      *)

\* State::lock.
Lock ==
    /\ unlocked
    /\ unlocked' = FALSE /\ orgKeys' = FALSE /\ pinned' = {}
    /\ UNCHANGED <<server, serverOrg, db, protOrg, draft, task, ops>>

\* handle_unlock: the organization keys come from the stored vault; the
\* restored session starts a sync.
Unlock(t) ==
    /\ ~unlocked /\ Idle(t)
    /\ unlocked' = TRUE /\ orgKeys' = protOrg
    /\ pinned' = {i \in Ids : db[i].live /\ db[i].fav}
    /\ task' = [task EXCEPT ![t] = [NoTask EXCEPT !.op = "sync"]]
    /\ UNCHANGED <<server, serverOrg, db, protOrg, draft, ops>>

\* Moving an entry to the organization seals its item key, or else its
\* values, with the organization's key.
Resealed(v) == IF v.by = "user" THEN [v EXCEPT !.by = "org"] ELSE v
Shared(e) ==
    [e EXCEPT !.org = TRUE, !.key = Resealed(@), !.name = Resealed(@), !.notes = Resealed(@),
        !.data = [s \in DOMAIN e.data |-> Resealed(e.data[s])],
        !.fields = [i \in DOMAIN e.fields |->
                       [e.fields[i] EXCEPT !.name = Resealed(@), !.value = Resealed(@)]]]
OtherDevice(id) ==
    /\ Counted
    /\ server[id].live /\ ~server[id].trashed
    /\ \/ /\ ~server[id].org /\ serverOrg' = TRUE
          /\ server' = [server EXCEPT ![id] = Shared(@)]
       \/ /\ UNCHANGED serverOrg
          /\ server' = [server EXCEPT ![id].trashed = TRUE]
       \/ /\ UNCHANGED serverOrg
          /\ server' = [server EXCEPT ![id].folder = ~@, ![id].fav = ~@]
       \/ /\ UNCHANGED serverOrg
          /\ server' = [server EXCEPT ![id].data = [s \in DOMAIN @ |->
                  IF @[s] = None THEN None ELSE [@[s] EXCEPT !.text = "other"]]]
    /\ UNCHANGED <<db, protOrg, orgKeys, unlocked, pinned, draft, task>>

ClientStep ==
    \/ \E id \in Ids : GetEntryMeta(id)
    \/ \E id \in Ids, p \in BOOLEAN : GetEntry(id, p)
    \/ \E ty \in Types, x \in Texts : NewDraft(ty, x)
    \/ \E row \in Rows, x \in Texts : EditFieldChanged(row, x)
    \/ CancelEdit
\* The dispatch of the Add* actions, and of those of the newer types.
NewTypes == {"BankAccount", "DriversLicense", "Passport"}
AddRequest(t, id) == draft.entry.ty \notin NewTypes /\ HandleAddEntry(t, id)
AddNewTypeRequest(t, id) == draft.entry.ty \in NewTypes /\ HandleAddEntry(t, id)
Request(t) ==
    \/ HandleUpdateEntry(t) \/ HandleSync(t)
    \/ \E row \in Rows, x \in Texts, ty \in FieldTypes : CliEdit(t, row, x, ty)
    \/ \E id \in Ids : \/ AddRequest(t, id) \/ AddNewTypeRequest(t, id)
                       \/ HandleDeleteEntry(t, id)
                       \/ HandleUpdateLoginPassword(t, id)
    \/ \E id \in Ids, on \in BOOLEAN : SetFavorite(t, id, on)
Answer(t) ==
    WriteDone(t) \/ WriteFailed(t) \/ SyncAnswered(t) \/ SyncApplied(t) \/ SyncFails(t)

Next ==
    \/ ClientStep \/ Lock
    \/ \E t \in Tasks : Request(t) \/ Answer(t) \/ Unlock(t)
    \/ \E id \in Ids : OtherDevice(id)
Spec == Init /\ [][Next]_vars

-----------------------------------------------------------------------------
(* Properties.                                                             *)

\* The value the user means a slot to have: what was typed, else what the
\* client saw, else - where it saw nothing, because the copy was redacted or
\* the slot was empty - what the agent has.
Meant(r, s) ==
    IF SlotRow(s) \in r.edit.dirty THEN r.edit.entry.data[s]
    ELSE IF s \in RedactedSlots[r.edit.entry.ty]
            /\ (~r.edit.full \/ r.edit.base.data[s] = None)
         THEN Decrypt(r.stored, r.orgKeys).data[s]
    ELSE r.edit.base.data[s]

\* The user has typed into field i, the first of its name.
Typed(r, i) ==
    LET f == r.edit.base.fields[i]
    IN /\ f.name.by = "plain" /\ FieldRow(f.name.text) \in r.edit.dirty
       /\ \A j \in DOMAIN r.edit.base.fields : r.edit.base.fields[j].name = f.name => i <= j
\* v is the value the user means custom field i to have.  A hidden field that
\* the client saw nothing of is known by its name: what it shall be is clear
\* if the agent has one hidden field of that name.
MeantField(r, i, v) ==
    LET f == r.edit.base.fields[i]
        fields == Decrypt(r.stored, r.orgKeys).fields
        hidden == {j \in DOMAIN fields : fields[j].name = f.name /\ fields[j].ty = "Hidden"}
    IN IF Typed(r, i) \/ f.ty # "Hidden" \/ (r.edit.full /\ f.value # None)
       THEN v = r.edit.entry.fields[i].value
       ELSE \A j \in hidden : hidden = {j} => v = fields[j].value
\* The fields that follow an SSH key's slots.
FollowsSlot(r, i) ==
    /\ r.edit.entry.ty = "SshKey"
    /\ r.edit.base.fields[i].name \in {Plain("private_key"), Plain("public_key")}

\* The agent could read its own copy, and still had one when the edit came.
Understood(r) ==
    /\ r.stored.live /\ Readable(r.stored, r.orgKeys)
    /\ r.edit.base.name.by = "plain"

\* An update carries exactly the edit: every slot and every field the user did
\* not touch is written back with the plaintext it had, through redaction,
\* merge, re-encryption and whichever of the user's and the item's key is in
\* use, and history, reprompt and item key go back unchanged
\* (handle_update_entry, update_entry_on_server).  The SSH fingerprint, which
\* the PUT request never carries, is the exception.
UpdateCarriesTheEdit ==
    \A t \in Tasks : LET r == task[t] got == Decrypt(r.req, FALSE) IN
        r.op = "put" /\ Understood(r) =>
            /\ \A s \in DOMAIN got.data \ {"fingerprint"} : got.data[s] = Meant(r, s)
            /\ \A i \in DOMAIN r.edit.base.fields :
                  ~FollowsSlot(r, i) => MeantField(r, i, got.fields[i].value)
            /\ got.history = r.edit.base.history
            /\ got.reprompt = r.edit.base.reprompt
            /\ got.key = r.edit.base.key

\* No write of the agent leaves a cipher on the server that its own keys do
\* not open: the values, the item key sent with them and the owner of that
\* key always fit together (update_entry_on_server, add_entry_on_server).
ServerReadable == \A i \in Ids : server[i].live => Readable(server[i], TRUE)

\* A new entry reaches the server with every slot the user filled in, and
\* with none that was left blank (save_action, handle_add_*,
\* add_entry_on_server); slots that the Add* actions do not have are excepted.
CreatedAsTyped ==
    \A t \in Tasks : LET r == task[t] got == Decrypt(r.req, FALSE) IN
        r.op = "post" =>
            /\ got.notes = NonEmpty(r.edit.entry.notes)
            /\ \A s \in AddActionSlots[got.ty] \ {"uri", "private_key"} :
                  got.data[s] = NonEmpty(r.edit.entry.data[s])
            /\ \A s \in {"uri", "private_key"} \cap DOMAIN got.data :
                  got.data[s] = r.edit.entry.data[s]

\* A meta read of an entry announces every secret of it, and what it announces
\* the copy and reveal buttons fetch: the value of that secret and no other,
\* which the redacted copy does not seem to have already (filled_secret_keys,
\* on_demand_secret, field_plaintext, secret_is_loaded).  All three go by the
\* label, so a slot counts as loaded when a visible custom field is named like
\* it; and of a hidden custom field this is claimed only if no other field has
\* its name, and no filled slot has it as its label, and if it is not called
\* Password, TOTP or Notes.
AnnouncedSecretsLoad ==
    \A id \in Ids :
        LET e == Decrypt(db[id], orgKeys)
            Loads(label, v) == label \in FilledSecretKeys(e) /\ Fetched(e, label) = v
            Loaded(label) == SecretIsLoaded(Redact(e), label)
            Named(label) == {i \in DOMAIN e.fields : e.fields[i].name = label}
            Shadowed(label) == label \in {Label["password"], Label["totp"], Notes}
                               \/ SlotsLabelled(e, label) # {}
        IN unlocked /\ db[id].live =>
            /\ \A s \in {s \in RedactedSlots[e.ty] : e.data[s] # None} :
                  /\ Loads(Label[s], e.data[s])
                  /\ Loaded(Label[s]) =>
                        \E i \in Named(Label[s]) : e.fields[i].ty = "Text"
            /\ e.notes # None => Loads(Notes, e.notes) /\ ~Loaded(Notes)
            /\ \A i \in DOMAIN e.fields : LET f == e.fields[i] IN
                  /\ f.ty = "Hidden" /\ f.value # None /\ f.name # None
                  /\ Named(f.name) = {i} /\ ~Shadowed(f.name)
                  => Loads(f.name, f.value) /\ ~Loaded(f.name)

\* The pinned ids are those of the favourite entries, after a pin, a sync and
\* an unlock alike (set_favorite, handle_sync, handle_unlock).
PinsMatchEntries ==
    unlocked => pinned = {i \in Ids : db[i].live /\ db[i].fav}
=============================================================================
