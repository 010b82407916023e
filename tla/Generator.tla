------------------------------ MODULE Generator -----------------------------
(***************************************************************************)
(* The password generator: the agent's handlers over the settings, key and *)
(* history files, the vault window's generator pane, and the surfaces that *)
(* generate with the stored settings (applet, CLI, browser extension).     *)
(*                                                                         *)
(* A handler never waits, so it is one step; a fault makes one of its file *)
(* operations fail, and a crash stops it between two of them.  Passwords   *)
(* and keys are numbered in the order they are made.                       *)
(***************************************************************************)
EXTENDS AgentLink, GenerateIcon, Integers

CONSTANTS
    Groups,                    \* the character groups a password may draw from
    MIN_LENGTH, MAX_LENGTH, DefaultLength,
    TTL,                       \* HISTORY_TTL_SECS
    None, Torn,                \* Torn: a file truncated and not written
    MaxNow,                    \* bound on the clock
    MaxOps,                    \* bound on what users, pages and clients do
    MaxFields,                 \* bound on a page's password fields
    MaxFaults,                 \* bound on the faults and the crashes
    MaxPending                 \* the user acts with fewer requests pending

ASSUME LengthAssumption ==
    /\ MIN_LENGTH \in Nat /\ MAX_LENGTH \in Nat /\ DefaultLength \in MIN_LENGTH .. MAX_LENGTH
    /\ Cardinality(Groups) <= MIN_LENGTH

VARIABLES
    disk,        \* the generator's three files; the history file keeps its entries in
                 \* the order of their passwords' numbers
    now,         \* now_unix(), in seconds
    made,        \* how many passwords have been made
    pane,        \* CosmardenApp's generator_* fields
    link,        \* the vault window's AgentClient
    page,        \* GenerateIcon
    budget       \* ops and faults so far
vars == <<disk, now, made, pane, link, page, budget>>

\* A client may send any length, the pane's slider only a valid one.
Settings == [groups : SUBSET Groups, length : 0 .. MAX_LENGTH + 1]
Default == [groups |-> Groups, length |-> DefaultLength]

Init ==
    /\ disk = [settings |-> None, key |-> 0, history |-> {}] /\ now = 0 /\ made = 0
    /\ pane = [open |-> FALSE, settings |-> Default, result |-> 0, resultRevealed |-> FALSE,
               history |-> <<>>, revealed |-> {}, pending |-> 0, error |-> FALSE, chosen |-> {}]
    /\ link = NewLink(<<>>) /\ page = NewPage /\ budget = [ops |-> 0, faults |-> 0]

-----------------------------------------------------------------------------
(* The agent: storage.rs and generator_settings.rs.  f is the operation    *)
(* that fails.                                                             *)

Faults == {"settings_create", "settings_write", "settings_read", "key_read", "key_write",
           "load", "save"}

\* GeneratorSettings::save truncates the file before it writes it.
SaveSettings(d, s, f) ==
    [d EXCEPT !.settings = CASE f = "settings_create" -> @
                             [] f = "settings_write" -> Torn
                             [] OTHER -> s]
\* GeneratorSettings::load; None is an error.
LoadSettings(d, f) ==
    IF d.settings = Torn \/ f = "settings_read" THEN None
    ELSE IF d.settings = None THEN Default ELSE d.settings

\* A mutant that makes a new key whenever the old one cannot be read.
LoadOrCreateKeyReplaces(d, fresh, f) ==
    IF d.key \in {0, Torn} \/ f = "key_read"
    THEN [disk |-> [d EXCEPT !.key = fresh], key |-> fresh]
    ELSE [disk |-> d, key |-> d.key]
\* Key 0 is an error.  A new key is written in place.
LoadOrCreateKey(d, fresh, f) ==
    IF d.key = Torn \/ f = "key_read" THEN [disk |-> d, key |-> 0]
    ELSE IF d.key # 0 THEN [disk |-> d, key |-> d.key]
    ELSE IF f = "key_write" THEN [disk |-> [d EXCEPT !.key = Torn], key |-> 0]
    ELSE [disk |-> [d EXCEPT !.key = fresh], key |-> fresh]

\* saturating_sub: an entry from the future, after the clock was set back, is kept.
Expired(e, t) == t - e.created_at > TTL
Prune(h, t) == {e \in h : ~Expired(e, t)}

AppendEntry(d, password, t, f) ==
    LET k == LoadOrCreateKey(d, password, f)
        e == [created_at |-> t, password |-> password, key |-> k.key]
    IN IF k.key = 0 \/ f \in {"load", "save"} THEN k.disk
       ELSE [k.disk EXCEPT !.history = Prune(@, t) \cup {e}]

\* A mutant that deletes everything up to the chosen second.
DeleteUpTo(h, created_at) == {e \in h : e.created_at > created_at}
DeleteByCreatedAt(h, created_at) == {e \in h : e.created_at # created_at}

\* sort_by_key(Reverse(created_at)) is stable: the entries of one second keep the
\* order they have in the file.
Before(d, e) ==
    d.created_at > e.created_at \/ (d.created_at = e.created_at /\ d.password < e.password)
Rank(h, e) == Cardinality({d \in h : Before(d, e)}) + 1
NewestFirst(h) == [i \in 1 .. Cardinality(h) |-> CHOOSE e \in h : Rank(h, e) = i]

-----------------------------------------------------------------------------
(* The handlers: the new disk and the answer; ok is FALSE for an Error.    *)

Outcome(d, ok, value) == [disk |-> d, ok |-> ok, value |-> value]

Accepted(s) == s.length \in MIN_LENGTH .. MAX_LENGTH /\ s.groups # {}

\* settings None: the stored ones, untouched.
Used(d, settings, f) ==
    IF settings # None THEN settings
    ELSE IF LoadSettings(d, f) = None THEN Default ELSE LoadSettings(d, f)
HandleGenerate(d, settings, fresh, t, f) ==
    LET d1 == IF settings = None THEN d ELSE SaveSettings(d, settings, f)
    IN IF Accepted(Used(d, settings, f))
       THEN Outcome(AppendEntry(d1, fresh, t, f), TRUE, fresh)
       ELSE Outcome(d1, FALSE, 0)

HandleGetSettings(d, f) == Outcome(d, LoadSettings(d, f) # None, LoadSettings(d, f))

HandleGetHistory(d, fresh, t, f) ==
    LET h == Prune(d.history, t)
        d1 == [d EXCEPT !.history = h]
        k == LoadOrCreateKey(d1, fresh, f)
        decrypts == \A e \in h : e.key = k.key
    IN IF f = "load" \/ (f = "save" /\ h # d.history) THEN Outcome(d, FALSE, <<>>)
       ELSE IF h = {} THEN Outcome(d1, TRUE, <<>>)
       ELSE IF k.key = 0 \/ ~decrypts THEN Outcome(k.disk, FALSE, <<>>)
       ELSE Outcome(k.disk, TRUE, NewestFirst(h))

HandleDelete(d, created_at, f) ==
    IF f \in {"load", "save"} THEN Outcome(d, FALSE, 0)
    ELSE Outcome([d EXCEPT !.history = DeleteByCreatedAt(@, created_at)], TRUE, 0)

Handle(m, f) ==
    CASE m.kind = "generate" -> HandleGenerate(disk, m.arg, made + 1, now, f)
      [] m.kind = "settings" -> HandleGetSettings(disk, f)
      [] m.kind = "history"  -> HandleGetHistory(disk, made + 1, now, f)
      [] m.kind = "delete"   -> HandleDelete(disk, m.arg, f)

\* What a handler that dies may leave: nothing done, all of it, or part of
\* GeneratePassword's writes.
CrashDisks(m) ==
    {disk, Handle(m, "none").disk} \cup
    IF m.kind # "generate" THEN {}
    ELSE LET saves == IF m.arg = None THEN {disk}
                      ELSE {SaveSettings(disk, m.arg, f) : f \in {"settings_write", "none"}}
             saved == Handle(m, "save").disk
         IN saves \cup {saved}
            \cup (IF Accepted(Used(disk, m.arg, "none")) THEN {Handle(m, "key_write").disk} ELSE {})

-----------------------------------------------------------------------------
(* The agent at work.                                                      *)

Request(kind, arg) == [kind |-> kind, arg |-> arg, attempt |-> 0]
Spend(k) == IF k = 0 THEN UNCHANGED budget
            ELSE budget.faults < MaxFaults /\ budget' = [budget EXCEPT !.faults = @ + 1]
Act == budget.ops < MaxOps /\ budget' = [budget EXCEPT !.ops = @ + 1]
\* The number made + 1 is used up by a new password or by a new key.
Count(d, m) == made' = IF m.kind = "generate" \/ d.key # disk.key THEN made + 1 ELSE made

Serve(f) ==
    /\ CanServe(link)
    /\ LET m == Head(link.waiting)
           o == Handle(m, f)
       IN /\ disk' = o.disk /\ Count(o.disk, m)
          /\ link' = Answered(link, [kind |-> m.kind, ok |-> o.ok, value |-> o.value])
    /\ Spend(IF f = "none" THEN 0 ELSE 1) /\ UNCHANGED <<now, pane, page>>

\* AgentClient::send connects again and repeats a request whose connection broke,
\* once; a connection refused, or a second break, is an error.
Crash ==
    /\ CanServe(link) /\ Spend(1)
    /\ LET m == Head(link.waiting)
       IN /\ disk' \in CrashDisks(m) /\ Count(disk', m)
          /\ \/ /\ m.attempt = 0
                /\ link' = [link EXCEPT !.waiting[1].attempt = 1]
             \/ link' = Answered(link, [kind |-> m.kind, ok |-> FALSE, value |-> 0])
    /\ UNCHANGED <<now, pane, page>>

\* The other surfaces: one request of their own, with the stored settings or, for a
\* CLI call with options, with any.
Elsewhere(settings) ==
    /\ Act /\ disk' = HandleGenerate(disk, settings, made + 1, now, "none").disk /\ made' = made + 1
    /\ UNCHANGED <<now, pane, link, page>>
CliGenerate(settings) == Elsewhere(settings)
AppletGeneratePasswordRequested == Elsewhere(None)
ContextMenuClicked == Elsewhere(None)

\* Wall-clock time: it may also be set back.
Clock(t) == t # now /\ Act /\ now' = t /\ UNCHANGED <<disk, made, pane, link, page>>

-----------------------------------------------------------------------------
(* The generator pane.                                                     *)

Deliver == link.reply # <<>> /\ link' = Delivered(link) /\ UNCHANGED <<disk, now, made, pane, page, budget>>

Send(q, requests) == link' = Enqueue(q, requests)
FetchHistory == <<Request("history", None)>>
User == Act /\ UNCHANGED <<disk, now, made, page>>
InPane == pane.open /\ Pending(link) < MaxPending /\ User

\* The pane and the page's icons meet only in the agent's files, where Elsewhere
\* stands for an icon while the pane is used: a behaviour has one of the two.
GeneratorViewClicked ==
    /\ page = NewPage /\ Pending(link) < MaxPending /\ User /\ pane' = [pane EXCEPT !.open = TRUE]
    /\ Send(link, <<Request("settings", None)>> \o FetchHistory)
\* Check boxes, slider and Reset.
SettingsChanged(s) ==
    /\ s # pane.settings
    /\ \/ \E g \in Groups : s = [pane.settings EXCEPT !.groups = (@ \ {g}) \cup ({g} \ @)]
       \/ \E n \in MIN_LENGTH .. MAX_LENGTH : s = [pane.settings EXCEPT !.length = n]
       \/ s = Default
    /\ InPane /\ pane' = [pane EXCEPT !.settings = s] /\ UNCHANGED link
GenerateClicked == InPane /\ Send(link, <<Request("generate", pane.settings)>>) /\ UNCHANGED pane
RevealToggled ==
    /\ pane.result # 0 /\ InPane /\ UNCHANGED link
    /\ pane' = [pane EXCEPT !.resultRevealed = ~@, !.chosen = @ \cup {pane.result}]
HistoryRevealToggled(i) ==
    /\ InPane /\ UNCHANGED link
    /\ pane' = [pane EXCEPT !.revealed = (@ \ {i}) \cup ({i} \ @),
                            !.chosen = @ \cup {pane.history[i].password}]
DeleteRequested(i) ==
    /\ InPane /\ pane' = [pane EXCEPT !.pending = i] /\ UNCHANGED link
\* The dialog: over any view, and clicks beside it go through.
DeleteCancelled ==
    /\ pane.pending # 0 /\ User /\ pane' = [pane EXCEPT !.pending = 0] /\ UNCHANGED link
DeleteConfirmed ==
    /\ pane.pending # 0 /\ User /\ pane' = [pane EXCEPT !.pending = 0]
    /\ Send(link, IF pane.pending \in DOMAIN pane.history
                  THEN <<Request("delete", pane.history[pane.pending].created_at)>> ELSE <<>>)
\* wipe_sensitive_state, when the vault locks; the view leaves the pane.
Wipe ==
    /\ User /\ UNCHANGED link
    /\ pane' = [pane EXCEPT !.open = FALSE, !.result = 0, !.resultRevealed = FALSE,
                            !.history = <<>>, !.revealed = {}, !.chosen = {}]

\* A mutant that does not fetch the history again.
GeneratedNoFetch(ok, p) ==
    [pane |-> IF ok THEN [pane EXCEPT !.result = p, !.resultRevealed = FALSE, !.error = FALSE]
              ELSE [pane EXCEPT !.error = TRUE],
     asks |-> <<>>]
\* The answers.
Generated(ok, p) ==
    IF ok THEN [pane |-> [pane EXCEPT !.result = p, !.resultRevealed = FALSE, !.error = FALSE],
                asks |-> FetchHistory]
    ELSE [pane |-> [pane EXCEPT !.error = TRUE], asks |-> <<>>]
SettingsReceived(ok, s) ==
    [pane |-> IF ok THEN [pane EXCEPT !.settings = s] ELSE pane, asks |-> <<>>]
\* A mutant that keeps the reveal marks of the old list.
HistoryReceivedKeepsRevealed(ok, h) ==
    [pane |-> IF ok THEN [pane EXCEPT !.history = h] ELSE [pane EXCEPT !.error = TRUE],
     asks |-> <<>>]
HistoryReceived(ok, h) ==
    [pane |-> IF ok THEN [pane EXCEPT !.history = h, !.revealed = {}] ELSE [pane EXCEPT !.error = TRUE],
     asks |-> <<>>]
Deleted(ok) ==
    IF ok THEN [pane |-> pane, asks |-> FetchHistory]
    ELSE [pane |-> [pane EXCEPT !.error = TRUE], asks |-> <<>>]
HandleMessage ==
    /\ link.inbox # <<>>
    /\ LET m == Head(link.inbox)
           r == CASE m.kind = "generate" -> Generated(m.ok, m.value)
                  [] m.kind = "settings" -> SettingsReceived(m.ok, m.value)
                  [] m.kind = "history"  -> HistoryReceived(m.ok, m.value)
                  [] m.kind = "delete"   -> Deleted(m.ok)
       IN pane' = r.pane /\ Send(Taken(link), r.asks)
    /\ UNCHANGED <<disk, now, made, page, budget>>

-----------------------------------------------------------------------------
(* The page with the extension's icons.                                    *)

PageStep == UNCHANGED <<disk, now, made, pane, link>>
RenderField(f) ==
    ~pane.open /\ Idle(link) /\ Len(page.fields) < MaxFields /\ Act /\ page' = Rendered(page, f) /\ PageStep
DropFields(fs) == fs # {} /\ Act /\ page' = Dropped(page, fs) /\ PageStep
Rescan == page.dirty /\ page' = ScanAndDecorate(page) /\ PageStep /\ UNCHANGED budget
Scroll == page' = RepositionAll(page) /\ page' # page /\ PageStep /\ UNCHANGED budget
\* The icon of a field that is gone has no size and is hidden.
IconClicked(i) ==
    i \in DOMAIN page.icons \cap Shown(page) /\ Act /\ page' = Clicked(page, i) /\ PageStep
IconAnswered ==
    /\ page.asked # <<>>
    /\ LET o == HandleGenerate(disk, None, made + 1, now, "none")
       IN disk' = o.disk /\ page' = OnGenerateAnswer(page, o.ok)
    /\ made' = made + 1 /\ UNCHANGED <<now, pane, link, budget>>

-----------------------------------------------------------------------------
Next ==
    \/ \E f \in Faults \cup {"none"} : Serve(f)
    \/ IconAnswered \/ Crash \/ Deliver \/ HandleMessage
    \/ \E s \in Settings \cup {None} : CliGenerate(s)
    \/ AppletGeneratePasswordRequested \/ ContextMenuClicked
    \/ \E t \in 0 .. MaxNow : Clock(t)
    \/ GeneratorViewClicked \/ GenerateClicked \/ RevealToggled
    \/ \E s \in Settings : SettingsChanged(s)
    \/ \E i \in DOMAIN pane.history : HistoryRevealToggled(i) \/ DeleteRequested(i)
    \/ DeleteCancelled \/ DeleteConfirmed \/ Wipe
    \/ \E f \in Field : RenderField(f)
    \/ \E s \in Forms : DropFields(FieldsOf(page, s))
    \/ \E i \in Shown(page) : DropFields({i})
    \/ Rescan \/ Scroll
    \/ \E i \in DOMAIN page.fields : IconClicked(i)

Spec == Init /\ [][Next]_vars

-----------------------------------------------------------------------------
(* Properties.                                                             *)

\* Every history entry can be decrypted with the key in the key file, whatever
\* file operation failed and wherever the agent crashed (load_or_create_key makes
\* a key only when there is none).
HistoryDecrypts == \A e \in disk.history : e.key = disk.key

\* The generator implements PasswordHistory: through failed reads and writes,
\* crashes, retries and a clock set back, an entry that can be read stays so for TTL
\* seconds unless its second is deleted, and a write adds at most one, dated now.
Readable ==
    {[created_at |-> e.created_at, password |-> e.password] :
        e \in {d \in disk.history : d.key = disk.key}}
History == INSTANCE PasswordHistory WITH entries <- Readable
ImplementsHistory == History!Spec

\* When no request is pending and no error is shown, the history the pane shows has
\* the password it shows as the result, unless the agent's file has not
\* ("Refresh the list so the just-generated entry shows up").
GeneratedIsShown ==
    Idle(link) /\ pane.result # 0 /\ ~pane.error =>
        \A e \in disk.history :
            e.password = pane.result =>
                \E j \in DOMAIN pane.history : pane.history[j].password = pane.result

\* A password is in clear text on the screen only if the user asked to see this
\* password: a refreshed list never moves the reveal mark of one row to another
\* ("indices never go stale", CosmardenApp::generator_history_revealed).
RevealedWasChosen ==
    /\ \A i \in pane.revealed : i \in DOMAIN pane.history /\ pane.history[i].password \in pane.chosen
    /\ pane.resultRevealed => pane.result \in pane.chosen

\* GenerateIcon's promise for the page.
IconsSpareLogins == LoginFieldsUntouched(page)
=============================================================================
