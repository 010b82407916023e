------------------------------- MODULE Popup --------------------------------
(***************************************************************************)
(* The browser extension's popup: list, detail, edit and locked views over *)
(* the background's native port, the state it keeps in storage.session     *)
(* between two openings, and autofill of the active tab.                   *)
(*                                                                         *)
(* A login is named by its site; None is the site of a page without a      *)
(* host, a file for one.  Every answer may find the popup in another view  *)
(* than the one that asked; the browser destroys the popup whenever it     *)
(* loses the focus, and its requests are still served.                     *)
(***************************************************************************)
EXTENDS AgentLink, FiniteSets

CONSTANTS
    Sites,        \* the sites with a login
    Notes,        \* the secure notes
    None,
    MaxOps,       \* bound on what the user, the pages and other clients do
    MaxPending    \* the user acts only with fewer requests pending

ASSUME SitesAssumption == Sites \cap Notes = {} /\ None \notin Sites \cup Notes

VARIABLES
    agent,        \* usable, or why not; the entries it has
    site,         \* of the active tab's page, None if its URL has no host
    link,         \* AgentLink, through the background script
    popup,        \* the popup's globals and what it shows
    store,        \* popupState in storage.session
    fill,         \* FILL_FORM messages on their way to the page
    filled,       \* <<login, site of the page it was filled into>>
    ops
vars == <<agent, site, link, popup, store, fill, filled, ops>>

Entries == Sites \cup Notes
Pages == Sites \cup {None}
\* `shown` once showView has run; `form` and `detail` are the entries of the edit
\* form and of the detail pane, `dirty` that the form holds the user's input.
Closed == [open |-> FALSE, shown |-> FALSE, view |-> "list", domain |-> None, current |-> None,
           form |-> None, dirty |-> FALSE, detail |-> None, cached |-> FALSE, search |-> FALSE,
           fav |-> FALSE, rows |-> {}, domainMatch |-> FALSE, armed |-> FALSE]

\* What storage.session may hold.
Snapshots == [domain : Pages, view : {"list", "detail", "edit", "locked"},
              entry : Entries \cup {None}, search : BOOLEAN, fav : BOOLEAN, draft : BOOLEAN]
ASSUME NoneAssumption == None \notin Snapshots

Init ==
    /\ agent \in [state : {"ok", "locked", "login"}, ids : {Entries}] /\ site \in Pages
    /\ link = NewLink(<<>>) /\ popup = Closed /\ store = None
    /\ fill = {} /\ filled = {} /\ ops = 0

-----------------------------------------------------------------------------
(* Requests: the id, and what the continuation has captured.  They share   *)
(* the background's queue, and an answer resolves the oldest of them.      *)

Request(kind, id, arg) == [kind |-> kind, id |-> id, arg |-> arg, dead |-> FALSE]
Ask(q, kind, id, arg) == link' = Enqueue(q, <<Request(kind, id, arg)>>)

\* The agent; a reply for a popup that has been closed goes nowhere.
Replies(m, code) ==
    link' = IF m.dead THEN [link EXCEPT !.waiting = Tail(@)]
            ELSE Answered(link, [req |-> m, code |-> code, ids |-> agent'.ids])
States == {"Config", "Usable", "RequestUnlock"}
Serve ==
    /\ CanServe(link)
    /\ LET m == Head(link.waiting)
       IN \/ m.kind \in States /\ UNCHANGED agent /\ Replies(m, agent.state)
          \/ /\ m.kind = "Lock"
             /\ agent' = [agent EXCEPT !.state = IF @ = "ok" THEN "locked" ELSE @]
             /\ Replies(m, "ok")
          \/ /\ m.kind = "Pin" /\ agent.state = "locked"
             /\ agent' = [agent EXCEPT !.state = "ok"] /\ Replies(m, "ok")
          \/ m.kind = "Pin" /\ UNCHANGED agent /\ Replies(m, "err")
          \/ /\ m.kind \notin States \cup {"Lock", "Pin"} /\ agent.state # "ok"
             /\ UNCHANGED agent /\ Replies(m, "err")
          \/ /\ m.kind \in {"Entries", "Sync"} /\ agent.state = "ok"
             /\ UNCHANGED agent /\ Replies(m, "ok")
          \/ /\ m.kind \in {"Meta", "Note", "Edit", "Fill", "Open", "Save"} /\ agent.state = "ok"
             /\ UNCHANGED agent /\ Replies(m, IF m.id \in agent.ids \cup {None} THEN "ok" ELSE "err")
          \/ /\ m.kind = "Delete" /\ agent.state = "ok"
             /\ agent' = [agent EXCEPT !.ids = @ \ {m.id}]
             /\ Replies(m, IF m.id \in agent.ids THEN "ok" ELSE "err")
    /\ UNCHANGED <<site, popup, store, fill, filled, ops>>
Deliver ==
    /\ link.reply # <<>> /\ link' = Delivered(link)
    /\ UNCHANGED <<agent, site, popup, store, fill, filled, ops>>

-----------------------------------------------------------------------------
(* popup-state.js                                                          *)

Snapshot(p) ==
    [domain |-> p.domain, view |-> p.view,
     entry |-> IF p.view \in {"detail", "edit"} THEN p.current ELSE None,
     search |-> p.search, fav |-> p.fav, draft |-> p.view = "edit" /\ p.dirty]
\* savePopupState
Saved(p) == IF p.view = "locked" THEN None ELSE Snapshot(p)

-----------------------------------------------------------------------------
(* popup.js: the list.  `p` is the popup, `q` the link.                    *)

\* updateResults, once the vault is known to be usable.
Listing(p, q, query) ==
    /\ popup' = [p EXCEPT !.domainMatch = FALSE]
    /\ Ask(q, "Entries", None, IF p.fav THEN "fav" ELSE IF query THEN "query"
                               ELSE IF p.domain # None THEN "domain" ELSE "fallback")
\* getConfig answers from its cache while the last answer was usable.
UpdateResults(p, q) ==
    IF p.cached THEN Listing(p, q, p.search) ELSE popup' = p /\ Ask(q, "Config", None, p.search)

\* showView
Show(p, view, q) ==
    LET p2 == [p EXCEPT !.view = view, !.shown = TRUE]
    IN /\ store' = Saved(p2)
       /\ IF view = "list" THEN UpdateResults(p2, q) ELSE popup' = p2 /\ link' = q
Ignored(q) == link' = q /\ UNCHANGED <<popup, store>>

ConfigReceived(m, q) ==
    LET p == [popup EXCEPT !.cached = m.code = "ok"]
    IN /\ UNCHANGED store
       /\ \/ m.code = "ok" /\ Listing(p, q, m.req.arg)
          \/ m.code = "login" /\ popup' = p /\ link' = q
          \/ m.code = "locked" /\ popup' = p /\ Ask(q, "RequestUnlock", None, "none")
\* renderEntries; a refused list leaves the last one on the screen.
EntriesReceived(m, q) ==
    \/ m.code = "err" /\ Ignored(q)
    \/ /\ m.code = "ok" /\ m.req.arg = "domain" /\ popup.domain \notin m.ids
       /\ Ask(q, "Entries", None, "fallback") /\ UNCHANGED <<popup, store>>
    \/ /\ m.code = "ok" /\ m.req.arg = "domain" /\ popup.domain \in m.ids
       /\ popup' = [popup EXCEPT !.rows = {popup.domain}, !.domainMatch = TRUE]
       /\ link' = q /\ UNCHANGED store
    \/ /\ m.code = "ok" /\ m.req.arg # "domain"
       /\ popup' = [popup EXCEPT !.rows = m.ids] /\ link' = q /\ UNCHANGED store

-----------------------------------------------------------------------------
(* popup-lock.js, popup-detail.js, popup-edit.js: the answers.             *)

ShowLockedView(q) == Show(popup, "locked", q)

ShowDetail(id, q) == Show([popup EXCEPT !.current = id, !.detail = id], "detail", q)
\* showDetail: a secure note's body is its notes, which the first answer leaves out.
MetaReceived(m, q) ==
    \/ m.code # "ok" /\ Ignored(q)
    \/ /\ m.code = "ok" /\ m.req.id \in Notes
       /\ Ask(q, "Note", m.req.id, "none") /\ UNCHANGED <<popup, store>>
    \/ m.code = "ok" /\ m.req.id \in Sites /\ ShowDetail(m.req.id, q)

\* showEditForm and showAddForm; a restored draft is put into the form after that.
EditForm(id, arg, q) ==
    LET p == [popup EXCEPT !.view = "edit", !.shown = TRUE, !.current = id, !.form = id,
                           !.dirty = FALSE]
    IN /\ store' = Saved(p) /\ link' = q
       /\ popup' = [p EXCEPT !.dirty = arg = "draft"]
\* A mutant that fills the form and leaves the entry of the last detail current.
EditReceivedKeeps(m, q) ==
    \/ m.code # "ok" /\ Ignored(q)
    \/ /\ m.code = "ok" /\ link' = q
       /\ popup' = [popup EXCEPT !.view = "edit", !.shown = TRUE, !.form = m.req.id]
       /\ store' = Saved(popup')
\* showEdit.  Without an answer the draft is still put into the form.
EditReceived(m, q) ==
    \/ m.code = "ok" /\ EditForm(m.req.id, m.req.arg, q)
    \/ /\ m.code # "ok" /\ link' = q /\ UNCHANGED store
       /\ popup' = [popup EXCEPT !.dirty = @ \/ m.req.arg = "draft"]

\* restorePopupState, after isVaultUsable.
UsableReceived(m, q) ==
    \/ m.code # "ok" /\ Show(popup, "list", q)
    \/ /\ m.code = "ok" /\ m.req.arg = "detail"
       /\ Ask(q, "Meta", m.req.id, "none") /\ UNCHANGED <<popup, store>>
    \/ /\ m.code = "ok" /\ m.req.arg # "detail" /\ m.req.id # None
       /\ Ask(q, "Edit", m.req.id, m.req.arg) /\ UNCHANGED <<popup, store>>
    \/ m.code = "ok" /\ m.req.arg # "detail" /\ m.req.id = None /\ EditForm(None, m.req.arg, q)

\* fillEntry: the tab is asked for its page when the login has arrived, and a login
\* matches no page without a host.
Gone(l) == [l EXCEPT !.waiting = [i \in DOMAIN @ |-> [@[i] EXCEPT !.dead = TRUE]],
                     !.reply = <<>>, !.inbox = <<>>]
FillReceived(m, q) ==
    /\ UNCHANGED store
    /\ \/ (m.code # "ok" \/ m.req.id # site) /\ link' = q /\ UNCHANGED <<popup, fill>>
       \/ /\ m.code = "ok" /\ m.req.id = site
          /\ fill' = fill \cup {[login |-> m.req.id, expectedHost |-> site]}
          /\ popup' = Closed /\ link' = Gone(q)

Answer(m, q) ==
    \/ m.req.kind = "Config" /\ ConfigReceived(m, q)
    \/ m.req.kind = "Entries" /\ EntriesReceived(m, q)
    \/ m.req.kind = "RequestUnlock" /\ ShowLockedView(q)
    \/ m.req.kind \in {"Pin", "Save", "Delete"} /\ m.code = "ok" /\ Show(popup, "list", q)
    \/ m.req.kind \in {"Pin", "Save", "Delete"} /\ m.code # "ok" /\ Ignored(q)
    \/ m.req.kind = "Meta" /\ MetaReceived(m, q)
    \/ m.req.kind = "Note" /\ ShowDetail(m.req.id, q)
    \/ m.req.kind = "Edit" /\ EditReceived(m, q)
    \/ m.req.kind = "Usable" /\ UsableReceived(m, q)
    \/ m.req.kind = "Sync" /\ UpdateResults(popup, q) /\ UNCHANGED store
    \/ m.req.kind = "Lock" /\ Show(popup, "list", q)
\* openEntrySite: the site opens in a new tab, which takes the focus.
OpenReceived(m, q) ==
    \/ m.code # "ok" /\ link' = q /\ UNCHANGED <<popup, site>>
    \/ m.code = "ok" /\ site' = m.req.id /\ popup' = Closed /\ link' = Gone(q)
Handle ==
    /\ link.inbox # <<>>
    /\ LET m == Head(link.inbox)
           q == Taken(link)
       IN \/ m.req.kind \notin {"Fill", "Open"} /\ Answer(m, q) /\ UNCHANGED <<site, fill>>
          \/ m.req.kind = "Fill" /\ FillReceived(m, q) /\ UNCHANGED site
          \/ m.req.kind = "Open" /\ OpenReceived(m, q) /\ UNCHANGED <<store, fill>>
    /\ UNCHANGED <<agent, filled, ops>>

-----------------------------------------------------------------------------
(* content.js                                                              *)

\* A mutant that fills whatever page the tab shows by now.
FillFormAnywhere(m) == filled' = filled \cup {<<m.login, site>>}
\* A page without a host compares nothing.
FillForm(m) ==
    filled' = IF site \in {m.expectedHost, None} THEN filled \cup {<<m.login, site>>} ELSE filled
FormMessage ==
    \E m \in fill :
        /\ fill' = fill \ {m} /\ FillForm(m)
        /\ UNCHANGED <<agent, site, link, popup, store, ops>>

-----------------------------------------------------------------------------
(* The user.                                                               *)

Asks(kind, id) == Ask(link, kind, id, "none") /\ UNCHANGED <<popup, store>>
Header == popup.view = "list"

SearchInput ==
    LET p == [popup EXCEPT !.search = ~@]
    IN Header /\ UpdateResults(p, link) /\ store' = Saved(p)
\* A mutant that does not save the toggle.
FavClickedUnsaved ==
    LET p == [popup EXCEPT !.fav = ~@]
    IN Header /\ UpdateResults(p, link) /\ UNCHANGED store
FavClicked ==
    LET p == [popup EXCEPT !.fav = ~@]
    IN Header /\ UpdateResults(p, link) /\ store' = Saved(p)
SyncClicked == Header /\ Asks("Sync", None)
LockClicked ==
    /\ popup.view \in {"list", "detail"} /\ Ask(link, "Lock", None, "none")
    /\ popup' = [popup EXCEPT !.cached = FALSE] /\ UNCHANGED store
AddClicked == Header /\ EditForm(None, "none", link)
RowClicked ==
    \E id \in popup.rows :
        /\ popup.view = "list"
        /\ Asks(IF id \in Notes THEN "Meta" ELSE IF popup.domainMatch THEN "Fill" ELSE "Open", id)
FillClicked == \E id \in popup.rows \cap Sites : popup.view = "list" /\ Asks("Fill", id)
ViewClicked == \E id \in popup.rows : popup.view = "list" /\ Asks("Meta", id)
EditClicked == popup.view = "detail" /\ popup.current # None /\ Asks("Edit", popup.current)
DeleteClicked ==
    /\ popup.view = "detail" /\ popup.current # None
    /\ \/ /\ ~popup.armed /\ popup' = [popup EXCEPT !.armed = TRUE] /\ UNCHANGED <<link, store>>
       \/ /\ popup.armed /\ popup' = [popup EXCEPT !.armed = FALSE]
          /\ Ask(link, "Delete", popup.current, "none") /\ UNCHANGED store
DisarmDelete ==
    popup.armed /\ popup' = [popup EXCEPT !.armed = FALSE] /\ UNCHANGED <<link, store>>
\* Back and Cancel.
BackClicked ==
    /\ popup.view \in {"detail", "edit"}
    /\ Show(popup, IF popup.view = "edit" /\ popup.current # None THEN "detail" ELSE "list", link)
EditInput ==
    /\ popup.view = "edit" /\ popup' = [popup EXCEPT !.dirty = TRUE]
    /\ store' = Saved(popup') /\ UNCHANGED link
SaveClicked == popup.view = "edit" /\ Asks("Save", popup.current)
\* The button is disabled until the answer.
Unlocking ==
    \/ \E i \in DOMAIN link.waiting : link.waiting[i].kind = "Pin" /\ ~link.waiting[i].dead
    \/ \E answers \in {link.reply, link.inbox} :
           \E i \in DOMAIN answers : answers[i].req.kind = "Pin"
SubmitPin == popup.view = "locked" /\ ~Unlocking /\ Asks("Pin", None)

User ==
    /\ popup.open /\ Pending(link) < MaxPending /\ ops < MaxOps /\ ops' = ops + 1
    /\ \/ SearchInput \/ FavClicked \/ SyncClicked \/ LockClicked \/ AddClicked \/ RowClicked
       \/ FillClicked \/ ViewClicked \/ EditClicked \/ DeleteClicked \/ DisarmDelete
       \/ BackClicked \/ EditInput \/ SaveClicked \/ SubmitPin
    /\ UNCHANGED <<agent, site, fill, filled>>

\* restorePopupState: what was stored on another site is not restored.
PopupOpen ==
    LET fresh == [Closed EXCEPT !.open = TRUE, !.domain = site]
        s == IF store # None /\ store.domain = site THEN store ELSE Snapshot(fresh)
        p == [fresh EXCEPT !.search = s.search, !.fav = s.fav]
    IN /\ ~popup.open /\ ops < MaxOps /\ ops' = ops + 1
       /\ \/ s.view = "list" /\ Show(p, "list", link)
          \/ /\ s.view # "list" /\ popup' = p /\ UNCHANGED store
             /\ Ask(link, "Usable", s.entry,
                    IF s.view = "detail" THEN "detail" ELSE IF s.draft THEN "draft" ELSE "none")
       /\ UNCHANGED <<agent, site, fill, filled>>
\* The popup loses the focus.
PopupClose ==
    /\ popup.open /\ ops < MaxOps /\ ops' = ops + 1
    /\ popup' = Closed /\ link' = Gone(link)
    /\ UNCHANGED <<agent, site, store, fill, filled>>

\* The page navigates; another client, or the inactivity timer, acts on the agent.
Navigate ==
    /\ ops < MaxOps /\ ops' = ops + 1 /\ site' \in Pages \ {site}
    /\ UNCHANGED <<agent, link, popup, store, fill, filled>>
Elsewhere ==
    /\ ops < MaxOps /\ ops' = ops + 1
    /\ \/ agent.state = "ok" /\ agent' = [agent EXCEPT !.state = "locked"]
       \/ agent.state # "ok" /\ agent' = [agent EXCEPT !.state = "ok"]
       \/ \E id \in agent.ids : agent' = [agent EXCEPT !.ids = @ \ {id}]
    /\ UNCHANGED <<site, link, popup, store, fill, filled>>

Next ==
    \/ Serve \/ Deliver \/ Handle \/ FormMessage
    \/ User \/ PopupOpen \/ PopupClose \/ Navigate \/ Elsewhere
Spec == Init /\ [][Next]_vars

-----------------------------------------------------------------------------
(* Properties.                                                             *)

\* The form on the screen is the one of the entry that Save would update
\* (currentEntry), whatever detail or edit answers arrive late.
EditsCurrent == popup.view = "edit" => popup.form = popup.current

\* A page that has a host is only ever filled with the login of its own site, also
\* when the tab navigates while the entry is fetched or while the message is on its
\* way.  (Content scripts skip the comparison on a page without a host, so a tab that
\* goes to one while the message is on its way is filled.)
FilledWhereMatched == \A f \in filled : f[2] # None => f[1] = f[2]

\* What storage.session holds while the popup is open is what it shows, so that
\* closing it at any moment loses neither the view nor the filters.
StateKept ==
    popup.open /\ popup.shown =>
        IF popup.view = "locked" THEN store = None
        ELSE store # None /\ [store EXCEPT !.draft = FALSE] = [Snapshot(popup) EXCEPT !.draft = FALSE]
=============================================================================
