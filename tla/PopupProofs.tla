----------------------------- MODULE PopupProofs ----------------------------
(***************************************************************************)
(* The popup for any sites and notes, any number of requests on their way  *)
(* and any length of run.                                                  *)
(*                                                                         *)
(* Answers arrive in every view, so the proof goes by what a handler does  *)
(* to the screen: it goes to another view (Show, EditForm), which also     *)
(* saves the state, it leaves what is saved alone (Agree), or the popup is *)
(* closed.                                                                 *)
(***************************************************************************)
EXTENDS Popup, SequenceTheorems, TLAPS

Ids == Entries \cup {None}
Views == {"list", "detail", "edit", "locked"}
Kinds == States \cup {"Lock", "Pin", "Entries", "Sync", "Meta", "Note", "Edit", "Fill",
                      "Open", "Save", "Delete"}
Args == BOOLEAN \cup {"none", "draft", "detail", "fav", "query", "domain", "fallback"}

Popups == [open : BOOLEAN, shown : BOOLEAN, view : Views, domain : Pages,
           current : Ids, form : Ids, dirty : BOOLEAN, detail : Ids, cached : BOOLEAN,
           search : BOOLEAN, fav : BOOLEAN, rows : SUBSET Entries, domainMatch : BOOLEAN,
           armed : BOOLEAN]
Agents == [state : {"ok", "locked", "login"}, ids : SUBSET Entries]
\* Only a login is filled or opened.
Requests == {r \in [kind : Kinds, id : Ids, arg : Args, dead : BOOLEAN] :
                r.kind \in {"Fill", "Open"} => r.id \in Sites}
Answers == [req : Requests, code : {"ok", "locked", "login", "err"}, ids : SUBSET Entries]
Links == [waiting : Seq(Requests), reply : Seq(Answers), inbox : Seq(Answers)]

\* The state s is what a popup p, closed at this moment, has to find again.
Kept(p, s) ==
    IF p.view = "locked" THEN s = None
    ELSE s # None /\ [s EXCEPT !.draft = FALSE] = [Snapshot(p) EXCEPT !.draft = FALSE]
\* EditsCurrent and StateKept, of a popup and a store.
Shows(p, s) ==
    /\ p.view = "edit" => p.form = p.current
    /\ p.open /\ p.shown => Kept(p, s)

\* No message on its way to a page takes a login to another site than its own.
FillsMatch == \A m \in fill : m.login = m.expectedHost

\* What the popup's handlers change.
Screen ==
    /\ popup \in Popups /\ link \in Links /\ store \in Snapshots \cup {None}
    /\ Shows(popup, store)

Inv == agent \in Agents /\ site \in Pages /\ Screen /\ FillsMatch /\ FilledWhereMatched

\* r differs from p only in what neither the screen's identity nor the saved
\* state depends on (besides the draft).
Agree(p, r) ==
    /\ r \in Popups
    /\ r.open = p.open /\ r.shown = p.shown /\ r.view = p.view /\ r.domain = p.domain
    /\ r.current = p.current /\ r.form = p.form /\ r.search = p.search /\ r.fav = p.fav
-----------------------------------------------------------------------------
(* The saved state *)

\* A saved popup is a snapshot, and not the absence of one.
LEMMA SnapshotType ==
    ASSUME NEW p \in Popups
    PROVE  Snapshot(p) \in Snapshots /\ Snapshot(p) # None
  <1>1. Snapshot(p) \in Snapshots
    BY DEF Popups, Snapshot, Snapshots, Ids, Views
  <1> QED
    BY <1>1, NoneAssumption

\* But for the draft, two popups that agree are saved alike.
LEMMA AgreeSaved ==
    ASSUME NEW p \in Popups, NEW r, Agree(p, r)
    PROVE  [Snapshot(r) EXCEPT !.draft = FALSE] = [Snapshot(p) EXCEPT !.draft = FALSE]
<1> DEFINE a == [Snapshot(r) EXCEPT !.draft = FALSE]
           b == [Snapshot(p) EXCEPT !.draft = FALSE]
<1>1. a \in Snapshots /\ b \in Snapshots
  BY SnapshotType DEF Agree, Snapshots
<1>2. /\ a.domain = b.domain /\ a.view = b.view /\ a.entry = b.entry
      /\ a.search = b.search /\ a.fav = b.fav
  BY DEF Agree, Snapshot
<1>3. a.draft = b.draft
  BY SnapshotType DEF Agree, Snapshots
<1>4. a = b
  <2> HIDE DEF a, b
  <2> QED
    BY <1>1, <1>2, <1>3 DEF Snapshots
<1> QED
  BY <1>4

\* What a snapshot shows depends on no more than that.
LEMMA AgreeShows ==
    ASSUME NEW p \in Popups, NEW r, NEW s, Agree(p, r), Shows(p, s)
    PROVE  Shows(r, s)
  BY AgreeSaved DEF Agree, Shows, Kept

\* Saving keeps the state of every popup that agrees with the saved one.
LEMMA SavedKept ==
    ASSUME NEW p \in Popups, NEW r, Agree(p, r)
    PROVE  Kept(r, Saved(p)) /\ Saved(p) \in Snapshots \cup {None}
  BY AgreeSaved, SnapshotType DEF Agree, Kept, Saved
-----------------------------------------------------------------------------
(* The link *)

\* The operations of the link leave a link.
LEMMA LinkOps ==
    ASSUME NEW l \in Links
    PROVE  /\ \A r \in Requests : Enqueue(l, <<r>>) \in Links
           /\ l.waiting # <<>> => \A a \in Answers : Answered(l, a) \in Links
           /\ l.waiting # <<>> => [l EXCEPT !.waiting = Tail(@)] \in Links
           /\ Delivered(l) \in Links
           /\ l.inbox # <<>> => Taken(l) \in Links /\ Head(l.inbox) \in Answers
           /\ l.waiting # <<>> => Head(l.waiting) \in Requests
<1>0. l.waiting \in Seq(Requests) /\ l.reply \in Seq(Answers) /\ l.inbox \in Seq(Answers)
  BY DEF Links
<1>1. ASSUME NEW r \in Requests PROVE Enqueue(l, <<r>>) \in Links
  <2>1. l.waiting \o <<r>> \in Seq(Requests)
    BY <1>0
  <2> QED
    BY <2>1 DEF Enqueue, Links
<1>2. ASSUME l.waiting # <<>> PROVE Tail(l.waiting) \in Seq(Requests)
  BY <1>0, <1>2
<1>3. ASSUME l.waiting # <<>>, NEW a \in Answers PROVE Answered(l, a) \in Links
  <2>1. <<a>> \in Seq(Answers)
    OBVIOUS
  <2> QED
    BY <1>2, <1>3, <2>1 DEF Answered, Links
<1>4. ASSUME l.waiting # <<>> PROVE [l EXCEPT !.waiting = Tail(@)] \in Links
  BY <1>2, <1>4 DEF Links
<1>5. Delivered(l) \in Links
  <2>1. l.inbox \o l.reply \in Seq(Answers) /\ <<>> \in Seq(Answers)
    BY <1>0
  <2> QED
    BY <2>1 DEF Delivered, Links
<1>6. ASSUME l.inbox # <<>> PROVE Taken(l) \in Links /\ Head(l.inbox) \in Answers
  <2>1. Tail(l.inbox) \in Seq(Answers) /\ Head(l.inbox) \in Answers
    BY <1>0, <1>6
  <2> QED
    BY <2>1 DEF Taken, Links
<1>7. ASSUME l.waiting # <<>> PROVE Head(l.waiting) \in Requests
  BY <1>0, <1>7
<1> QED
  BY <1>1, <1>3, <1>4, <1>5, <1>6, <1>7

\* A popup that closes leaves its requests to the agent.
LEMMA GoneType ==
    ASSUME NEW l \in Links
    PROVE  Gone(l) \in Links
<1> DEFINE w == [i \in DOMAIN l.waiting |-> [l.waiting[i] EXCEPT !.dead = TRUE]]
<1>1. l.waiting \in Seq(Requests) /\ <<>> \in Seq(Answers)
  BY DEF Links
<1>2. w \in Seq(Requests)
  <2>1. PICK n \in Nat : l.waiting \in [1 .. n -> Requests]
    BY <1>1
  <2>2. ASSUME NEW i \in 1 .. n PROVE [l.waiting[i] EXCEPT !.dead = TRUE] \in Requests
    BY <2>1 DEF Requests
  <2>3. w \in [1 .. n -> Requests]
    BY <2>1, <2>2
  <2> HIDE DEF w
  <2> QED
    BY <2>3, SeqDef
<1>3. Gone(l) = [l EXCEPT !.waiting = w, !.reply = <<>>, !.inbox = <<>>]
  BY DEF Gone, Links
<1> HIDE DEF w
<1> QED
  BY <1>1, <1>2, <1>3 DEF Links
-----------------------------------------------------------------------------
(* The screen *)

\* A closed popup shows nothing, so agrees with every snapshot.
LEMMA ClosedShows ==
    ASSUME NEW s
    PROVE  Closed \in Popups /\ Shows(Closed, s)
  BY DEF Pages, Closed, Popups, Ids, Views, Shows

\* A request that is no fill or opening.
LEMMA AskType ==
    ASSUME NEW q \in Links, NEW kind \in Kinds, NEW id \in Ids, NEW arg \in Args,
           kind \in {"Fill", "Open"} => id \in Sites, Ask(q, kind, id, arg)
    PROVE  link' \in Links
<1>1. Request(kind, id, arg) \in Requests
  BY DEF Request, Requests
<1> QED
  BY <1>1, LinkOps DEF Ask

\* Updating the list changes nothing that is saved.
LEMMA UpdateResultsAgree ==
    ASSUME NEW p \in Popups, NEW q \in Links, UpdateResults(p, q)
    PROVE  Agree(p, popup') /\ link' \in Links
<1>1. CASE p.cached
  <2>1. Listing(p, q, p.search)
    BY <1>1 DEF UpdateResults
  <2>2. Agree(p, popup')
    BY <2>1 DEF Listing, Agree, Popups
  <2>3. link' \in Links
    BY <2>1, AskType DEF Listing, Kinds, Ids, Args
  <2> QED
    BY <2>2, <2>3
<1>2. CASE ~p.cached
  <2>1. popup' = p /\ Ask(q, "Config", None, p.search)
    BY <1>2 DEF UpdateResults
  <2>2. p.search \in Args
    BY DEF Popups, Args
  <2>3. link' \in Links
    BY <2>1, <2>2, AskType DEF Kinds, States, Ids
  <2> QED
    BY <2>1, <2>3 DEF Agree
<1> QED
  BY <1>1, <1>2

\* showView saves what it shows.
LEMMA ShowShows ==
    ASSUME NEW p \in Popups, NEW q \in Links, NEW view \in Views \ {"edit"}, Show(p, view, q)
    PROVE  Screen'
<1> DEFINE r == [p EXCEPT !.view = view, !.shown = TRUE]
<1>1. r \in Popups /\ r.view = view
  BY DEF Popups
<1>2. /\ store' = Saved(r)
      /\ IF view = "list" THEN UpdateResults(r, q) ELSE popup' = r /\ link' = q
  BY DEF Show
<1> HIDE DEF r
<1>3. Agree(r, popup') /\ link' \in Links
  BY <1>1, <1>2, UpdateResultsAgree DEF Agree
<1>4. popup' \in Popups /\ popup'.view # "edit"
  BY <1>1, <1>3 DEF Agree
<1> QED
  BY <1>1, <1>2, <1>3, <1>4, SavedKept DEF Shows, Screen

\* So does an edit form, but for a draft that is put into it afterwards.
LEMMA EditFormShows ==
    ASSUME NEW q \in Links, NEW id \in Ids, NEW arg, popup \in Popups, EditForm(id, arg, q)
    PROVE  Screen'
<1> DEFINE p == [popup EXCEPT !.view = "edit", !.shown = TRUE, !.current = id, !.form = id,
                              !.dirty = FALSE]
<1>1. p \in Popups /\ p.form = id /\ p.current = id
  BY DEF Popups, Views
<1>2. store' = Saved(p) /\ link' = q /\ popup' = [p EXCEPT !.dirty = (arg = "draft")]
  BY DEF EditForm
<1> HIDE DEF p
<1>3. Agree(p, popup')
  BY <1>1, <1>2 DEF Agree, Popups
<1> QED
  BY <1>1, <1>2, <1>3, SavedKept DEF Shows, Agree, Screen

\* A handler that saves nothing and changes nothing that is saved.
LEMMA AgreeSteps ==
    ASSUME Screen, Agree(popup, popup'), link' \in Links, UNCHANGED store
    PROVE  Screen'
  BY AgreeShows DEF Agree, Screen

\* A popup that is closed shows nothing.
LEMMA CloseSteps ==
    ASSUME Screen, NEW q \in Links, popup' = Closed, link' = Gone(q), UNCHANGED store
    PROVE  Screen'
  BY ClosedShows, GoneType DEF Screen
-----------------------------------------------------------------------------
(* The answers *)

\* The config arrives, and with it the screen to restore.
LEMMA ConfigStep ==
    ASSUME Screen, NEW m \in Answers, NEW q \in Links, ConfigReceived(m, q)
    PROVE  Screen'
<1> DEFINE p == [popup EXCEPT !.cached = (m.code = "ok")]
<1>1. p \in Popups /\ Agree(popup, p)
  BY DEF Screen, Popups, Agree
<1>2. /\ UNCHANGED store
      /\ \/ Listing(p, q, m.req.arg)
         \/ popup' = p /\ link' = q
         \/ popup' = p /\ Ask(q, "RequestUnlock", None, "none")
  BY DEF ConfigReceived
<1> HIDE DEF p
<1>3. Agree(popup, popup')
  BY <1>1, <1>2 DEF Listing, Agree, Popups
<1>4. link' \in Links
  BY <1>2, AskType DEF Listing, Kinds, States, Ids, Args
<1> QED
  BY <1>2, <1>3, <1>4, AgreeSteps

\* The entries arrive.
LEMMA EntriesStep ==
    ASSUME Screen, NEW m \in Answers, NEW q \in Links, EntriesReceived(m, q)
    PROVE  Screen'
<1>1. Agree(popup, popup') /\ UNCHANGED store
  <2>0. popup \in Popups /\ m.ids \subseteq Entries
    BY DEF Screen, Answers
  <2>1. CASE UNCHANGED <<popup, store>>
    BY <2>0, <2>1 DEF Agree
  <2>2. CASE /\ popup.domain \in m.ids /\ UNCHANGED store
             /\ popup' = [popup EXCEPT !.rows = {popup.domain}, !.domainMatch = TRUE]
    BY <2>0, <2>2 DEF Agree, Popups
  <2>3. CASE popup' = [popup EXCEPT !.rows = m.ids] /\ UNCHANGED store
    BY <2>0, <2>3 DEF Agree, Popups
  <2> QED
    BY <2>1, <2>2, <2>3 DEF EntriesReceived, Ignored
<1>2. link' \in Links
  BY AskType DEF EntriesReceived, Ignored, Kinds, Ids, Args
<1> QED
  BY <1>1, <1>2, AgreeSteps

\* An entry's details are shown.
LEMMA DetailStep ==
    ASSUME Screen, NEW id \in Ids, NEW q \in Links, ShowDetail(id, q)
    PROVE  Screen'
<1> DEFINE p == [popup EXCEPT !.current = id, !.detail = id]
<1>1. p \in Popups
  BY DEF Screen, Popups
<1>2. Show(p, "detail", q)
  BY DEF ShowDetail
<1> HIDE DEF p
<1> QED
  BY <1>1, <1>2, ShowShows DEF Views

\* Nothing but the link changes.
LEMMA LinkSteps ==
    ASSUME Screen, link' \in Links, UNCHANGED <<popup, store>>
    PROVE  Screen'
  BY DEF Screen

\* What every answer of these kinds carries.
LEMMA AnswerFields ==
    ASSUME NEW m \in Answers
    PROVE  m.req.id \in Ids /\ m.req.arg \in Args
  BY DEF Answers, Requests

\* Any answer that arrives.
LEMMA AnswerStep ==
    ASSUME Screen, NEW m \in Answers, NEW q \in Links, Answer(m, q)
    PROVE  Screen'
<1>0. popup \in Popups /\ m.req.id \in Ids /\ m.req.arg \in Args
  BY AnswerFields DEF Screen
<1>1. CASE ConfigReceived(m, q) \/ EntriesReceived(m, q)
  BY <1>1, ConfigStep, EntriesStep
<1>2. CASE ShowLockedView(q) \/ Show(popup, "list", q)
  BY <1>0, <1>2, ShowShows DEF ShowLockedView, Views
<1>3. CASE Ignored(q)
  BY <1>3, LinkSteps DEF Ignored
<1>4. CASE MetaReceived(m, q)
  <2>1. CASE Ask(q, "Note", m.req.id, "none") /\ UNCHANGED <<popup, store>>
    BY <1>0, <2>1, AskType, LinkSteps DEF Kinds, Args
  <2> QED
    BY <1>0, <1>3, <1>4, <2>1, DetailStep DEF MetaReceived
<1>5. CASE ShowDetail(m.req.id, q)
  BY <1>0, <1>5, DetailStep
<1>6. CASE EditReceived(m, q)
  <2>1. CASE EditForm(m.req.id, m.req.arg, q)
    BY <1>0, <2>1, EditFormShows
  <2>2. CASE link' = q /\ UNCHANGED store
             /\ popup' = [popup EXCEPT !.dirty = @ \/ m.req.arg = "draft"]
    <3>1. Agree(popup, popup')
      BY <1>0, <2>2 DEF Agree, Popups
    <3> QED
      BY <2>2, <3>1, AgreeSteps
  <2> QED
    BY <1>6, <2>1, <2>2 DEF EditReceived
<1>7. CASE UsableReceived(m, q)
  <2>1. CASE Ask(q, "Meta", m.req.id, "none") /\ UNCHANGED <<popup, store>>
    BY <1>0, <2>1, AskType, LinkSteps DEF Kinds, Args
  <2>2. CASE Ask(q, "Edit", m.req.id, m.req.arg) /\ UNCHANGED <<popup, store>>
    BY <1>0, <2>2, AskType, LinkSteps DEF Kinds
  <2>3. CASE EditForm(None, m.req.arg, q)
    BY <1>0, <2>3, EditFormShows DEF Ids
  <2> QED
    BY <1>2, <1>7, <2>1, <2>2, <2>3 DEF UsableReceived
<1>8. CASE UpdateResults(popup, q) /\ UNCHANGED store
  BY <1>0, <1>8, UpdateResultsAgree, AgreeSteps
<1> QED
  BY <1>1, <1>2, <1>3, <1>4, <1>5, <1>6, <1>7, <1>8 DEF Answer

\* An answer taken from the queue: a fill is sent to the page it was matched with.
LEMMA HandleStep ==
    ASSUME Inv, Handle
    PROVE  Inv'
<1> DEFINE m == Head(link.inbox)
           q == Taken(link)
<1>1. m \in Answers /\ q \in Links /\ Screen /\ site \in Pages
  BY LinkOps DEF Handle, Inv, Screen
<1>2. UNCHANGED <<agent, filled>>
  BY DEF Handle
<1>3. \/ Answer(m, q) /\ UNCHANGED <<site, fill>>
      \/ FillReceived(m, q) /\ UNCHANGED site
      \/ m.req.kind = "Open" /\ OpenReceived(m, q) /\ UNCHANGED <<store, fill>>
  BY DEF Handle
<1> HIDE DEF m, q
<1>4. CASE Answer(m, q) /\ UNCHANGED <<site, fill>>
  BY <1>1, <1>2, <1>4, AnswerStep DEF Inv, FillsMatch, FilledWhereMatched
<1>5. CASE FillReceived(m, q) /\ UNCHANGED site
  <2>1. CASE link' = q /\ UNCHANGED <<popup, fill>>
    BY <1>1, <1>2, <1>5, <2>1, LinkSteps
       DEF FillReceived, Inv, FillsMatch, FilledWhereMatched
  <2>2. CASE /\ m.req.id = site
             /\ fill' = fill \cup {[login |-> m.req.id, expectedHost |-> site]}
             /\ popup' = Closed /\ link' = Gone(q)
    <3>1. Screen'
      BY <1>1, <1>5, <2>2, CloseSteps DEF FillReceived
    <3>2. FillsMatch'
      BY <2>2 DEF Inv, FillsMatch
    <3> QED
      BY <1>2, <1>5, <3>1, <3>2 DEF Inv, FilledWhereMatched
  <2> QED
    BY <1>5, <2>1, <2>2 DEF FillReceived
<1>6. CASE m.req.kind = "Open" /\ OpenReceived(m, q) /\ UNCHANGED <<store, fill>>
  <2>1. m.req.id \in Sites
    BY <1>1, <1>6 DEF Answers, Requests
  <2>2. Screen' /\ site' \in Pages
    BY <1>1, <1>6, <2>1, LinkSteps, CloseSteps DEF OpenReceived, Pages
  <2> QED
    BY <1>2, <1>6, <2>2 DEF Inv, FillsMatch, FilledWhereMatched
<1> QED
  BY <1>3, <1>4, <1>5, <1>6
-----------------------------------------------------------------------------
(* The agent, the page and the user *)

\* The agent answers with entries it has.
LEMMA ServeStep ==
    ASSUME Inv, Serve
    PROVE  Inv'
<1> DEFINE m == Head(link.waiting)
<1>1. m \in Requests /\ link \in Links /\ link.waiting # <<>>
  BY LinkOps DEF Serve, CanServe, Inv, Screen
<1>2. PICK code \in {"ok", "locked", "login", "err"} : agent' \in Agents /\ Replies(m, code)
  BY DEF Serve, Inv, Agents
<1> HIDE DEF m
<1>3. CASE m.dead
  BY <1>1, <1>2, <1>3, LinkOps, LinkSteps
     DEF Serve, Replies, Inv, FillsMatch, FilledWhereMatched
<1>4. CASE ~m.dead
  <2> DEFINE a == [req |-> m, code |-> code, ids |-> agent'.ids]
  <2>1. a \in Answers
    BY <1>1, <1>2 DEF Answers, Agents
  <2>2. link' = Answered(link, a)
    BY <1>2, <1>4 DEF Replies
  <2> HIDE DEF a
  <2> QED
    BY <1>1, <1>2, <2>1, <2>2, LinkOps, LinkSteps
       DEF Serve, Inv, FillsMatch, FilledWhereMatched
<1> QED
  BY <1>3, <1>4

\* The page is compared once more, so a message that comes late fills no page of another
\* host.
LEMMA FormMessageStep ==
    ASSUME Inv, FormMessage
    PROVE  Inv'
<1>1. PICK m \in fill : fill' = fill \ {m} /\ FillForm(m)
                        /\ UNCHANGED <<agent, site, link, popup, store, ops>>
  BY DEF FormMessage
<1>2. m.login = m.expectedHost
  BY DEF Inv, FillsMatch
<1>3. FilledWhereMatched'
  BY <1>1, <1>2 DEF FillForm, Inv, FilledWhereMatched
<1> QED
  BY <1>1, <1>3 DEF Inv, Screen, FillsMatch

\* A click that sends a request.
LEMMA AsksStep ==
    ASSUME Screen, NEW kind \in Kinds, NEW id \in Ids, Asks(kind, id),
           kind \in {"Fill", "Open"} => id \in Sites
    PROVE  Screen'
  BY AskType, LinkSteps DEF Asks, Screen, Args

\* A filter is saved with the popup that has it.
LEMMA FilterStep ==
    ASSUME Screen, NEW p \in Popups, p.view = "list", UpdateResults(p, link), store' = Saved(p)
    PROVE  Screen'
<1>1. Agree(p, popup') /\ link' \in Links
  BY UpdateResultsAgree DEF Screen
<1> QED
  BY <1>1, SavedKept DEF Screen, Shows, Agree

\* Any click of the user.
LEMMA UserStep ==
    ASSUME Screen, User
    PROVE  Screen'
<1>0. popup \in Popups /\ link \in Links
  BY DEF Screen
<1>1. CASE SearchInput
  <2>1. [popup EXCEPT !.search = ~@] \in Popups /\ [popup EXCEPT !.search = ~@].view = "list"
    BY <1>0, <1>1 DEF SearchInput, Header, Popups
  <2> QED
    BY <1>1, <2>1, FilterStep DEF SearchInput
<1>2. CASE FavClicked
  <2>1. [popup EXCEPT !.fav = ~@] \in Popups /\ [popup EXCEPT !.fav = ~@].view = "list"
    BY <1>0, <1>2 DEF FavClicked, Header, Popups
  <2> QED
    BY <1>2, <2>1, FilterStep DEF FavClicked
<1>3. CASE SyncClicked
  BY <1>3, AsksStep DEF SyncClicked, Kinds, Ids
<1>4. CASE LockClicked
  <2>1. Agree(popup, popup') /\ UNCHANGED store
    BY <1>0, <1>4 DEF LockClicked, Agree, Popups
  <2>2. link' \in Links
    BY <1>0, <1>4, AskType DEF LockClicked, Kinds, Ids, Args
  <2> QED
    BY <2>1, <2>2, AgreeSteps
<1>5. CASE AddClicked
  BY <1>0, <1>5, EditFormShows DEF AddClicked, Ids
<1>6. CASE RowClicked
  <2>1. PICK id \in popup.rows :
            Asks(IF id \in Notes THEN "Meta" ELSE IF popup.domainMatch THEN "Fill" ELSE "Open", id)
    BY <1>6 DEF RowClicked
  <2>2. id \in Entries
    BY <1>0 DEF Popups
  <2>3. CASE id \in Notes
    BY <2>1, <2>2, <2>3, AsksStep DEF Kinds, Ids
  <2>4. CASE id \notin Notes
    BY <2>1, <2>2, <2>4, AsksStep DEF Kinds, Ids, Entries
  <2> QED
    BY <2>3, <2>4
<1>7. CASE FillClicked
  <2>1. PICK id \in popup.rows \cap Sites : Asks("Fill", id)
    BY <1>7 DEF FillClicked
  <2> QED
    BY <2>1, AsksStep DEF Kinds, Ids, Entries
<1>8. CASE ViewClicked
  <2>1. PICK id \in popup.rows : Asks("Meta", id)
    BY <1>8 DEF ViewClicked
  <2>2. id \in Ids
    BY <1>0 DEF Popups, Ids
  <2> QED
    BY <2>1, <2>2, AsksStep DEF Kinds
<1>9. CASE EditClicked \/ SaveClicked
  <2>1. popup.current \in Ids
    BY <1>0 DEF Popups
  <2> QED
    BY <1>9, <2>1, AsksStep DEF EditClicked, SaveClicked, Kinds
<1>10. CASE DeleteClicked \/ DisarmDelete
  <2>1. Agree(popup, popup') /\ UNCHANGED store
    BY <1>0, <1>10 DEF DeleteClicked, DisarmDelete, Agree, Popups
  <2>2. popup.current \in Ids
    BY <1>0 DEF Popups
  <2>3. link' \in Links
    BY <1>0, <1>10, <2>2, AskType DEF DeleteClicked, DisarmDelete, Kinds, Args
  <2> QED
    BY <2>1, <2>3, AgreeSteps
<1>11. CASE BackClicked
  BY <1>0, <1>11, ShowShows DEF BackClicked, Views
<1>12. CASE EditInput
  <2>1. popup' \in Popups /\ Agree(popup, popup') /\ Agree(popup', popup')
    BY <1>0, <1>12 DEF EditInput, Agree, Popups
  <2>2. store' = Saved(popup') /\ link' = link
    BY <1>12 DEF EditInput
  <2>3. popup'.view = "edit" => popup'.form = popup'.current
    BY <2>1 DEF Agree, Screen, Shows
  <2> QED
    BY <1>0, <2>1, <2>2, <2>3, SavedKept DEF Screen, Shows
<1>13. CASE SubmitPin
  BY <1>13, AsksStep DEF SubmitPin, Kinds, Ids
<1> QED
  BY <1>1, <1>2, <1>3, <1>4, <1>5, <1>6, <1>7, <1>8, <1>9, <1>10, <1>11, <1>12, <1>13
     DEF User

\* restorePopupState: a stored view is asked for again, and not shown before.
LEMMA PopupOpenStep ==
    ASSUME Screen, site \in Pages, PopupOpen
    PROVE  Screen'
<1> DEFINE fresh == [Closed EXCEPT !.open = TRUE, !.domain = site]
           s == IF store # None /\ store.domain = site THEN store ELSE Snapshot(fresh)
           p == [fresh EXCEPT !.search = s.search, !.fav = s.fav]
           arg == IF s.view = "detail" THEN "detail" ELSE IF s.draft THEN "draft" ELSE "none"
<1>1. fresh \in Popups /\ fresh.view = "list" /\ fresh.shown = FALSE
  BY ClosedShows DEF Popups, Closed
<1>2. \/ Show(p, "list", link)
      \/ popup' = p /\ UNCHANGED store /\ Ask(link, "Usable", s.entry, arg)
  BY DEF PopupOpen
<1> HIDE DEF fresh
<1>3. s \in Snapshots
  BY <1>1, SnapshotType DEF Screen
<1> HIDE DEF s
<1>4. p \in Popups /\ p.view = "list" /\ p.shown = FALSE
  BY <1>1, <1>3 DEF Popups, Snapshots
<1>5. s.entry \in Ids
  BY <1>3 DEF Snapshots, Ids
<1> HIDE DEF p
<1>6. CASE Show(p, "list", link)
  BY <1>4, <1>6, ShowShows DEF Screen, Views
<1>7. CASE popup' = p /\ UNCHANGED store /\ Ask(link, "Usable", s.entry, arg)
  <2>1. link' \in Links
    BY <1>5, <1>7, AskType DEF Screen, Kinds, States, Args
  <2> QED
    BY <1>4, <1>7, <2>1 DEF Screen, Shows
<1> QED
  BY <1>2, <1>6, <1>7
-----------------------------------------------------------------------------
\* The popup starts closed, with nothing saved.
LEMMA InitInv == Init => Inv
<1> SUFFICES ASSUME Init PROVE Inv
  OBVIOUS
<1>1. agent \in Agents /\ site \in Pages
  BY DEF Init, Agents
<1>2. link \in Links
  BY DEF Init, NewLink, Links
<1> QED
  BY <1>1, <1>2, ClosedShows DEF Init, Inv, Screen, FillsMatch, FilledWhereMatched

\* Every step keeps Inv.
LEMMA NextInv == Inv /\ [Next]_vars => Inv'
<1> SUFFICES ASSUME Inv, [Next]_vars PROVE Inv'
  OBVIOUS
<1>0. Screen /\ site \in Pages /\ agent \in Agents /\ link \in Links
  BY DEF Inv, Screen
<1>1. CASE Serve
  BY <1>1, ServeStep
<1>2. CASE Deliver
  BY <1>0, <1>2, LinkOps, LinkSteps DEF Deliver, Inv, FillsMatch, FilledWhereMatched
<1>3. CASE Handle
  BY <1>3, HandleStep
<1>4. CASE FormMessage
  BY <1>4, FormMessageStep
<1>5. CASE User
  BY <1>0, <1>5, UserStep DEF User, Inv, FillsMatch, FilledWhereMatched
<1>6. CASE PopupOpen
  BY <1>0, <1>6, PopupOpenStep DEF PopupOpen, Inv, FillsMatch, FilledWhereMatched
<1>7. CASE PopupClose
  BY <1>0, <1>7, CloseSteps DEF PopupClose, Inv, FillsMatch, FilledWhereMatched
<1>8. CASE Navigate
  BY <1>0, <1>8 DEF Navigate, Inv, Screen, FillsMatch, FilledWhereMatched
<1>9. CASE Elsewhere
  <2>1. agent' \in Agents
    BY <1>0, <1>9 DEF Elsewhere, Agents
  <2> QED
    BY <1>9, <2>1 DEF Elsewhere, Inv, Screen, FillsMatch, FilledWhereMatched
<1>10. CASE UNCHANGED vars
  BY <1>10 DEF vars, Inv, Screen, FillsMatch, FilledWhereMatched
<1> QED
  BY <1>1, <1>2, <1>3, <1>4, <1>5, <1>6, <1>7, <1>8, <1>9, <1>10 DEF Next

\* The inductive invariant.
LEMMA Invariance == Spec => []Inv
  BY InitInv, NextInv, PTL DEF Spec

\* Save updates the entry whose form is on the screen, in whatever order details
\* and edit forms arrive.
THEOREM EditsCurrentHolds == Spec => []EditsCurrent
<1>1. Inv => EditsCurrent
  BY DEF Inv, Screen, Shows, EditsCurrent
<1> QED
  BY <1>1, Invariance, PTL

\* A page with a host gets only the login of its own site, for any number of fills on
\* their way and any navigation of the tab meanwhile (fillEntry, content.js).  Nothing is
\* claimed of pages without a host, on which content.js compares nothing.
THEOREM FilledWhereMatchedHolds == Spec => []FilledWhereMatched
<1>1. Inv => FilledWhereMatched
  BY DEF Inv
<1> QED
  BY <1>1, Invariance, PTL

\* Closing the popup at any moment loses neither the view nor the filters: all that
\* changes them saves them (savePopupState).
THEOREM StateKeptHolds == Spec => []StateKept
<1>1. Inv => StateKept
  BY DEF Inv, Screen, Shows, Kept, StateKept
<1> QED
  BY <1>1, Invariance, PTL
=============================================================================
