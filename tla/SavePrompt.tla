----------------------------- MODULE SavePrompt -----------------------------
(***************************************************************************)
(* The browser extension's background script: the credential a tab has     *)
(* just submitted is kept in storage.session until the agent has said      *)
(* whether to offer Save or Update and the user has answered the bar.      *)
(*                                                                         *)
(* Every `await` is a point where another handler may run, so a handler is *)
(* a task with a program counter and the copy of the pending record it has *)
(* read.  All requests share one native port, answered in order.           *)
(* storage.session and the alarms outlive the worker; the browser stops a  *)
(* worker only when it is idle, when nothing modelled here is lost.        *)
(***************************************************************************)
EXTENDS Naturals, Sequences, FiniteSets

CONSTANTS
    Tabs,
    Users,       \* a user name on a site
    Passwords,
    Stored,      \* the logins in the vault at the start
    Submitted,   \* the logins that pages submit
    None,
    MaxTasks,    \* handlers that may run at a time
    MaxOps       \* bound on what the user, the pages and other clients do

VARIABLES
    agent,       \* locked, its logins, and whether VAULT_UNLOCKED has told of the last unlock
    pending,     \* storage.session, per tab
    alarm,       \* the tabs whose pendingSaveExpire alarm is set
    timer,       \* the tabs whose SPA fallback timer runs
    open,        \* the tabs that have not been closed
    bar,         \* the bar in each tab's page
    tasks, port, ops
vars == <<agent, pending, alarm, timer, open, bar, tasks, port, ops>>
tabVars == <<timer, open>>

ASSUME LoginsAssumption ==
    Stored \in Seq(Users \X Passwords) /\ Submitted \subseteq Users \X Passwords

Slots == 1 .. MaxTasks
\* entry: the index of the vault's login that CheckLoginMatch has named.
Fresh(c) == [cred |-> c, mode |-> "none", entry |-> 0, evaluated |-> FALSE, awaiting |-> FALSE]
IdleTask == [pc |-> "idle", tab |-> None, local |-> None, arg |-> "none", rest |-> {}]
Waiting == {"config", "match", "write", "pin"}

Init ==
    /\ agent \in [locked : BOOLEAN, told : {FALSE}, logins : {Stored}]
    /\ pending = [t \in Tabs |-> None] /\ bar = [t \in Tabs |-> None]
    /\ alarm = {} /\ timer = {} /\ open = Tabs
    /\ tasks = [s \in Slots |-> IdleTask]
    /\ port = [queue |-> <<>>, wire |-> <<>>] /\ ops = 0

-----------------------------------------------------------------------------
(* sendToAgent and the native port.                                        *)

RequestOf(k) ==
    CASE k.pc = "config" -> [kind |-> "GetConfig"]
      [] k.pc = "match"  -> [kind |-> "CheckLoginMatch", cred |-> k.local.cred]
      [] k.pc = "pin"    -> [kind |-> "UnlockWithPin"]
      [] k.pc = "write" /\ k.arg = "save" -> [kind |-> "AddEntry", cred |-> k.local.cred]
      [] k.pc = "write" /\ k.arg = "update" ->
           [kind |-> "UpdateLoginPassword", cred |-> k.local.cred, entry |-> k.local.entry]
      [] OTHER -> [kind |-> "none"]

\* processQueue: the head of the queue is posted when nothing is on the wire.
Processed(p, ks) ==
    IF p.wire = <<>> /\ p.queue # <<>>
    THEN [p EXCEPT !.wire = <<[req |-> RequestOf(ks[Head(p.queue)]), resp |-> [kind |-> "none"]]>>]
    ELSE p
\* Task s becomes k and waits for its request's answer.
SendToAgent(p, s, k) ==
    /\ tasks' = [tasks EXCEPT ![s] = k]
    /\ port' = Processed([p EXCEPT !.queue = Append(@, s)], tasks')
\* Task s becomes k, which asks for nothing.
Goto(p, s, k) == tasks' = [tasks EXCEPT ![s] = k] /\ port' = Processed(p, tasks')

\* handle_check_login_match: a login with this password, or the first of this user.
SameUser(c) == {i \in DOMAIN agent.logins : agent.logins[i][1] = c[1]}
LoginMatch(c) ==
    [kind |-> "LoginMatch", same |-> \E i \in DOMAIN agent.logins : agent.logins[i] = c,
     entry |-> IF SameUser(c) = {} THEN 0
               ELSE CHOOSE i \in SameUser(c) : \A j \in SameUser(c) : i <= j]
Failed == [kind |-> "Error"]
Ack == [kind |-> "Ack"]

Responds(resp) == port' = [port EXCEPT !.wire[1].resp = resp]
\* The agent's handlers; a server call or a PIN may fail.
Serve ==
    /\ port.wire # <<>> /\ port.wire[1].resp.kind = "none"
    /\ LET req == port.wire[1].req
       IN \/ /\ req.kind = "GetConfig" /\ UNCHANGED agent
             /\ Responds([kind |-> "Config", usable |-> ~agent.locked])
          \/ /\ req.kind = "CheckLoginMatch" /\ UNCHANGED agent
             /\ Responds(IF agent.locked THEN Failed ELSE LoginMatch(req.cred))
          \/ /\ req.kind = "UnlockWithPin" /\ Responds(Ack)
             /\ agent' = [agent EXCEPT !.locked = FALSE]
          \/ /\ req.kind = "AddEntry" /\ ~agent.locked /\ Responds(Ack)
             /\ agent' = [agent EXCEPT !.logins = Append(@, req.cred)]
          \/ /\ req.kind = "UpdateLoginPassword" /\ ~agent.locked /\ Responds(Ack)
             /\ agent' = [agent EXCEPT !.logins[req.entry] = <<@[1], req.cred[2]>>]
          \/ /\ req.kind \in {"UnlockWithPin", "AddEntry", "UpdateLoginPassword"}
             /\ Responds(Failed) /\ UNCHANGED agent
    /\ UNCHANGED <<pending, alarm, tabVars, bar, tasks, ops>>

-----------------------------------------------------------------------------
(* The handlers.  A task that ends takes the next tab of its sweep, if any. *)

Reading(tab, rest) == [IdleTask EXCEPT !.pc = "read", !.tab = tab, !.rest = rest]
End(p, s, k) ==
    IF k.rest = {} THEN Goto(p, s, IdleTask)
    ELSE \E t \in k.rest : Goto(p, s, Reading(t, k.rest \ {t}))

\* clearPendingSave removes the record, then the alarm; `then` comes after.
Clear(p, s, k, then) == Goto(p, s, [k EXCEPT !.pc = "remove", !.arg = then])
Remove(s) ==
    /\ tasks[s].pc = "remove"
    /\ pending' = [pending EXCEPT ![tasks[s].tab] = None]
    /\ Goto(port, s, [tasks[s] EXCEPT !.pc = "disarm"])
    /\ UNCHANGED <<agent, alarm, tabVars, bar, ops>>
Hidden(t) == bar' = [bar EXCEPT ![t] = None]
\* SAVE_BAR_ERROR: showSaveBarError.
BarError(t) ==
    bar' = [bar EXCEPT ![t] = IF @ = None THEN None ELSE [@ EXCEPT !.failed = TRUE]]
Disarm(s) ==
    LET k == tasks[s]
    IN /\ k.pc = "disarm"
       /\ alarm' = alarm \ {k.tab}
       /\ IF k.arg = "store" THEN Goto(port, s, [k EXCEPT !.pc = "store"]) ELSE End(port, s, k)
       /\ CASE k.arg = "hide"  -> Hidden(k.tab)
            [] k.arg = "error" -> BarError(k.tab)
            [] OTHER           -> UNCHANGED bar
       /\ UNCHANGED <<agent, pending, tabVars, ops>>

\* onLoginSubmitted, after the clear.
Store(s) ==
    LET k == tasks[s]
    IN /\ k.pc = "store"
       /\ pending' = [pending EXCEPT ![k.tab] = k.local]
       /\ alarm' = alarm \cup {k.tab} /\ timer' = timer \cup {k.tab}
       /\ End(port, s, k)
       /\ UNCHANGED <<agent, open, bar, ops>>

\* evaluatePendingSave reads the record ...
Skips(r) == r = None \/ (r # None /\ r.evaluated /\ ~r.awaiting)
Read(s) ==
    LET k == tasks[s]
        r == pending[k.tab]
    IN /\ k.pc = "read"
       /\ IF Skips(r) THEN End(port, s, k)
          ELSE Goto(port, s, [k EXCEPT !.pc = "mark", !.local = [r EXCEPT !.evaluated = TRUE]])
       /\ UNCHANGED <<agent, pending, alarm, tabVars, bar, ops>>
\* ... marks it, and asks the agent.
Mark(s) ==
    LET k == tasks[s]
    IN /\ k.pc = "mark"
       /\ pending' = [pending EXCEPT ![k.tab] = k.local]
       /\ SendToAgent(port, s, [k EXCEPT !.pc = "config"])
       /\ UNCHANGED <<agent, alarm, tabVars, bar, ops>>

\* Mutants: a deferral that stays evaluated, and one that writes the fields it
\* has computed into whatever record is stored by now.
DeferredEvaluated(r) == [r EXCEPT !.mode = "locked"]
Deferred(r) == [r EXCEPT !.awaiting = TRUE, !.evaluated = FALSE, !.mode = "locked"]
StoredRecordMerged(t, r) ==
    IF pending[t] = None THEN r ELSE [r EXCEPT !.cred = pending[t].cred]
StoredRecord(t, r) == r
\* The record is stored and the bar shown; a closed tab throws, which clears.
Offer(p, s, k, r) ==
    /\ pending' = [pending EXCEPT ![k.tab] = StoredRecord(k.tab, r)]
    /\ IF k.tab \in open
       THEN /\ bar' = [bar EXCEPT ![k.tab] = [mode |-> r.mode, busy |-> FALSE, failed |-> FALSE]]
            /\ End(p, s, k)
       ELSE UNCHANGED bar /\ Clear(p, s, k, "end")
ConfigAnswer(p, s, k, resp) ==
    IF resp.usable
    THEN /\ SendToAgent(p, s, [k EXCEPT !.pc = "match", !.local.awaiting = FALSE])
         /\ UNCHANGED <<pending, alarm, bar>>
    ELSE /\ Offer(p, s, k, Deferred(k.local))
         /\ alarm' = IF k.local.awaiting THEN alarm ELSE alarm \cup {k.tab}
\* decideBarMode.
MatchAnswer(p, s, k, resp) ==
    /\ UNCHANGED alarm
    /\ IF resp.kind # "LoginMatch" \/ resp.same
       THEN Clear(p, s, k, "end") /\ UNCHANGED <<pending, bar>>
       ELSE Offer(p, s, k, [k.local EXCEPT !.mode = IF resp.entry = 0 THEN "save" ELSE "update",
                                           !.entry = resp.entry])
WriteAnswer(p, s, k, resp) ==
    /\ UNCHANGED <<pending, alarm>>
    /\ IF resp = Ack THEN Clear(p, s, k, "hide") /\ UNCHANGED bar
       ELSE End(p, s, k) /\ BarError(k.tab)
\* The popup's submitPin: VAULT_UNLOCKED makes the background sweep every record.
PinAnswer(p, s, k, resp) ==
    /\ UNCHANGED <<pending, alarm, bar>>
    /\ IF resp = Ack
       THEN /\ agent' = [agent EXCEPT !.told = ~agent.locked]
            /\ End(p, s, [k EXCEPT !.rest = {t \in Tabs : pending[t] # None}])
       ELSE UNCHANGED agent /\ End(p, s, k)

\* port.onMessage: the answer goes to the head of the queue.
OnMessage ==
    /\ port.wire # <<>> /\ port.wire[1].resp.kind # "none"
    /\ LET s == Head(port.queue)
           p == [queue |-> Tail(port.queue), wire |-> <<>>]
           resp == port.wire[1].resp
       IN \/ tasks[s].pc = "config" /\ ConfigAnswer(p, s, tasks[s], resp) /\ UNCHANGED agent
          \/ tasks[s].pc = "match" /\ MatchAnswer(p, s, tasks[s], resp) /\ UNCHANGED agent
          \/ tasks[s].pc = "write" /\ WriteAnswer(p, s, tasks[s], resp) /\ UNCHANGED agent
          \/ tasks[s].pc = "pin" /\ PinAnswer(p, s, tasks[s], resp)
    /\ UNCHANGED <<tabVars, ops>>

\* A mutant: a failed evaluation keeps its record.
RejectedKeeps(k) == IF k.pc \in Waiting THEN IdleTask ELSE k
\* port.onDisconnect rejects every request: evaluations are cleared, a write
\* shows its error.
Rejected(k) ==
    CASE k.pc \in {"config", "match"} -> [k EXCEPT !.pc = "remove", !.arg = "end"]
      [] k.pc \in {"write", "pin"} -> IdleTask
      [] OTHER -> k
\* A mutant that leaves the rejected requests in the queue.
EmptiedKeepsQueue(p) == [p EXCEPT !.wire = <<>>]
Emptied(p) == [queue |-> <<>>, wire |-> <<>>]
OnDisconnect ==
    /\ port.queue # <<>>
    /\ port' = Emptied(port)
    /\ tasks' = [s \in Slots |-> Rejected(tasks[s])]
    /\ bar' = [t \in Tabs |->
                 IF bar[t] # None /\ \E s \in Slots : tasks[s].pc = "write" /\ tasks[s].tab = t
                 THEN [bar[t] EXCEPT !.failed = TRUE] ELSE bar[t]]
    /\ UNCHANGED <<agent, pending, alarm, tabVars>>

-----------------------------------------------------------------------------
(* Events that start a handler.                                            *)

Free == {s \in Slots : tasks[s].pc = "idle"}
Start(k) == \E s \in Free : (\A z \in Free : s <= z) /\ Goto(port, s, k)

\* setTimeout in onLoginSubmitted.
SpaFallback ==
    \E t \in timer : /\ Start(Reading(t, {})) /\ timer' = timer \ {t}
                     /\ UNCHANGED <<agent, pending, alarm, open, bar, ops>>

LoginSubmitted(t, c) ==
    /\ t \in open
    /\ Start([IdleTask EXCEPT !.pc = "remove", !.tab = t, !.local = Fresh(c), !.arg = "store"])
    /\ UNCHANGED <<agent, pending, alarm, tabVars, bar>>
\* A page load takes the bar with it.
TabComplete(t) ==
    /\ t \in open /\ Hidden(t) /\ Start(Reading(t, {}))
    /\ UNCHANGED <<agent, pending, alarm, tabVars>>
Clearing(t) == [IdleTask EXCEPT !.pc = "remove", !.tab = t, !.arg = "end"]
TabRemoved(t) ==
    /\ t \in open /\ open' = open \ {t} /\ Hidden(t) /\ Start(Clearing(t))
    /\ UNCHANGED <<agent, pending, alarm, timer>>
OnAlarm(t) ==
    /\ t \in alarm /\ alarm' = alarm \ {t} /\ Start(Clearing(t))
    /\ UNCHANGED <<agent, pending, tabVars, bar>>

\* SAVE_BAR_ACTION on its way to onBarAction.
BarAction(t, action) == Start([IdleTask EXCEPT !.pc = "bar", !.tab = t, !.arg = action])
PrimaryClicked(t) ==
    /\ bar[t] # None /\ ~bar[t].busy
    /\ IF bar[t].mode = "locked" THEN BarAction(t, "unlock") /\ UNCHANGED bar
       ELSE /\ BarAction(t, bar[t].mode)
            /\ bar' = [bar EXCEPT ![t].busy = TRUE]
    /\ UNCHANGED <<agent, pending, alarm, tabVars>>
DismissClicked(t) ==
    /\ bar[t] # None /\ ~bar[t].busy /\ Hidden(t) /\ BarAction(t, "dismiss")
    /\ UNCHANGED <<agent, pending, alarm, tabVars>>
\* The bar's timer: silent for a locked bar and after an error.
BarTimeout(t) ==
    /\ bar[t] # None /\ Hidden(t)
    /\ IF bar[t].mode = "locked" \/ bar[t].failed THEN UNCHANGED <<tasks, port>>
       ELSE BarAction(t, "dismiss")
    /\ UNCHANGED <<agent, pending, alarm, tabVars>>

\* onBarAction.
Bar(s) ==
    LET k == tasks[s]
        r == pending[k.tab]
    IN /\ k.pc = "bar"
       /\ IF r = None
          THEN /\ End(port, s, k)
               /\ IF k.arg = "dismiss" THEN UNCHANGED bar ELSE BarError(k.tab)
          ELSE /\ UNCHANGED bar
               /\ CASE k.arg = "unlock" /\ r.mode = "locked" -> End(port, s, k)
                    [] k.arg \in {"save", "update"} /\ r.mode = k.arg ->
                         SendToAgent(port, s, [k EXCEPT !.pc = "write", !.local = r])
                    [] OTHER -> Clear(port, s, k, IF k.arg = "dismiss" THEN "end" ELSE "error")
       /\ UNCHANGED <<agent, pending, alarm, tabVars, ops>>

PinSubmitted ==
    /\ agent.locked
    /\ \E s \in Free : (\A z \in Free : s <= z) /\ SendToAgent(port, s, [IdleTask EXCEPT !.pc = "pin"])
    /\ UNCHANGED <<agent, pending, alarm, tabVars, bar>>
\* Another client, or a popup that is closed before it hears its answer.
Elsewhere ==
    /\ agent' = [agent EXCEPT !.locked = ~agent.locked, !.told = FALSE]
    /\ UNCHANGED <<pending, alarm, tabVars, bar, tasks, port>>

Environment ==
    /\ ops < MaxOps /\ ops' = ops + 1
    /\ \/ \E t \in Tabs, c \in Submitted : LoginSubmitted(t, c)
       \/ \E t \in Tabs : \/ TabComplete(t) \/ TabRemoved(t) \/ OnAlarm(t)
                          \/ PrimaryClicked(t) \/ DismissClicked(t) \/ BarTimeout(t)
       \/ PinSubmitted \/ Elsewhere \/ OnDisconnect

Step(s) == Remove(s) \/ Disarm(s) \/ Store(s) \/ Read(s) \/ Mark(s) \/ Bar(s)
Proceed == Serve \/ OnMessage \/ SpaFallback \/ \E s \in Slots : Step(s)
Next == Proceed \/ Environment
Spec == Init /\ [][Next]_vars
\* The event loop runs every handler, the timers fire and the agent answers.
FairSpec == Spec /\ WF_vars(Serve \/ OnMessage) /\ WF_vars(SpaFallback)
                 /\ \A s \in Slots : WF_vars(Step(s))

-----------------------------------------------------------------------------
(* Properties.                                                             *)

Quiet == Free = Slots /\ timer = {}

\* The port's answers carry no id: what is on the wire is the request of the
\* task at the head of the queue, whatever was rejected before.
AnswersOwn ==
    port.wire # <<>> => port.wire[1].req = RequestOf(tasks[Head(port.queue)])

\* However evaluations of one tab overlap with newer submissions, a password
\* goes only into the login that was found for its user name and site.
UpdatesOwnEntry ==
    port.wire # <<>> /\ port.wire[1].req.kind = "UpdateLoginPassword" =>
        agent.logins[port.wire[1].req.entry][1] = port.wire[1].req.cred[1]

\* A credential deferred by a locked vault has been looked at again once the
\* popup has unlocked it (VAULT_UNLOCKED), whichever request came first.
DeferredReoffered ==
    Quiet /\ agent.told =>
        \A t \in Tabs : pending[t] # None => pending[t].mode # "locked"

\* A submitted credential does not stay undecided: it is offered, deferred or
\* dropped.
PromptSettles ==
    \A t \in Tabs :
        pending[t] # None /\ pending[t].mode = "none"
            ~> pending[t] = None \/ (pending[t] # None /\ pending[t].mode # "none")
=============================================================================
