-------------------------- MODULE SavePromptProofs --------------------------
(***************************************************************************)
(* The save prompts for any number of tabs, logins and handlers that       *)
(* overlap, and any length of run.                                         *)
(*                                                                         *)
(* Three things are carried through every await: what a handler may hold   *)
(* in its copy of the record (TaskOK), that the native port's queue and    *)
(* wire belong together (PortOK), and that every record a locked vault has *)
(* deferred is still ahead of some handler once the popup has unlocked it  *)
(* (Swept).                                                                *)
(***************************************************************************)
EXTENDS SavePrompt, SequenceTheorems, WellFoundedInduction, TLAPS

Creds == Users \X Passwords
Records == [cred : Creds, mode : {"none", "save", "update", "locked"}, entry : Nat,
            evaluated : BOOLEAN, awaiting : BOOLEAN]
Tasks == [pc : {"idle", "read", "mark", "remove", "disarm", "store", "bar"} \cup Waiting,
          tab : Tabs \cup {None}, local : Records \cup {None},
          arg : {"none", "end", "store", "hide", "error", "unlock", "save", "update", "dismiss"},
          rest : SUBSET Tabs]

\* The vault's login e is one of credential c's user.
Owns(a, e, c) == e \in DOMAIN a.logins /\ a.logins[e][1] = c[1]
RecordOK(a, r) == /\ r.entry # 0 => Owns(a, r.entry, r.cred)
                  /\ r.mode = "update" => r.entry # 0
\* A record that waits for an unlock is one that an evaluation will not skip.
Deferral(r) == r.mode = "locked" => r.awaiting

TaskOK(a, k) ==
    /\ k \in Tasks
    /\ k.pc \in {"mark", "config", "match", "write", "store"} \/ k.arg = "store"
           => k.local \in Records /\ RecordOK(a, k.local)
    /\ k.pc = "mark" => Deferral(k.local)
    /\ k.pc = "store" \/ k.arg = "store" => k.local.mode = "none"
    /\ k.arg = "store" => k.pc \in {"remove", "disarm", "store"}
    /\ k.pc \notin {"idle", "pin"} => k.tab \in Tabs
    /\ k.pc \in {"idle", "bar", "write", "pin"} => k.rest = {}
    /\ k.pc = "write" => k.arg \in {"save", "update"} /\ k.local.mode = k.arg

\* What the agent may have answered task k: a login of the user that k asks about.
ResponseOK(a, k, resp) ==
    \/ resp = [kind |-> "none"]
    \/ /\ k.pc = "config" /\ resp \in [kind : {"Config"}, usable : BOOLEAN]
       /\ a.told => resp.usable
    \/ k.pc = "match" /\ resp = Failed
    \/ /\ k.pc = "match" /\ resp \in [kind : {"LoginMatch"}, same : BOOLEAN, entry : Nat]
       /\ resp.entry # 0 => Owns(a, resp.entry, k.local.cred)
    \/ k.pc \in {"write", "pin"} /\ resp \in {Failed, Ack}

\* The queue holds waiting tasks, each once, and the wire the request of its head.
PortOK(a, p, ks) ==
    /\ p \in [queue : Seq(Slots), wire : {p.wire}]
    /\ \A i \in DOMAIN p.queue : ks[p.queue[i]].pc \in Waiting
    /\ \A i, j \in DOMAIN p.queue : p.queue[i] = p.queue[j] => i = j
    /\ p.wire # <<>> =>
           /\ p.queue # <<>>
           /\ p.wire = <<[req |-> RequestOf(ks[Head(p.queue)]), resp |-> p.wire[1].resp]>>
           /\ ResponseOK(a, ks[Head(p.queue)], p.wire[1].resp)

\* Task k will look at the record of tab t again, or remove it.
Looks(k, t) ==
    \/ k.tab = t /\ k.pc \in {"read", "mark", "config", "match", "remove"}
    \/ t \in k.rest
Swept(a, pend, ks) ==
    a.told => /\ ~a.locked
              /\ \A t \in Tabs : pend[t] # None /\ pend[t].mode = "locked" =>
                     \E s \in Slots : Looks(ks[s], t)

Bars == [mode : {"save", "update", "locked"}, busy : BOOLEAN, failed : BOOLEAN]
Agents == [locked : BOOLEAN, told : BOOLEAN, logins : Seq(Creds)]

PendingOK(a, pend) ==
    /\ pend \in [Tabs -> Records \cup {None}]
    /\ \A t \in Tabs : pend[t] # None => RecordOK(a, pend[t]) /\ Deferral(pend[t])
TasksOK(a, ks) == ks \in [Slots -> Tasks] /\ \A s \in Slots : TaskOK(a, ks[s])

Inv ==
    /\ agent \in Agents /\ timer \subseteq Tabs /\ bar \in [Tabs -> Bars \cup {None}]
    /\ PendingOK(agent, pending) /\ TasksOK(agent, tasks)
    /\ PortOK(agent, port, tasks) /\ Swept(agent, pending, tasks)
-----------------------------------------------------------------------------
(* The agent's logins *)

\* A nonempty set of numbers has a least one.
LEMMA Least ==
    ASSUME NEW S, S \subseteq Nat, S # {}
    PROVE  \E i \in S : \A j \in S : i <= j
<1> DEFINE R == {ss \in Nat \X Nat : ss[1] < ss[2]}
<1>1. IsWellFoundedOn(R, Nat)
  BY NatLessThanWellFounded DEF OpToRel
<1> HIDE DEF R
<1>2. PICK i \in S : \A j \in S : ~(<<j, i>> \in R)
  BY <1>1, WFMin
<1>3. \A j \in S : ~(j < i)
  BY <1>2 DEF R
<1> QED
  BY <1>3

\* handle_check_login_match names a login of the user it is asked about, or none.
LEMMA MatchOwned ==
    ASSUME agent \in Agents, NEW c \in Creds
    PROVE  /\ LoginMatch(c) \in [kind : {"LoginMatch"}, same : BOOLEAN, entry : Nat]
           /\ LoginMatch(c).entry # 0 => Owns(agent, LoginMatch(c).entry, c)
<1> DEFINE S == SameUser(c)
           e == IF S = {} THEN 0 ELSE CHOOSE i \in S : \A j \in S : i <= j
<1>1. agent.logins \in Seq(Creds)
  BY DEF Agents
<1>2. S \subseteq DOMAIN agent.logins /\ S \subseteq Nat
  BY <1>1 DEF SameUser
<1>3. S # {} => e \in S
  BY <1>2, Least
<1>4. e \in Nat /\ (e # 0 => Owns(agent, e, c))
  BY <1>2, <1>3 DEF Owns, SameUser
<1>5. LoginMatch(c) = [kind |-> "LoginMatch",
                       same |-> \E i \in DOMAIN agent.logins : agent.logins[i] = c,
                       entry |-> e]
  BY DEF LoginMatch
<1> HIDE DEF e
<1> QED
  BY <1>4, <1>5

\* Logins keep their place and their user: entries are added, and passwords change.
Keeps(a, b) ==
    \A e \in DOMAIN a.logins : e \in DOMAIN b.logins /\ b.logins[e][1] = a.logins[e][1]

\* An entry of a login stays one while the vault keeps what it has.
LEMMA KeepsOwns ==
    ASSUME NEW a, NEW b, Keeps(a, b), NEW e, NEW c, Owns(a, e, c)
    PROVE  Owns(b, e, c)
  BY DEF Keeps, Owns

\* So does what a task knows of the vault.
LEMMA KeepsTask ==
    ASSUME NEW a, NEW b, Keeps(a, b), NEW k, TaskOK(a, k)
    PROVE  TaskOK(b, k)
<1>1. ASSUME NEW r, RecordOK(a, r) PROVE RecordOK(b, r)
  BY <1>1, KeepsOwns DEF RecordOK
<1> QED
  BY <1>1 DEF TaskOK

\* So do the saved prompts.
LEMMA KeepsPending ==
    ASSUME NEW a, NEW b, Keeps(a, b), NEW pend, PendingOK(a, pend)
    PROVE  PendingOK(b, pend)
<1>1. ASSUME NEW r, RecordOK(a, r) PROVE RecordOK(b, r)
  BY <1>1, KeepsOwns DEF RecordOK
<1> QED
  BY <1>1 DEF PendingOK

\* So does an answer on the wire, unless an unlock was reported meanwhile.
LEMMA KeepsResponse ==
    ASSUME NEW a, NEW b, Keeps(a, b), b.told => a.told, NEW k, NEW resp, ResponseOK(a, k, resp)
    PROVE  ResponseOK(b, k, resp)
  BY KeepsOwns DEF ResponseOK

\* So do all of them.
LEMMA KeepsPort ==
    ASSUME NEW a, NEW b, Keeps(a, b), b.told => a.told, NEW p, NEW ks, PortOK(a, p, ks)
    PROVE  PortOK(b, p, ks)
  BY KeepsResponse DEF PortOK
-----------------------------------------------------------------------------
(* The port *)

Absent(p, s) == \A i \in DOMAIN p.queue : p.queue[i] # s

\* A task that is not in the queue may change.
LEMMA PortTask ==
    ASSUME NEW a, NEW p, NEW ks \in [Slots -> Tasks], PortOK(a, p, ks),
           NEW s \in Slots, Absent(p, s), NEW k
    PROVE  PortOK(a, p, [ks EXCEPT ![s] = k])
<1> DEFINE ls == [ks EXCEPT ![s] = k]
<1>1. \A i \in DOMAIN p.queue : p.queue[i] \in Slots /\ ls[p.queue[i]] = ks[p.queue[i]]
  BY DEF PortOK, Absent
<1>2. p.queue # <<>> => ls[Head(p.queue)] = ks[Head(p.queue)]
  BY <1>1 DEF PortOK
<1> HIDE DEF ls
<1>3. PortOK(a, p, ls)
  BY <1>1, <1>2 DEF PortOK
<1> QED
  BY <1>3 DEF ls

\* processQueue puts the head's own request on an idle wire.
LEMMA PortProcessed ==
    ASSUME NEW a, NEW p, NEW ks, PortOK(a, p, ks)
    PROVE  PortOK(a, Processed(p, ks), ks) /\ Processed(p, ks).queue = p.queue
<1>1. CASE p.wire = <<>> /\ p.queue # <<>>
  <2> DEFINE w == <<[req |-> RequestOf(ks[Head(p.queue)]), resp |-> [kind |-> "none"]]>>
             r == Processed(p, ks)
  <2>1. r = [queue |-> p.queue, wire |-> w]
    BY <1>1 DEF Processed, PortOK
  <2>2. w # <<>> /\ w[1].resp = [kind |-> "none"]
    OBVIOUS
  <2>3. w = <<[req |-> RequestOf(ks[Head(p.queue)]), resp |-> w[1].resp]>>
    OBVIOUS
  <2> HIDE DEF w, r
  <2>4. r.queue = p.queue /\ r.wire = w /\ r \in [queue : Seq(Slots), wire : {r.wire}]
    BY <2>1 DEF PortOK
  <2>5. ResponseOK(a, ks[Head(p.queue)], w[1].resp)
    BY <2>2 DEF ResponseOK
  <2>6. PortOK(a, r, ks)
    BY <1>1, <2>1, <2>3, <2>4, <2>5 DEF PortOK
  <2> QED
    BY <2>4, <2>6 DEF r
<1>2. CASE ~(p.wire = <<>> /\ p.queue # <<>>)
  BY <1>2 DEF Processed
<1> QED
  BY <1>1, <1>2

\* sendToAgent queues a task that is not queued yet.
LEMMA PortAppend ==
    ASSUME NEW a, NEW p, NEW ks, PortOK(a, p, ks),
           NEW s \in Slots, Absent(p, s), ks[s].pc \in Waiting
    PROVE  PortOK(a, [p EXCEPT !.queue = Append(@, s)], ks)
<1> DEFINE q == Append(p.queue, s)
           r == [p EXCEPT !.queue = Append(@, s)]
<1>1. /\ q \in Seq(Slots) /\ q # <<>>
      /\ DOMAIN q = 1 .. Len(p.queue) + 1 /\ DOMAIN p.queue = 1 .. Len(p.queue)
      /\ Len(p.queue) \in Nat
      /\ \A i \in 1 .. Len(p.queue) : q[i] = p.queue[i]
      /\ q[Len(p.queue) + 1] = s
      /\ p.queue # <<>> => Head(q) = Head(p.queue)
  BY DEF PortOK
<1> HIDE DEF q
<1>2. r.queue = q /\ r.wire = p.wire /\ r \in [queue : Seq(Slots), wire : {r.wire}]
  BY <1>1 DEF PortOK, q
<1> HIDE DEF r
<1>3. \A i \in DOMAIN q : ks[q[i]].pc \in Waiting
  BY <1>1 DEF PortOK
<1>4. \A i, j \in DOMAIN q : q[i] = q[j] => i = j
  BY <1>1 DEF PortOK, Absent
<1>5. PortOK(a, r, ks)
  BY <1>1, <1>2, <1>3, <1>4 DEF PortOK
<1> QED
  BY <1>5 DEF r

\* port.onMessage takes the head off the queue.
LEMMA PortPopped ==
    ASSUME NEW a, NEW b, NEW p, NEW ks, PortOK(a, p, ks), p.wire # <<>>
    PROVE  /\ Head(p.queue) \in Slots /\ ks[Head(p.queue)].pc \in Waiting
           /\ PortOK(b, [queue |-> Tail(p.queue), wire |-> <<>>], ks)
           /\ Absent([queue |-> Tail(p.queue), wire |-> <<>>], Head(p.queue))
<1> DEFINE q == Tail(p.queue)
           r == [queue |-> q, wire |-> <<>>]
<1>1. /\ p.queue \in Seq(Slots) /\ p.queue # <<>> /\ Head(p.queue) = p.queue[1]
      /\ 1 \in DOMAIN p.queue
  BY DEF PortOK
<1>2. /\ q \in Seq(Slots) /\ Len(p.queue) \in Nat
      /\ DOMAIN q = 1 .. Len(p.queue) - 1 /\ DOMAIN p.queue = 1 .. Len(p.queue)
      /\ \A i \in DOMAIN q : q[i] = p.queue[i + 1]
  BY <1>1
<1> HIDE DEF q
<1>3. ASSUME NEW i \in DOMAIN q PROVE ks[q[i]].pc \in Waiting
  <2>1. i + 1 \in DOMAIN p.queue /\ q[i] = p.queue[i + 1]
    BY <1>2
  <2> QED
    BY <2>1 DEF PortOK
<1>4. ASSUME NEW i \in DOMAIN q, NEW j \in DOMAIN q, q[i] = q[j] PROVE i = j
  <2>1. i + 1 \in DOMAIN p.queue /\ j + 1 \in DOMAIN p.queue
    BY <1>2
  <2>2. i + 1 = j + 1
    BY <1>2, <1>4, <2>1 DEF PortOK
  <2> QED
    BY <1>2, <2>2
<1>5. ASSUME NEW i \in DOMAIN q PROVE q[i] # p.queue[1]
  <2>1. i + 1 \in DOMAIN p.queue /\ i + 1 # 1 /\ q[i] = p.queue[i + 1]
    BY <1>2
  <2> QED
    BY <1>1, <2>1 DEF PortOK
<1>6. r.queue = q /\ r.wire = <<>> /\ r \in [queue : Seq(Slots), wire : {r.wire}]
  BY <1>2
<1> HIDE DEF r
<1>7. PortOK(b, r, ks) /\ Absent(r, Head(p.queue))
  BY <1>1, <1>2, <1>3, <1>4, <1>5, <1>6 DEF PortOK, Absent
<1>8. ks[Head(p.queue)].pc \in Waiting
  BY <1>1 DEF PortOK
<1> QED
  BY <1>1, <1>7, <1>8 DEF r, q
-----------------------------------------------------------------------------
(* The handlers.  A step of handler s leaves the tabs in T ahead of it.    *)

Locked(pend, t) == pend[t] # None /\ pend[t].mode = "locked"
Passes(a, pend, s, T) ==
    a.told => /\ ~a.locked
              /\ \A t \in Tabs : Locked(pend, t) =>
                     t \in T \/ (agent.told /\ Locked(pending, t) /\ ~Looks(tasks[s], t))

\* A task that goes on leaves every prompt it passes looked at.
LEMMA SweptStep ==
    ASSUME Inv, NEW a, NEW pend, NEW s \in Slots, NEW k, NEW T, Passes(a, pend, s, T),
           \A t \in T : Looks(k, t), tasks' = [tasks EXCEPT ![s] = k]
    PROVE  Swept(a, pend, tasks')
<1> SUFFICES ASSUME a.told, NEW t \in Tabs, Locked(pend, t)
             PROVE  \E z \in Slots : Looks(tasks'[z], t)
  BY DEF Swept, Passes, Locked
<1>1. tasks'[s] = k /\ \A z \in Slots \ {s} : tasks'[z] = tasks[z]
  BY DEF Inv, TasksOK
<1>2. CASE t \in T
  BY <1>1, <1>2
<1>3. CASE agent.told /\ Locked(pending, t) /\ ~Looks(tasks[s], t)
  <2>1. PICK z \in Slots : Looks(tasks[z], t)
    BY <1>3 DEF Inv, Swept, Locked
  <2> QED
    BY <1>1, <1>3, <2>1
<1> QED
  BY <1>2, <1>3 DEF Passes

\* What every handler's step leaves in order besides its own task and the port.
Around(a) ==
    /\ a = agent' /\ agent' \in Agents /\ timer' \subseteq Tabs
    /\ bar' \in [Tabs -> Bars \cup {None}]
    /\ PendingOK(a, pending') /\ TasksOK(a, tasks)

\* A handler goes on to k without asking ...
LEMMA GotoInv ==
    ASSUME Inv, NEW a, Around(a), NEW p, PortOK(a, p, tasks), NEW s \in Slots, Absent(p, s),
           NEW k, TaskOK(a, k), NEW T, Passes(a, pending', s, T), \A t \in T : Looks(k, t),
           Goto(p, s, k)
    PROVE  Inv'
<1>1. tasks' = [tasks EXCEPT ![s] = k] /\ port' = Processed(p, tasks')
  BY DEF Goto
<1>2. TasksOK(a, tasks')
  BY <1>1 DEF Around, TasksOK, TaskOK
<1>3. PortOK(a, p, tasks')
  BY <1>1, PortTask DEF Around, TasksOK
<1>4. PortOK(a, port', tasks')
  BY <1>1, <1>3, PortProcessed
<1>5. Swept(a, pending', tasks')
  BY <1>1, SweptStep
<1> QED
  BY <1>2, <1>4, <1>5 DEF Around, Inv

\* ... or with a request ...
LEMMA SendInv ==
    ASSUME Inv, NEW a, Around(a), NEW p, PortOK(a, p, tasks), NEW s \in Slots, Absent(p, s),
           NEW k, TaskOK(a, k), k.pc \in Waiting,
           NEW T, Passes(a, pending', s, T), \A t \in T : Looks(k, t),
           SendToAgent(p, s, k)
    PROVE  Inv'
<1> DEFINE r == [p EXCEPT !.queue = Append(@, s)]
<1>1. tasks' = [tasks EXCEPT ![s] = k] /\ port' = Processed(r, tasks')
  BY DEF SendToAgent
<1>2. TasksOK(a, tasks') /\ tasks'[s] = k
  BY <1>1 DEF Around, TasksOK, TaskOK
<1>3. PortOK(a, p, tasks')
  BY <1>1, PortTask DEF Around, TasksOK
<1>4. PortOK(a, r, tasks')
  BY <1>2, <1>3, PortAppend
<1> HIDE DEF r
<1>5. PortOK(a, port', tasks')
  BY <1>1, <1>4, PortProcessed
<1>6. Swept(a, pending', tasks')
  BY <1>1, SweptStep
<1> QED
  BY <1>2, <1>5, <1>6 DEF Around, Inv

\* The tasks an event starts are in order, and look at the tabs they are for.
LEMMA NewTasks ==
    ASSUME NEW a
    PROVE  /\ TaskOK(a, IdleTask)
           /\ \A t \in Tabs, T \in SUBSET Tabs :
                  TaskOK(a, Reading(t, T)) /\ \A u \in T \cup {t} : Looks(Reading(t, T), u)
<1>1. TaskOK(a, IdleTask)
  BY DEF IdleTask, Tasks, TaskOK, Waiting
<1>2. ASSUME NEW t \in Tabs, NEW T \in SUBSET Tabs
      PROVE  TaskOK(a, Reading(t, T)) /\ \A u \in T \cup {t} : Looks(Reading(t, T), u)
  <2>1. /\ Reading(t, T) \in Tasks
        /\ Reading(t, T).pc = "read" /\ Reading(t, T).tab = t
        /\ Reading(t, T).arg = "none" /\ Reading(t, T).rest = T
    BY DEF Reading, IdleTask, Tasks
  <2> QED
    BY <2>1 DEF TaskOK, Looks
<1> QED
  BY <1>1, <1>2

\* ... or ends, and a sweep takes its next tab.
LEMMA EndInv ==
    ASSUME Inv, NEW a, Around(a), NEW p, PortOK(a, p, tasks), NEW s \in Slots, Absent(p, s),
           NEW k, k.rest \in SUBSET Tabs, Passes(a, pending', s, k.rest), End(p, s, k)
    PROVE  Inv'
<1>1. CASE k.rest = {}
  BY <1>1, NewTasks, GotoInv DEF End
<1>2. CASE k.rest # {}
  <2>1. PICK t \in k.rest : Goto(p, s, Reading(t, k.rest \ {t}))
    BY <1>2 DEF End
  <2>2. /\ TaskOK(a, Reading(t, k.rest \ {t}))
        /\ \A u \in k.rest : Looks(Reading(t, k.rest \ {t}), u)
    BY NewTasks
  <2> QED
    BY <2>1, <2>2, GotoInv
<1> QED
  BY <1>1, <1>2

\* A task that waits for nothing is not in the queue.
LEMMA NotQueued ==
    ASSUME Inv, NEW s \in Slots, tasks[s].pc \notin Waiting
    PROVE  Absent(port, s) /\ PortOK(agent, port, tasks) /\ TaskOK(agent, tasks[s])
  BY DEF Inv, PortOK, Absent, TasksOK

\* What a step keeps when it leaves the agent, the records, the timers and the bars alone.
LEMMA Unmoved ==
    ASSUME Inv, agent' = agent, NEW s \in Slots
    PROVE  /\ agent \in Agents /\ TasksOK(agent, tasks) /\ PendingOK(agent, pending)
           /\ \A T : (\A t \in Tabs : Looks(tasks[s], t) /\ Locked(pending, t) => t \in T)
                    => Passes(agent, pending, s, T)
  BY DEF Inv, Swept, Passes, Locked

\* The bars the content script shows are well formed.
LEMMA BarTypes ==
    ASSUME Inv
    PROVE  /\ bar \in [Tabs -> Bars \cup {None}]
           /\ \A t \in Tabs : Hidden(t) => bar' \in [Tabs -> Bars \cup {None}]
           /\ \A t \in Tabs : BarError(t) => bar' \in [Tabs -> Bars \cup {None}]
  BY DEF Inv, Hidden, BarError, Bars

\* The prompt of a tab is removed.
LEMMA RemoveInv ==
    ASSUME Inv, NEW s \in Slots, Remove(s)
    PROVE  Inv'
<1> DEFINE k == tasks[s]
           l == [k EXCEPT !.pc = "disarm"]
<1>1. Absent(port, s) /\ PortOK(agent, port, tasks) /\ TaskOK(agent, k)
  BY NotQueued DEF Remove, Waiting
<1>2. TaskOK(agent, l) /\ l.rest = k.rest
  BY <1>1 DEF TaskOK, Tasks, Remove, Waiting
<1>3. k.tab \in Tabs /\ pending' = [pending EXCEPT ![k.tab] = None]
  BY <1>1 DEF TaskOK, Remove
<1>4. PendingOK(agent, pending')
  BY <1>3 DEF Inv, PendingOK
<1>5. Around(agent)
  BY <1>4, BarTypes DEF Around, Remove, tabVars, Inv
<1>6. \A t \in Tabs : Locked(pending', t) => Locked(pending, t) /\ t # k.tab
  BY <1>3 DEF Locked, Inv, PendingOK
<1>7. Passes(agent, pending', s, k.rest)
  BY <1>6 DEF Passes, Looks, Remove, Inv, Swept
<1>8. \A t \in k.rest : Looks(l, t)
  BY <1>2 DEF Looks
<1>9. Goto(port, s, l)
  BY DEF Remove
<1> HIDE DEF k, l
<1> QED
  BY <1>1, <1>2, <1>5, <1>7, <1>8, <1>9, GotoInv

\* Its alarm is cleared.
LEMMA DisarmInv ==
    ASSUME Inv, NEW s \in Slots, Disarm(s)
    PROVE  Inv'
<1> DEFINE k == tasks[s]
           l == [k EXCEPT !.pc = "store"]
<1>1. Absent(port, s) /\ PortOK(agent, port, tasks) /\ TaskOK(agent, k)
  BY NotQueued DEF Disarm, Waiting
<1>2. k.tab \in Tabs /\ k.rest \in SUBSET Tabs
  BY <1>1 DEF TaskOK, Tasks, Disarm
<1>3. bar' \in [Tabs -> Bars \cup {None}]
  BY <1>2, BarTypes DEF Disarm
<1>4. Around(agent)
  BY <1>3 DEF Around, Disarm, tabVars, Inv
<1>5. Passes(agent, pending', s, k.rest)
  BY Unmoved DEF Looks, Disarm
<1>6. CASE k.arg = "store"
  <2>1. TaskOK(agent, l) /\ l.rest = k.rest
    BY <1>1, <1>6 DEF TaskOK, Tasks, Disarm, Waiting
  <2>2. \A t \in k.rest : Looks(l, t)
    BY <2>1 DEF Looks
  <2>3. Goto(port, s, l)
    BY <1>6 DEF Disarm
  <2> HIDE DEF k, l
  <2> QED
    BY <1>1, <1>4, <1>5, <2>1, <2>2, <2>3, GotoInv
<1>7. CASE k.arg # "store"
  <2>1. End(port, s, k)
    BY <1>7 DEF Disarm
  <2> HIDE DEF k
  <2> QED
    BY <1>1, <1>2, <1>4, <1>5, <2>1, EndInv
<1> QED
  BY <1>6, <1>7

\* A prompt is stored.
LEMMA StoreInv ==
    ASSUME Inv, NEW s \in Slots, Store(s)
    PROVE  Inv'
<1> DEFINE k == tasks[s]
<1>1. Absent(port, s) /\ PortOK(agent, port, tasks) /\ TaskOK(agent, k)
  BY NotQueued DEF Store, Waiting
<1>2. /\ k.tab \in Tabs /\ k.rest \in SUBSET Tabs
      /\ k.local \in Records /\ RecordOK(agent, k.local) /\ k.local.mode = "none"
  BY <1>1 DEF TaskOK, Tasks, Store
<1>3. pending' = [pending EXCEPT ![k.tab] = k.local]
  BY DEF Store
<1>4. PendingOK(agent, pending')
  BY <1>2, <1>3 DEF Inv, PendingOK, Deferral
<1>5. Around(agent)
  BY <1>2, <1>4, BarTypes DEF Around, Store, Inv
<1>6. \A t \in Tabs : Locked(pending', t) => Locked(pending, t)
  BY <1>2, <1>3 DEF Locked, Inv, PendingOK
<1>7. Passes(agent, pending', s, k.rest)
  BY <1>6 DEF Passes, Looks, Store, Inv, Swept
<1>8. End(port, s, k)
  BY DEF Store
<1> HIDE DEF k
<1> QED
  BY <1>1, <1>2, <1>5, <1>7, <1>8, EndInv

\* A stored prompt is read back.
LEMMA ReadInv ==
    ASSUME Inv, NEW s \in Slots, Read(s)
    PROVE  Inv'
<1> DEFINE k == tasks[s]
           r == pending[k.tab]
           n == [r EXCEPT !.evaluated = TRUE]
           l == [k EXCEPT !.pc = "mark", !.local = n]
<1>1. Absent(port, s) /\ PortOK(agent, port, tasks) /\ TaskOK(agent, k)
  BY NotQueued DEF Read, Waiting
<1>2. k.tab \in Tabs /\ k.rest \in SUBSET Tabs
  BY <1>1 DEF TaskOK, Tasks, Read
<1>3. Around(agent)
  BY BarTypes DEF Around, Read, tabVars, Inv
<1>4. CASE Skips(r)
  <2>1. ~Locked(pending, k.tab)
    BY <1>2, <1>4 DEF Skips, Locked, Inv, PendingOK, Deferral
  <2>2. Passes(agent, pending', s, k.rest)
    BY <2>1, Unmoved DEF Looks, Read
  <2>3. End(port, s, k)
    BY <1>4 DEF Read
  <2> HIDE DEF k
  <2> QED
    BY <1>1, <1>2, <1>3, <2>2, <2>3, EndInv
<1>5. CASE ~Skips(r)
  <2>1. r \in Records /\ RecordOK(agent, r) /\ Deferral(r)
    BY <1>2, <1>5 DEF Skips, Inv, PendingOK
  <2> HIDE DEF r
  <2>2. n \in Records /\ RecordOK(agent, n) /\ Deferral(n)
    BY <2>1 DEF Records, RecordOK, Deferral
  <2> HIDE DEF n
  <2>3. l.pc = "mark" /\ l.local = n /\ l.arg = k.arg /\ l.tab = k.tab /\ l.rest = k.rest /\ l \in Tasks
    BY <1>1, <2>2 DEF TaskOK, Tasks
  <2>4. Goto(port, s, l)
    BY <1>5 DEF Read, n, r
  <2>5. k.arg # "store"
    BY <1>1 DEF TaskOK, Read
  <2> HIDE DEF l
  <2>6. TaskOK(agent, l)
    BY <1>1, <1>2, <2>2, <2>3, <2>5 DEF TaskOK, Waiting
  <2>7. Passes(agent, pending', s, k.rest \cup {k.tab})
    BY Unmoved DEF Looks, Read
  <2>8. \A t \in k.rest \cup {k.tab} : Looks(l, t)
    BY <2>3 DEF Looks
  <2> HIDE DEF k
  <2> QED
    BY <1>1, <1>3, <2>4, <2>6, <2>7, <2>8, GotoInv
<1> QED
  BY <1>4, <1>5

\* A prompt is marked as evaluated, and the agent is asked.
LEMMA MarkInv ==
    ASSUME Inv, NEW s \in Slots, Mark(s)
    PROVE  Inv'
<1> DEFINE k == tasks[s]
           l == [k EXCEPT !.pc = "config"]
<1>1. Absent(port, s) /\ PortOK(agent, port, tasks) /\ TaskOK(agent, k)
  BY NotQueued DEF Mark, Waiting
<1>2. /\ k.tab \in Tabs /\ k.rest \in SUBSET Tabs
      /\ k.local \in Records /\ RecordOK(agent, k.local) /\ Deferral(k.local)
  BY <1>1 DEF TaskOK, Tasks, Mark
<1>3. pending' = [pending EXCEPT ![k.tab] = k.local]
  BY DEF Mark
<1>4. PendingOK(agent, pending')
  BY <1>2, <1>3 DEF Inv, PendingOK
<1>5. Around(agent)
  BY <1>4, BarTypes DEF Around, Mark, tabVars, Inv
<1>6. \A t \in Tabs : Locked(pending', t) => Locked(pending, t) \/ t = k.tab
  BY <1>3 DEF Locked, Inv, PendingOK
<1>7. Passes(agent, pending', s, k.rest \cup {k.tab})
  BY <1>6 DEF Passes, Looks, Mark, Inv, Swept
<1>8. l.pc = "config" /\ l.tab = k.tab /\ l.rest = k.rest /\ TaskOK(agent, l)
  BY <1>1 DEF TaskOK, Tasks, Mark, Waiting
<1>9. \A t \in k.rest \cup {k.tab} : Looks(l, t)
  BY <1>8 DEF Looks
<1>10. SendToAgent(port, s, l) /\ l.pc \in Waiting
  BY <1>8 DEF Mark, Waiting
<1> HIDE DEF k, l
<1> QED
  BY <1>1, <1>5, <1>7, <1>8, <1>9, <1>10, SendInv

\* A click on the bar is turned into a request.
LEMMA BarInv ==
    ASSUME Inv, NEW s \in Slots, Bar(s)
    PROVE  Inv'
<1> DEFINE k == tasks[s]
           r == pending[k.tab]
           w == [k EXCEPT !.pc = "write", !.local = r]
           c == [k EXCEPT !.pc = "remove", !.arg = IF k.arg = "dismiss" THEN "end" ELSE "error"]
<1>1. Absent(port, s) /\ PortOK(agent, port, tasks) /\ TaskOK(agent, k) /\ k.pc = "bar"
  BY NotQueued DEF Bar, Waiting
<1>2. k.tab \in Tabs /\ k.rest = {} /\ k.rest \in SUBSET Tabs /\ k.arg # "store"
  BY <1>1 DEF TaskOK
<1>3. bar' \in [Tabs -> Bars \cup {None}]
  BY <1>2, BarTypes DEF Bar
<1>4. Around(agent)
  BY <1>3 DEF Around, Bar, tabVars, Inv
<1>5. Passes(agent, pending', s, {})
  BY <1>1, <1>2, Unmoved DEF Looks, Bar
<1>6. CASE End(port, s, k)
  <2> HIDE DEF k
  <2> QED
    BY <1>1, <1>2, <1>4, <1>5, <1>6, EndInv
<1>7. CASE r # None /\ k.arg \in {"save", "update"} /\ r.mode = k.arg /\ SendToAgent(port, s, w)
  <2>1. r \in Records /\ RecordOK(agent, r)
    BY <1>2, <1>7 DEF Inv, PendingOK
  <2> HIDE DEF r
  <2>2. w.pc = "write" /\ w.local = r /\ w.arg = k.arg /\ w.tab = k.tab /\ w.rest = {} /\ w \in Tasks
    BY <1>1, <1>2, <2>1 DEF TaskOK, Tasks, Waiting
  <2>3. SendToAgent(port, s, w)
    BY <1>7
  <2> HIDE DEF w
  <2>4. TaskOK(agent, w) /\ w.pc \in Waiting
    BY <1>2, <1>7, <2>1, <2>2 DEF TaskOK, Waiting
  <2> HIDE DEF k
  <2> QED
    BY <1>1, <1>4, <1>5, <2>3, <2>4, SendInv
<1>8. CASE Goto(port, s, c)
  <2>1. TaskOK(agent, c)
    BY <1>1, <1>2 DEF TaskOK, Tasks, Waiting
  <2> HIDE DEF k, c
  <2> QED
    BY <1>1, <1>4, <1>5, <1>8, <2>1, GotoInv
<1> QED
  BY <1>6, <1>7, <1>8 DEF Bar, Clear

\* Every step a task takes by itself keeps Inv.
LEMMA StepInv ==
    ASSUME Inv, NEW s \in Slots, Step(s)
    PROVE  Inv'
  BY RemoveInv, DisarmInv, StoreInv, ReadInv, MarkInv, BarInv DEF Step

-----------------------------------------------------------------------------
(* Events.  A free slot has nothing ahead of it.                           *)

\* A free slot has no request on the port and no prompt to look at.
LEMMA FreeSlot ==
    ASSUME Inv, NEW s \in Free
    PROVE  /\ s \in Slots /\ tasks[s].pc = "idle" /\ tasks[s].rest = {}
           /\ Absent(port, s) /\ PortOK(agent, port, tasks)
           /\ pending' = pending => Passes(agent, pending', s, {})
<1>1. s \in Slots /\ tasks[s].pc = "idle"
  BY DEF Free
<1>2. Absent(port, s) /\ PortOK(agent, port, tasks) /\ tasks[s].rest = {}
  BY <1>1, NotQueued DEF Waiting, TaskOK
<1>3. pending' = pending => Passes(agent, pending', s, {})
  BY <1>1, <1>2 DEF Passes, Looks, Inv, Swept, Locked
<1> QED
  BY <1>1, <1>2, <1>3

\* An event starts a task.
LEMMA StartInv ==
    ASSUME Inv, Around(agent), pending' = pending, NEW k, TaskOK(agent, k), Start(k)
    PROVE  Inv'
<1>1. PICK s \in Free : Goto(port, s, k)
  BY DEF Start
<1> QED
  BY <1>1, FreeSlot, GotoInv

\* The fallback timer of a single-page form.
LEMMA SpaFallbackInv ==
    ASSUME Inv, SpaFallback
    PROVE  Inv'
<1>1. PICK t \in timer : Start(Reading(t, {})) /\ timer' = timer \ {t}
  BY DEF SpaFallback
<1>2. t \in Tabs /\ TaskOK(agent, Reading(t, {}))
  BY NewTasks DEF Inv
<1>3. Around(agent) /\ pending' = pending
  BY <1>1 DEF Around, SpaFallback, Inv
<1> QED
  BY <1>1, <1>2, <1>3, StartInv

\* A login form is submitted.
LEMMA LoginSubmittedInv ==
    ASSUME Inv, NEW t \in Tabs, NEW c \in Submitted, LoginSubmitted(t, c)
    PROVE  Inv'
<1> DEFINE r == Fresh(c)
           k == [IdleTask EXCEPT !.pc = "remove", !.tab = t, !.local = r, !.arg = "store"]
<1>1. r \in Records /\ RecordOK(agent, r) /\ r.mode = "none"
  BY LoginsAssumption DEF Fresh, Records, Creds, RecordOK
<1> HIDE DEF r
<1>2. /\ k \in Tasks /\ k.pc = "remove" /\ k.tab = t /\ k.local = r /\ k.arg = "store"
  BY <1>1 DEF IdleTask, Tasks
<1>3. Start(k)
  BY DEF LoginSubmitted, r
<1> HIDE DEF k
<1>4. TaskOK(agent, k)
  BY <1>1, <1>2 DEF TaskOK
<1>5. Around(agent) /\ pending' = pending
  BY DEF Around, LoginSubmitted, tabVars, Inv
<1> QED
  BY <1>3, <1>4, <1>5, StartInv

\* The tasks of the tab, alarm and bar events are in order.
LEMMA EventTasks ==
    ASSUME NEW t \in Tabs,
           NEW action \in {"unlock", "save", "update", "dismiss"}
    PROVE  /\ TaskOK(agent, Reading(t, {})) /\ TaskOK(agent, Clearing(t))
           /\ TaskOK(agent, [IdleTask EXCEPT !.pc = "bar", !.tab = t, !.arg = action])
           /\ TaskOK(agent, [IdleTask EXCEPT !.pc = "pin"])
<1>1. TaskOK(agent, Reading(t, {}))
  BY NewTasks
<1>2. TaskOK(agent, Clearing(t))
  <2>1. /\ Clearing(t) \in Tasks /\ Clearing(t).pc = "remove"
        /\ Clearing(t).tab = t /\ Clearing(t).arg = "end"
    BY DEF Clearing, IdleTask, Tasks
  <2> QED
    BY <2>1 DEF TaskOK
<1>3. TaskOK(agent, [IdleTask EXCEPT !.pc = "bar", !.tab = t, !.arg = action])
  <2> DEFINE k == [IdleTask EXCEPT !.pc = "bar", !.tab = t, !.arg = action]
  <2>1. k \in Tasks /\ k.pc = "bar" /\ k.tab = t /\ k.arg # "store" /\ k.rest = {}
    BY DEF IdleTask, Tasks
  <2> HIDE DEF k
  <2>2. TaskOK(agent, k)
    BY <2>1 DEF TaskOK
  <2> QED
    BY <2>2 DEF k
<1>4. TaskOK(agent, [IdleTask EXCEPT !.pc = "pin"])
  BY DEF TaskOK, IdleTask, Tasks, Waiting
<1> QED
  BY <1>1, <1>2, <1>3, <1>4

\* A tab finishes loading or is closed, or its alarm rings.
LEMMA TabEventInv ==
    ASSUME Inv, NEW t \in Tabs, TabComplete(t) \/ TabRemoved(t) \/ OnAlarm(t)
    PROVE  Inv'
<1>1. Around(agent) /\ pending' = pending
  BY BarTypes DEF Around, TabComplete, TabRemoved, OnAlarm, tabVars, Inv
<1>2. TaskOK(agent, Reading(t, {})) /\ TaskOK(agent, Clearing(t))
  BY EventTasks
<1>3. Start(Reading(t, {})) \/ Start(Clearing(t))
  BY DEF TabComplete, TabRemoved, OnAlarm
<1> QED
  BY <1>1, <1>2, <1>3, StartInv

\* The bar is clicked, dismissed or times out.
LEMMA BarEventInv ==
    ASSUME Inv, NEW t \in Tabs, PrimaryClicked(t) \/ DismissClicked(t) \/ BarTimeout(t)
    PROVE  Inv'
<1>1. bar[t] # None /\ bar[t] \in Bars
  BY DEF PrimaryClicked, DismissClicked, BarTimeout, Inv
<1>2. bar' \in [Tabs -> Bars \cup {None}]
  <2>1. CASE PrimaryClicked(t)
    <3> DEFINE busy == TRUE
               b == [bar[t] EXCEPT !.busy = busy]
    <3>1. busy \in BOOLEAN
      OBVIOUS
    <3>2. bar' = bar \/ bar' = [bar EXCEPT ![t] = b]
      BY <2>1 DEF PrimaryClicked
    <3> HIDE DEF busy
    <3>3. b \in Bars
      BY <1>1, <3>1 DEF Bars
    <3> HIDE DEF b
    <3> QED
      BY <3>2, <3>3 DEF Inv
  <2> QED
    BY <2>1, BarTypes DEF DismissClicked, BarTimeout
<1>3. Around(agent) /\ pending' = pending
  BY <1>2 DEF Around, PrimaryClicked, DismissClicked, BarTimeout, tabVars, Inv
<1>4. CASE \E action \in {"unlock", "save", "update", "dismiss"} : BarAction(t, action)
  BY <1>3, <1>4, EventTasks, StartInv DEF BarAction
<1>5. CASE UNCHANGED <<tasks, port>>
  BY <1>3, <1>5 DEF Around, Inv, Swept
<1> QED
  BY <1>1, <1>4, <1>5 DEF PrimaryClicked, DismissClicked, BarTimeout, Bars

\* A PIN is entered in the popup.
LEMMA PinSubmittedInv ==
    ASSUME Inv, PinSubmitted
    PROVE  Inv'
<1> DEFINE k == [IdleTask EXCEPT !.pc = "pin"]
<1>1. k.pc \in Waiting /\ TaskOK(agent, k)
  BY DEF TaskOK, IdleTask, Tasks, Waiting
<1>2. PICK s \in Free : SendToAgent(port, s, k)
  BY DEF PinSubmitted
<1>3. Around(agent) /\ pending' = pending
  BY DEF Around, PinSubmitted, tabVars, Inv
<1> HIDE DEF k
<1> QED
  BY <1>1, <1>2, <1>3, FreeSlot, SendInv

\* Another client's lock or unlock ends what the popup has told.
LEMMA ElsewhereInv ==
    ASSUME Inv, Elsewhere
    PROVE  Inv'
<1>1. agent' \in Agents /\ agent'.logins = agent.logins /\ ~agent'.told
  BY DEF Inv, Elsewhere, Agents
<1>2. Keeps(agent, agent')
  BY <1>1 DEF Keeps
<1>3. PendingOK(agent', pending) /\ TasksOK(agent', tasks) /\ PortOK(agent', port, tasks)
  BY <1>1, <1>2, KeepsPending, KeepsTask, KeepsPort DEF Inv, TasksOK
<1> QED
  BY <1>1, <1>3 DEF Inv, Elsewhere, tabVars, Swept

\* A lost connection turns every evaluation that waits into a removal.
LEMMA RejectedTask ==
    ASSUME NEW a, NEW k, TaskOK(a, k), NEW t \in Tabs
    PROVE  TaskOK(a, Rejected(k)) /\ (Looks(k, t) => Looks(Rejected(k), t))
<1>1. CASE k.pc \in {"config", "match"}
  <2> DEFINE l == [k EXCEPT !.pc = "remove", !.arg = "end"]
  <2>1. /\ l \in Tasks /\ l.pc = "remove" /\ l.arg = "end"
        /\ l.tab = k.tab /\ l.rest = k.rest
    BY DEF TaskOK, Tasks
  <2>2. Rejected(k) = l /\ k.tab \in Tabs
    BY <1>1 DEF Rejected, TaskOK
  <2> HIDE DEF l
  <2> QED
    BY <2>1, <2>2 DEF TaskOK, Looks
<1>2. CASE k.pc \in {"write", "pin"}
  BY <1>2, NewTasks DEF Rejected, TaskOK, Looks
<1>3. CASE k.pc \notin {"config", "match", "write", "pin"}
  BY <1>3 DEF Rejected
<1> QED
  BY <1>1, <1>2, <1>3

\* The native host disconnects and every request on the port fails.
LEMMA OnDisconnectInv ==
    ASSUME Inv, OnDisconnect
    PROVE  Inv'
<1>1. /\ \A s \in Slots : tasks'[s] = Rejected(tasks[s])
      /\ tasks' \in [Slots -> Tasks] /\ \A s \in Slots : TaskOK(agent, tasks'[s])
  <2>1. \A s \in Slots : TaskOK(agent, Rejected(tasks[s])) /\ Rejected(tasks[s]) \in Tasks
    <3>1. CASE Tabs = {}
      BY <3>1, NewTasks DEF Inv, TasksOK, TaskOK, Rejected, Waiting
    <3>2. CASE Tabs # {}
      <4>1. \A s \in Slots : TaskOK(agent, tasks[s])
        BY DEF Inv, TasksOK
      <4>2. \A s \in Slots : TaskOK(agent, Rejected(tasks[s]))
        BY <3>2, <4>1, RejectedTask
      <4> QED
        BY <4>2 DEF TaskOK
    <3> QED
      BY <3>1, <3>2
  <2> QED
    BY <2>1 DEF OnDisconnect
<1>2. port' = [queue |-> <<>>, wire |-> <<>>]
  BY DEF OnDisconnect, Emptied
<1>3. PortOK(agent, port', tasks')
  BY <1>2 DEF PortOK
<1>4. bar' \in [Tabs -> Bars \cup {None}]
  BY DEF OnDisconnect, Inv, Bars
<1>5. Swept(agent, pending, tasks')
  BY <1>1, RejectedTask DEF Inv, Swept, TasksOK
<1> QED
  BY <1>1, <1>3, <1>4, <1>5 DEF OnDisconnect, Inv, TasksOK, tabVars

-----------------------------------------------------------------------------
(* The agent answers *)

\* What is on the wire tells which await its task is in.
LEMMA RequestTells ==
    ASSUME NEW k, k.pc \in Waiting, TaskOK(agent, k)
    PROVE  /\ RequestOf(k).kind = "GetConfig" => k.pc = "config"
           /\ RequestOf(k).kind = "CheckLoginMatch" => k.pc = "match" /\ RequestOf(k).cred = k.local.cred
           /\ RequestOf(k).kind = "UnlockWithPin" => k.pc = "pin"
           /\ RequestOf(k).kind = "AddEntry" => k.pc = "write" /\ RequestOf(k).cred = k.local.cred
           /\ RequestOf(k).kind = "UpdateLoginPassword" =>
                  /\ k.pc = "write" /\ k.arg = "update"
                  /\ RequestOf(k).cred = k.local.cred /\ RequestOf(k).entry = k.local.entry
<1>1. CASE k.pc = "config"
  BY <1>1 DEF RequestOf
<1>2. CASE k.pc = "match"
  BY <1>2 DEF RequestOf
<1>3. CASE k.pc = "pin"
  BY <1>3 DEF RequestOf
<1>4. CASE k.pc = "write"
  BY <1>4 DEF RequestOf, TaskOK
<1> QED
  BY <1>1, <1>2, <1>3, <1>4 DEF Waiting

\* The first request on the wire gets its answer.
LEMMA PortServed ==
    ASSUME NEW a, NEW p, NEW ks, PortOK(a, p, ks), p.wire # <<>>,
           NEW resp, ResponseOK(a, ks[Head(p.queue)], resp)
    PROVE  PortOK(a, [p EXCEPT !.wire[1].resp = resp], ks)
<1> DEFINE req == RequestOf(ks[Head(p.queue)])
           w == <<[req |-> req, resp |-> resp]>>
           r == [p EXCEPT !.wire[1].resp = resp]
<1>1. p.wire = <<[req |-> req, resp |-> p.wire[1].resp]>>
  BY DEF PortOK
<1> HIDE DEF req
<1>2. [p.wire EXCEPT ![1].resp = resp] = w
  BY <1>1
<1>3. r.queue = p.queue /\ r.wire = w /\ r \in [queue : Seq(Slots), wire : {r.wire}]
  BY <1>2 DEF PortOK
<1>4. w # <<>> /\ w[1].resp = resp /\ w = <<[req |-> req, resp |-> w[1].resp]>>
  OBVIOUS
<1> HIDE DEF w, r
<1>5. PortOK(a, r, ks)
  BY <1>3, <1>4 DEF PortOK, req
<1> QED
  BY <1>5 DEF r

\* The agent answers and keeps what the vault had.
LEMMA Served ==
    ASSUME Inv, agent' \in Agents, Keeps(agent, agent'), agent'.told = agent.told,
           agent'.locked => agent.locked, port.wire # <<>>,
           NEW resp, ResponseOK(agent', tasks[Head(port.queue)], resp), Responds(resp),
           UNCHANGED <<pending, alarm, tabVars, bar, tasks, ops>>
    PROVE  Inv'
<1>1. PendingOK(agent', pending) /\ TasksOK(agent', tasks) /\ PortOK(agent', port, tasks)
  BY KeepsPending, KeepsTask, KeepsPort DEF Inv, TasksOK
<1>2. PortOK(agent', port', tasks)
  BY <1>1, PortServed DEF Responds
<1>3. Swept(agent', pending, tasks)
  BY DEF Inv, Swept
<1> QED
  BY <1>1, <1>2, <1>3 DEF Inv, tabVars

\* Every request the agent serves keeps Inv.
LEMMA ServeInv ==
    ASSUME Inv, Serve
    PROVE  Inv'
<1> DEFINE k == tasks[Head(port.queue)]
           req == port.wire[1].req
<1>1. /\ port.wire # <<>> /\ req = RequestOf(k)
      /\ Head(port.queue) \in Slots /\ k.pc \in Waiting /\ TaskOK(agent, k)
  <2>1. port.wire # <<>> /\ PortOK(agent, port, tasks) /\ TasksOK(agent, tasks)
    BY DEF Serve, Inv
  <2>2. Head(port.queue) \in Slots /\ k.pc \in Waiting
    BY <2>1, PortPopped
  <2>3. port.wire = <<[req |-> RequestOf(k), resp |-> port.wire[1].resp]>>
    BY <2>1 DEF PortOK
  <2>4. req = RequestOf(k)
    BY <2>3
  <2>5. TaskOK(agent, k)
    BY <2>1, <2>2 DEF TasksOK
  <2> QED
    BY <2>1, <2>2, <2>4, <2>5
<1>2. agent \in Agents /\ agent.logins \in Seq(Creds) /\ Keeps(agent, agent)
  BY DEF Inv, Agents, Keeps
<1>3. UNCHANGED <<pending, alarm, tabVars, bar, tasks, ops>>
  BY DEF Serve
<1>4. CASE req.kind = "GetConfig" /\ UNCHANGED agent
             /\ Responds([kind |-> "Config", usable |-> ~agent.locked])
  <2>1. k.pc = "config" /\ (agent.told => ~agent.locked)
    BY <1>1, <1>4, RequestTells DEF Inv, Swept
  <2>2. ResponseOK(agent', k, [kind |-> "Config", usable |-> ~agent.locked])
    BY <1>4, <2>1 DEF ResponseOK
  <2> HIDE DEF k
  <2> QED
    BY <1>1, <1>2, <1>3, <1>4, <2>2, Served DEF k
<1>5. CASE req.kind = "CheckLoginMatch" /\ UNCHANGED agent
             /\ Responds(IF agent.locked THEN Failed ELSE LoginMatch(req.cred))
  <2>1. k.pc = "match" /\ req.cred = k.local.cred /\ req.cred \in Creds
    BY <1>1, <1>5, RequestTells DEF TaskOK, Records
  <2>2. /\ LoginMatch(req.cred) \in [kind : {"LoginMatch"}, same : BOOLEAN, entry : Nat]
        /\ LoginMatch(req.cred).entry # 0 => Owns(agent, LoginMatch(req.cred).entry, k.local.cred)
    BY <1>2, <2>1, MatchOwned
  <2>3. ResponseOK(agent', k, IF agent.locked THEN Failed ELSE LoginMatch(req.cred))
    BY <1>5, <2>1, <2>2 DEF ResponseOK
  <2> HIDE DEF k, req
  <2> QED
    BY <1>1, <1>2, <1>3, <1>5, <2>3, Served DEF k
<1>6. CASE req.kind = "UnlockWithPin" /\ Responds(Ack) /\ agent' = [agent EXCEPT !.locked = FALSE]
  <2>1. k.pc = "pin"
    BY <1>1, <1>6, RequestTells
  <2>2. /\ agent' \in Agents /\ agent'.told = agent.told /\ ~agent'.locked
        /\ agent'.logins = agent.logins
    BY <1>2, <1>6 DEF Agents
  <2>3. ResponseOK(agent', k, Ack) /\ Keeps(agent, agent')
    BY <2>1, <2>2 DEF ResponseOK, Keeps
  <2> HIDE DEF k
  <2> QED
    BY <1>1, <1>3, <1>6, <2>2, <2>3, Served DEF k
<1>7. CASE req.kind = "AddEntry" /\ Responds(Ack)
             /\ agent' = [agent EXCEPT !.logins = Append(@, req.cred)]
  <2>1. k.pc = "write" /\ req.cred \in Creds
    BY <1>1, <1>7, RequestTells DEF TaskOK, Records
  <2> DEFINE L == Append(agent.logins, req.cred)
  <2>2. L \in Seq(Creds) /\ \A e \in DOMAIN agent.logins : e \in DOMAIN L /\ L[e] = agent.logins[e]
    BY <1>2, <2>1
  <2> HIDE DEF L
  <2>3. /\ agent' \in Agents /\ agent'.told = agent.told /\ agent'.locked = agent.locked
        /\ agent'.logins = L
    BY <1>2, <1>7, <2>2 DEF Agents, L
  <2>4. ResponseOK(agent', k, Ack) /\ Keeps(agent, agent')
    BY <2>1, <2>2, <2>3 DEF ResponseOK, Keeps
  <2> HIDE DEF k
  <2> QED
    BY <1>1, <1>3, <1>7, <2>3, <2>4, Served DEF k
<1>8. CASE req.kind = "UpdateLoginPassword" /\ Responds(Ack)
             /\ agent' = [agent EXCEPT !.logins[req.entry] = <<@[1], req.cred[2]>>]
  <2>1. k.pc = "write" /\ req.cred \in Creds /\ Owns(agent, req.entry, req.cred)
    BY <1>1, <1>8, RequestTells DEF TaskOK, Records, RecordOK
  <2> DEFINE L == [agent.logins EXCEPT ![req.entry] = <<@[1], req.cred[2]>>]
  <2>2. agent.logins[req.entry] \in Creds
    BY <1>2, <2>1 DEF Owns
  <2>3. <<agent.logins[req.entry][1], req.cred[2]>> \in Creds
    BY <2>1, <2>2 DEF Creds
  <2>4. /\ L \in Seq(Creds) /\ DOMAIN L = DOMAIN agent.logins
        /\ \A e \in DOMAIN agent.logins : L[e][1] = agent.logins[e][1]
    BY <1>2, <2>1, <2>3 DEF Owns
  <2> HIDE DEF L
  <2>5. /\ agent' \in Agents /\ agent'.told = agent.told /\ agent'.locked = agent.locked
        /\ agent'.logins = L
    BY <1>2, <1>8, <2>4 DEF Agents, L
  <2>6. ResponseOK(agent', k, Ack) /\ Keeps(agent, agent')
    BY <2>1, <2>4, <2>5 DEF ResponseOK, Keeps
  <2> HIDE DEF k
  <2> QED
    BY <1>1, <1>3, <1>8, <2>5, <2>6, Served DEF k
<1>9. CASE req.kind \in {"UnlockWithPin", "AddEntry", "UpdateLoginPassword"}
             /\ Responds(Failed) /\ UNCHANGED agent
  <2>1. ResponseOK(agent', k, Failed)
    BY <1>1, <1>9, RequestTells DEF ResponseOK
  <2> HIDE DEF k
  <2> QED
    BY <1>1, <1>2, <1>3, <1>9, <2>1, Served DEF k
<1> QED
  BY <1>4, <1>5, <1>6, <1>7, <1>8, <1>9 DEF Serve

-----------------------------------------------------------------------------
(* The answers arrive *)

\* An evaluation stores what it has decided; a told unlock leaves nothing to defer.
LEMMA OfferInv ==
    ASSUME Inv, NEW s \in Slots, tasks[s].pc \in {"config", "match"},
           NEW p, PortOK(agent, p, tasks), Absent(p, s),
           NEW r \in Records, RecordOK(agent, r), Deferral(r), r.mode # "none",
           agent.told => r.mode # "locked",
           Offer(p, s, tasks[s], r), UNCHANGED <<agent, tabVars>>
    PROVE  Inv'
<1> DEFINE k == tasks[s]
           l == [k EXCEPT !.pc = "remove", !.arg = "end"]
<1>1. TaskOK(agent, k) /\ k.tab \in Tabs /\ k.rest \in SUBSET Tabs
  BY DEF Inv, TasksOK, TaskOK, Tasks
<1>2. pending' = [pending EXCEPT ![k.tab] = r]
  BY DEF Offer, StoredRecord
<1>3. PendingOK(agent, pending')
  BY <1>1, <1>2 DEF Inv, PendingOK
<1>4. [mode |-> r.mode, busy |-> FALSE, failed |-> FALSE] \in Bars
  BY DEF Bars, Records
<1>5. bar' \in [Tabs -> Bars \cup {None}]
  BY <1>1, <1>4, BarTypes DEF Offer
<1>6. Around(agent)
  BY <1>3, <1>5 DEF Around, tabVars, Inv
<1>7. agent.told => \A t \in Tabs : Locked(pending', t) => Locked(pending, t) /\ t # k.tab
  BY <1>1, <1>2 DEF Locked, Inv, PendingOK
<1>8. Passes(agent, pending', s, k.rest)
  BY <1>7 DEF Passes, Looks, Inv, Swept
<1>9. CASE End(p, s, k)
  <2> HIDE DEF k
  <2> QED
    BY <1>1, <1>6, <1>8, <1>9, EndInv
<1>10. CASE Clear(p, s, k, "end")
  <2>1. l \in Tasks /\ l.pc = "remove" /\ l.arg = "end" /\ l.tab = k.tab /\ l.rest = k.rest
    BY <1>1 DEF TaskOK, Tasks
  <2>2. Goto(p, s, l)
    BY <1>10 DEF Clear
  <2> HIDE DEF k, l
  <2>3. TaskOK(agent, l) /\ \A t \in k.rest : Looks(l, t)
    BY <1>1, <2>1 DEF TaskOK, Looks
  <2> QED
    BY <1>6, <1>8, <2>2, <2>3, GotoInv
<1> QED
  BY <1>9, <1>10 DEF Offer

\* A handler that only clears keeps its tabs ahead of it.
LEMMA ClearInv ==
    ASSUME Inv, NEW s \in Slots, NEW p, PortOK(agent, p, tasks), Absent(p, s),
           tasks[s].tab \in Tabs, NEW then \in {"end", "hide", "error"},
           Clear(p, s, tasks[s], then), UNCHANGED <<agent, pending, tabVars, bar>>
    PROVE  Inv'
<1> DEFINE k == tasks[s]
           l == [k EXCEPT !.pc = "remove", !.arg = then]
<1>1. TaskOK(agent, k) /\ k \in Tasks
  BY DEF Inv, TasksOK, TaskOK
<1>2. l \in Tasks /\ l.pc = "remove" /\ l.arg = then /\ l.tab = k.tab /\ l.rest = k.rest
  BY <1>1 DEF Tasks
<1>3. Goto(p, s, l)
  BY DEF Clear
<1>4. Around(agent)
  BY DEF Around, tabVars, Inv
<1>5. Passes(agent, pending', s, k.rest \cup {k.tab})
  BY Unmoved DEF Looks
<1>6. k.tab \in Tabs
  OBVIOUS
<1> HIDE DEF k, l
<1>7. TaskOK(agent, l) /\ \A t \in k.rest \cup {k.tab} : Looks(l, t)
  BY <1>2, <1>6 DEF TaskOK, Looks
<1> QED
  BY <1>3, <1>4, <1>5, <1>7, GotoInv

\* The answer to the config request arrives.
LEMMA ConfigAnswerInv ==
    ASSUME Inv, NEW s \in Slots, tasks[s].pc = "config",
           NEW p, PortOK(agent, p, tasks), Absent(p, s),
           NEW resp, ResponseOK(agent, tasks[s], resp), resp.kind # "none",
           ConfigAnswer(p, s, tasks[s], resp), UNCHANGED <<agent, tabVars>>
    PROVE  Inv'
<1> DEFINE k == tasks[s]
           n == [k.local EXCEPT !.awaiting = FALSE]
           l == [k EXCEPT !.pc = "match", !.local.awaiting = FALSE]
<1>1. /\ TaskOK(agent, k) /\ k.tab \in Tabs /\ k \in Tasks /\ k.arg # "store"
      /\ k.local \in Records /\ RecordOK(agent, k.local)
  BY DEF Inv, TasksOK, TaskOK
<1>2. agent.told => resp.usable
  BY DEF ResponseOK
<1>3. CASE resp.usable
  <2>1. n \in Records /\ RecordOK(agent, n)
    BY <1>1 DEF Records, RecordOK
  <2>2. l = [k EXCEPT !.pc = "match", !.local = n]
    BY <1>1 DEF Tasks
  <2> HIDE DEF n
  <2>3. /\ l \in Tasks /\ l.pc = "match" /\ l.local = n /\ l.arg = k.arg
        /\ l.tab = k.tab /\ l.rest = k.rest
    BY <1>1, <2>1, <2>2 DEF Tasks, Waiting
  <2>4. SendToAgent(p, s, l) /\ UNCHANGED <<pending, bar>>
    BY <1>3 DEF ConfigAnswer
  <2>5. Around(agent)
    BY <2>4 DEF Around, tabVars, Inv
  <2>6. Passes(agent, pending', s, k.rest \cup {k.tab})
    BY <2>4, Unmoved DEF Looks
  <2> HIDE DEF k, l
  <2>7. TaskOK(agent, l) /\ l.pc \in Waiting /\ \A t \in k.rest \cup {k.tab} : Looks(l, t)
    BY <1>1, <2>1, <2>3 DEF TaskOK, Looks, Waiting
  <2> QED
    BY <2>4, <2>5, <2>6, <2>7, SendInv
<1>4. CASE ~resp.usable
  <2> DEFINE r == Deferred(k.local)
  <2>1. r \in Records /\ RecordOK(agent, r) /\ Deferral(r) /\ r.mode = "locked"
    BY <1>1 DEF Deferred, Records, RecordOK, Deferral
  <2>2. Offer(p, s, k, r)
    BY <1>4 DEF ConfigAnswer
  <2> HIDE DEF r
  <2> QED
    BY <1>2, <1>4, <2>1, <2>2, OfferInv
<1> QED
  BY <1>3, <1>4

\* The match arrives, and the bar it decides on is shown.
LEMMA MatchAnswerInv ==
    ASSUME Inv, NEW s \in Slots, tasks[s].pc = "match",
           NEW p, PortOK(agent, p, tasks), Absent(p, s),
           NEW resp, ResponseOK(agent, tasks[s], resp), resp.kind # "none",
           MatchAnswer(p, s, tasks[s], resp), UNCHANGED <<agent, tabVars>>
    PROVE  Inv'
<1> DEFINE k == tasks[s]
<1>1. k.tab \in Tabs /\ k.local \in Records /\ RecordOK(agent, k.local)
  BY DEF Inv, TasksOK, TaskOK
<1>2. CASE resp.kind # "LoginMatch" \/ resp.same
  BY <1>1, <1>2, ClearInv DEF MatchAnswer
<1>3. CASE ~(resp.kind # "LoginMatch" \/ resp.same)
  <2> DEFINE r == [k.local EXCEPT !.mode = IF resp.entry = 0 THEN "save" ELSE "update",
                                  !.entry = resp.entry]
  <2>1. resp.entry \in Nat /\ (resp.entry # 0 => Owns(agent, resp.entry, k.local.cred))
    BY <1>3 DEF ResponseOK, Failed
  <2>2. /\ r \in Records /\ r.entry = resp.entry /\ r.cred = k.local.cred
        /\ r.mode = IF resp.entry = 0 THEN "save" ELSE "update"
    BY <1>1, <2>1 DEF Records
  <2>3. Offer(p, s, k, r)
    BY <1>3 DEF MatchAnswer
  <2> HIDE DEF r
  <2>4. RecordOK(agent, r) /\ Deferral(r) /\ r.mode # "none" /\ r.mode # "locked"
    BY <2>1, <2>2 DEF RecordOK, Deferral
  <2> QED
    BY <2>2, <2>3, <2>4, OfferInv
<1> QED
  BY <1>2, <1>3

\* The answer to a save or an update arrives.
LEMMA WriteAnswerInv ==
    ASSUME Inv, NEW s \in Slots, tasks[s].pc = "write",
           NEW p, PortOK(agent, p, tasks), Absent(p, s),
           NEW resp, WriteAnswer(p, s, tasks[s], resp), UNCHANGED <<agent, tabVars>>
    PROVE  Inv'
<1>1. tasks[s].tab \in Tabs /\ tasks[s].rest = {}
  BY DEF Inv, TasksOK, TaskOK
<1>2. CASE resp = Ack
  BY <1>1, <1>2, ClearInv DEF WriteAnswer
<1>3. CASE resp # Ack
  <2>1. End(p, s, tasks[s]) /\ BarError(tasks[s].tab) /\ pending' = pending
    BY <1>3 DEF WriteAnswer
  <2>2. Around(agent)
    BY <1>1, <2>1, BarTypes DEF Around, tabVars, Inv
  <2>3. Passes(agent, pending', s, tasks[s].rest)
    BY <1>1, <2>1, Unmoved DEF Looks
  <2> QED
    BY <1>1, <2>1, <2>2, <2>3, EndInv
<1> QED
  BY <1>2, <1>3

\* VAULT_UNLOCKED: every record that waits is ahead of the sweep.
LEMMA PinAnswerInv ==
    ASSUME Inv, NEW s \in Slots, tasks[s].pc = "pin",
           NEW p, PortOK(agent, p, tasks), PortOK(agent', p, tasks), Absent(p, s),
           NEW resp, PinAnswer(p, s, tasks[s], resp), UNCHANGED tabVars
    PROVE  Inv'
<1> DEFINE k == tasks[s]
           T == {t \in Tabs : pending[t] # None}
           l == [k EXCEPT !.rest = T]
<1>1. k \in Tasks /\ k.rest = {} /\ UNCHANGED <<pending, bar>>
  BY DEF Inv, TasksOK, TaskOK, PinAnswer
<1>2. CASE resp = Ack
  <2>1. agent' = [agent EXCEPT !.told = ~agent.locked]
    BY <1>2 DEF PinAnswer
  <2>2. /\ agent' \in Agents /\ agent'.told = ~agent.locked
        /\ agent'.locked = agent.locked /\ agent'.logins = agent.logins
    BY <2>1 DEF Inv, Agents
  <2>3. Keeps(agent, agent')
    BY <2>2 DEF Keeps
  <2>4. PendingOK(agent', pending') /\ TasksOK(agent', tasks)
    BY <1>1, <2>3, KeepsPending, KeepsTask DEF Inv, TasksOK
  <2>5. Around(agent')
    BY <1>1, <2>2, <2>4 DEF Around, tabVars, Inv
  <2>6. Passes(agent', pending', s, T)
    BY <1>1, <2>2 DEF Passes, Locked
  <2>7. End(p, s, l)
    BY <1>2 DEF PinAnswer
  <2>8. l.rest = T /\ T \in SUBSET Tabs
    BY <1>1 DEF Tasks
  <2> HIDE DEF k, l, T
  <2> QED
    BY <2>5, <2>6, <2>7, <2>8, EndInv
<1>3. CASE resp # Ack
  <2>1. End(p, s, k) /\ agent' = agent
    BY <1>3 DEF PinAnswer
  <2>2. Around(agent)
    BY <1>1, <2>1 DEF Around, tabVars, Inv
  <2>3. Passes(agent, pending', s, k.rest)
    BY <1>1, <2>1, Unmoved DEF Looks
  <2> HIDE DEF k
  <2> QED
    BY <1>1, <2>1, <2>2, <2>3, EndInv
<1> QED
  BY <1>2, <1>3

\* Every answer the background page handles keeps Inv.
LEMMA OnMessageInv ==
    ASSUME Inv, OnMessage
    PROVE  Inv'
<1> DEFINE s == Head(port.queue)
           p == [queue |-> Tail(port.queue), wire |-> <<>>]
           resp == port.wire[1].resp
<1>1. s \in Slots /\ PortOK(agent, p, tasks) /\ PortOK(agent', p, tasks) /\ Absent(p, s)
  BY PortPopped DEF OnMessage, Inv
<1>2. ResponseOK(agent, tasks[s], resp) /\ resp.kind # "none"
  BY DEF OnMessage, Inv, PortOK
<1>3. UNCHANGED tabVars
  BY DEF OnMessage
<1>4. \/ tasks[s].pc = "config" /\ ConfigAnswer(p, s, tasks[s], resp) /\ UNCHANGED agent
      \/ tasks[s].pc = "match" /\ MatchAnswer(p, s, tasks[s], resp) /\ UNCHANGED agent
      \/ tasks[s].pc = "write" /\ WriteAnswer(p, s, tasks[s], resp) /\ UNCHANGED agent
      \/ tasks[s].pc = "pin" /\ PinAnswer(p, s, tasks[s], resp)
  BY DEF OnMessage
<1> HIDE DEF s, p, resp
<1> QED
  BY <1>1, <1>2, <1>3, <1>4, ConfigAnswerInv, MatchAnswerInv, WriteAnswerInv, PinAnswerInv
-----------------------------------------------------------------------------

\* Nothing is pending to begin with.
LEMMA InitInv == Init => Inv
<1> SUFFICES ASSUME Init PROVE Inv
  OBVIOUS
<1>1. agent \in Agents /\ ~agent.told
  BY LoginsAssumption DEF Init, Agents, Creds
<1>2. PendingOK(agent, pending) /\ bar \in [Tabs -> Bars \cup {None}]
  BY DEF Init, PendingOK
<1>3. TasksOK(agent, tasks)
  BY NewTasks DEF Init, TasksOK, TaskOK
<1>4. PortOK(agent, port, tasks)
  BY DEF Init, PortOK
<1> QED
  BY <1>1, <1>2, <1>3, <1>4 DEF Init, Inv, Swept

\* Every step keeps Inv.
LEMMA NextInv == Inv /\ [Next]_vars => Inv'
<1> SUFFICES ASSUME Inv, [Next]_vars PROVE Inv'
  OBVIOUS
<1>1. CASE UNCHANGED vars
  BY <1>1 DEF vars, Inv, Swept, PendingOK, TasksOK, PortOK
<1>2. CASE Proceed
  BY <1>2, ServeInv, OnMessageInv, SpaFallbackInv, StepInv DEF Proceed
<1>3. CASE Environment
  BY <1>3, LoginSubmittedInv, TabEventInv, BarEventInv, PinSubmittedInv, ElsewhereInv,
     OnDisconnectInv DEF Environment
<1> QED
  BY <1>1, <1>2, <1>3 DEF Next

\* The inductive invariant.
LEMMA AlwaysInv == Spec => []Inv
<1> QED
  BY InitInv, NextInv, PTL DEF Spec

\* Rejected or answered, the native port's requests keep their order: what is
\* on the wire is the request of the handler that will be given the answer.
THEOREM AnswersOwnHolds == Spec => []AnswersOwn
<1>1. Inv => AnswersOwn
  BY DEF Inv, PortOK, AnswersOwn
<1> QED
  BY <1>1, AlwaysInv, PTL

\* An UpdateLoginPassword names a login of the user that submitted the password,
\* however many evaluations of one tab overlap between its awaits.
THEOREM UpdatesOwnEntryHolds == Spec => []UpdatesOwnEntry
<1>1. Inv => UpdatesOwnEntry
  <2> SUFFICES ASSUME Inv, port.wire # <<>>, port.wire[1].req.kind = "UpdateLoginPassword"
               PROVE  agent.logins[port.wire[1].req.entry][1] = port.wire[1].req.cred[1]
    BY DEF UpdatesOwnEntry
  <2> DEFINE k == tasks[Head(port.queue)]
  <2>1. port.wire[1].req = RequestOf(k) /\ k.pc \in Waiting /\ TaskOK(agent, k)
    BY PortPopped DEF Inv, PortOK, TasksOK
  <2> HIDE DEF k
  <2>2. /\ k.pc = "write" /\ k.arg = "update"
        /\ port.wire[1].req.cred = k.local.cred /\ port.wire[1].req.entry = k.local.entry
    BY <2>1, RequestTells
  <2> QED
    BY <2>1, <2>2 DEF TaskOK, RecordOK, Owns
<1> QED
  BY <1>1, AlwaysInv, PTL

\* When no handler runs any more, the popup's VAULT_UNLOCKED has left no record
\* that still waits for an unlock.
THEOREM DeferredReofferedHolds == Spec => []DeferredReoffered
<1>1. Inv => DeferredReoffered
  <2> SUFFICES ASSUME Inv, Free = Slots, agent.told, NEW t \in Tabs, pending[t] # None,
                      pending[t].mode = "locked"
               PROVE  FALSE
    BY DEF DeferredReoffered, Quiet
  <2>1. PICK s \in Slots : Looks(tasks[s], t)
    BY DEF Inv, Swept
  <2>2. s \in Free
    OBVIOUS
  <2> QED
    BY <2>1, <2>2, FreeSlot DEF Looks
<1> QED
  BY <1>1, AlwaysInv, PTL
=============================================================================
