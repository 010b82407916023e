----------------------------- MODULE TrayProofs -----------------------------
(***************************************************************************)
(* The tray's menu is fresh, for any set of logins and any length of run.  *)
(*                                                                         *)
(* A probe is three requests, and what MenuFresh says is only about its    *)
(* end.  The inductive invariant follows it: after each answer, what the   *)
(* tray has read so far is what the agent still has, unless the            *)
(* subscription holds a sign that something has changed.                   *)
(***************************************************************************)
EXTENDS Tray, TLAPS

TrayStates == [protocol_mismatch : BOOLEAN, agent_ready : BOOLEAN, has_account : BOOLEAN,
               locked : BOOLEAN, rows : SUBSET Logins]
Agents == [up : BOOLEAN, matches : BOOLEAN, account : BOOLEAN, locked : BOOLEAN,
           pinned : SUBSET Logins, silent : BOOLEAN]
Streams == [state : {"none", "open", "deaf"}, eof : BOOLEAN, frames : Nat, half : BOOLEAN]
Commands == {<<"Exit">>, <<"OpenVault">>, <<"Lock">>, <<"Logout">>}
            \cup ({"CopyPassword", "CopyLogin"} \X Logins)
Trays == [pc : {"version", "config", "sidebar", "wait", "run", "exited"},
          next : TrayStates, state : TrayStates, commands : Seq(Commands), early : BOOLEAN]

TypeOK ==
    /\ agent \in Agents /\ stream \in Streams /\ tray \in Trays
    /\ tray.pc = "run" => tray.commands # <<>>

\* An open connection has an agent at its other end, and a frame half read is
\* still to be counted.
StreamSane ==
    /\ stream.state = "open" /\ ~stream.eof => agent.up
    /\ stream.half => stream.frames > 0

\* Nothing on the subscription says that the agent has changed.
Quiet ==
    stream.state = "open" /\ ~stream.eof /\ stream.frames = 0
    /\ ~tray.early /\ ~agent.silent

\* What a probe knows after GetConfig's answer.
Read(a) == [protocol_mismatch |-> FALSE, agent_ready |-> TRUE, has_account |-> a.account,
            locked |-> a.locked, rows |-> {}]

ProbeFresh ==
    Quiet => /\ tray.pc = "config" => Answers
             /\ tray.pc = "sidebar" =>
                    Answers /\ agent.account /\ ~agent.locked /\ tray.next = Read(agent)
             /\ tray.pc = "wait" => tray.state = View(agent)

Inv == TypeOK /\ StreamSane /\ ProbeFresh
-----------------------------------------------------------------------------
(* The values *)

\* What the tray reads of the agent, and the absence of it, are tray states.
LEMMA ViewType ==
    ASSUME NEW a \in Agents
    PROVE  /\ Down \in TrayStates
           /\ View(a) \in TrayStates
           /\ Read(a) \in TrayStates
  BY DEF Agents, TrayStates, View, Down, Read

\* Two tray states with the same fields are the same.
LEMMA SameTrayState ==
    ASSUME NEW s \in TrayStates, NEW t \in TrayStates,
           s.protocol_mismatch = t.protocol_mismatch, s.agent_ready = t.agent_ready,
           s.has_account = t.has_account, s.locked = t.locked, s.rows = t.rows
    PROVE  s = t
  BY DEF TrayStates

\* Broadcasting leaves a frame with every subscriber that listens.
LEMMA AnnouncedIsSeen ==
    ASSUME Inv, NEW a \in Agents, a.up = agent.up, Announced(a)
    PROVE  /\ agent' \in Agents /\ agent'.up = agent.up
           /\ stream' \in Streams
           /\ StreamSane'
           /\ ~Quiet'
<1>1. agent' \in Agents /\ agent'.up = agent.up
  BY DEF Announced, Agents
<1>2. CASE stream.state = "open" /\ ~stream.eof
  <2>1. stream' = [stream EXCEPT !.frames = @ + 1]
    BY <1>2 DEF Announced, Broadcast
  <2>2. stream' \in Streams /\ stream'.frames > 0
        /\ stream'.state = stream.state /\ stream'.eof = stream.eof
    BY <2>1 DEF Inv, TypeOK, Streams
  <2> QED
    BY <1>1, <1>2, <2>2 DEF Inv, StreamSane, Quiet
<1>3. CASE ~(stream.state = "open" /\ ~stream.eof)
  <2>1. stream' = stream
    BY <1>3 DEF Announced, Broadcast
  <2> QED
    BY <1>1, <1>3, <2>1 DEF Inv, TypeOK, StreamSane, Quiet
<1> QED
  BY <1>2, <1>3

\* The commands that reach the agent announce what they do.
LEMMA LockSeen ==
    ASSUME Inv, Lock
    PROVE  agent' \in Agents /\ stream' \in Streams /\ StreamSane' /\ ~Quiet'
<1> DEFINE a == [agent EXCEPT !.locked = TRUE]
<1>1. a \in Agents /\ a.up = agent.up
  BY DEF Inv, TypeOK, Agents
<1>2. Announced(a)
  BY DEF Lock
<1> HIDE DEF a
<1> QED
  BY <1>1, <1>2, AnnouncedIsSeen

\* A logout leaves an event behind that the tray has still to see.
LEMMA LogoutSeen ==
    ASSUME Inv, Logout
    PROVE  agent' \in Agents /\ stream' \in Streams /\ StreamSane' /\ ~Quiet'
<1> DEFINE a == [agent EXCEPT !.locked = TRUE, !.account = FALSE, !.pinned = {}]
<1>1. a \in Agents /\ a.up = agent.up
  BY DEF Inv, TypeOK, Agents
<1>2. Announced(a)
  BY DEF Logout
<1> HIDE DEF a
<1> QED
  BY <1>1, <1>2, AnnouncedIsSeen

\* Dropping a read leaves the stream as it was or of no more use.
LEMMA CancelledSane ==
    ASSUME Inv, Cancelled, UNCHANGED agent
    PROVE  stream' \in Streams /\ StreamSane'
<1>1. CASE ~stream.half
  BY <1>1 DEF Cancelled, Inv, TypeOK, StreamSane
<1>2. CASE stream.half
  <2>1. PICK eof \in BOOLEAN :
            stream' = [state |-> "deaf", eof |-> eof, frames |-> 0, half |-> FALSE]
    BY <1>2 DEF Cancelled
  <2> QED
    BY <2>1 DEF Streams, StreamSane
<1> QED
  BY <1>1, <1>2

\* A new probe starts with nothing read.
LEMMA ProbeStarts ==
    ASSUME Inv, Probe, stream' \in Streams, StreamSane', UNCHANGED agent
    PROVE  Inv'
<1>1. tray' \in Trays /\ tray'.pc = "version"
  BY DEF Probe, Inv, TypeOK, Trays
<1> QED
  BY <1>1 DEF Inv, TypeOK, ProbeFresh
-----------------------------------------------------------------------------
(* The actions *)

\* The tray starts before its first look at the agent.
LEMMA InitInv == Init => Inv
<1> SUFFICES ASSUME Init PROVE Inv
  OBVIOUS
<1>1. agent \in Agents
  BY DEF Init, Agents
<1>2. stream \in Streams /\ stream.state = "none" /\ ~stream.half
  BY DEF Init, NoStream, Streams
<1>3. tray \in Trays /\ tray.pc = "version"
  BY <1>1, ViewType DEF Init, Trays
<1> QED
  BY <1>1, <1>2, <1>3 DEF Inv, TypeOK, StreamSane, ProbeFresh, Quiet

\* The agent's own steps: each announces itself, silences the agent or ends the
\* connection.
LEMMA AgentSteps ==
    ASSUME Inv,
           Elsewhere \/ FavoriteAnswered \/ AgentStops
           \/ (\E l \in Logins : SetFavorite(l)) \/ (\E m \in BOOLEAN : AgentStarts(m))
    PROVE  Inv'
<1>1. SUFFICES agent' \in Agents /\ stream' \in Streams /\ StreamSane' /\ ~Quiet'
  BY DEF Inv, TypeOK, ProbeFresh, Elsewhere, FavoriteAnswered, AgentStops, SetFavorite,
         AgentStarts
<1>2. CASE Elsewhere
  <2>1. CASE Lock
    BY <2>1, LockSeen
  <2>2. CASE Logout
    BY <2>2, LogoutSeen
  <2>3. CASE Announced([agent EXCEPT !.locked = FALSE])
    <3> DEFINE a == [agent EXCEPT !.locked = FALSE]
    <3>1. a \in Agents /\ a.up = agent.up
      BY DEF Inv, TypeOK, Agents
    <3> QED
      BY <2>3, <3>1, AnnouncedIsSeen
  <2>4. ASSUME NEW p \in SUBSET Logins,
               Announced([agent EXCEPT !.account = TRUE, !.locked = FALSE, !.pinned = p])
        PROVE  agent' \in Agents /\ stream' \in Streams /\ StreamSane' /\ ~Quiet'
    <3> DEFINE a == [agent EXCEPT !.account = TRUE, !.locked = FALSE, !.pinned = p]
    <3>1. a \in Agents /\ a.up = agent.up
      BY DEF Inv, TypeOK, Agents
    <3> QED
      BY <2>4, <3>1, AnnouncedIsSeen
  <2> QED
    BY <1>2, <2>1, <2>2, <2>3, <2>4 DEF Elsewhere
<1>3. CASE FavoriteAnswered
  BY <1>3, AnnouncedIsSeen DEF FavoriteAnswered, Inv, TypeOK
<1>4. CASE AgentStops
  <2>1. agent' \in Agents
    BY <1>4 DEF AgentStops, Inv, TypeOK, Agents
  <2>2. /\ stream' \in Streams /\ stream'.half = stream.half /\ stream'.frames = stream.frames
        /\ stream'.state = stream.state /\ (stream'.state = "open" => stream'.eof)
    BY <1>4 DEF AgentStops, Inv, TypeOK, Streams
  <2> QED
    BY <2>1, <2>2 DEF Inv, StreamSane, Quiet
<1>5. ASSUME NEW l \in Logins, SetFavorite(l)
      PROVE  agent' \in Agents /\ stream' \in Streams /\ StreamSane' /\ ~Quiet'
  <2>1. agent' \in Agents /\ agent'.silent /\ agent'.up = agent.up
    BY <1>5 DEF SetFavorite, Inv, TypeOK, Agents
  <2> QED
    BY <1>5, <2>1 DEF SetFavorite, Inv, TypeOK, StreamSane, Quiet
<1>6. ASSUME NEW m \in BOOLEAN, AgentStarts(m)
      PROVE  agent' \in Agents /\ stream' \in Streams /\ StreamSane' /\ ~Quiet'
  <2>1. agent' \in Agents /\ agent'.up
    BY <1>6 DEF AgentStarts, Inv, TypeOK, Agents
  <2>2. ~(stream.state = "open" /\ ~stream.eof)
    BY <1>6 DEF AgentStarts, Inv, StreamSane
  <2> QED
    BY <1>6, <2>1, <2>2 DEF AgentStarts, Inv, TypeOK, StreamSane, Quiet
<1> QED
  BY <1>2, <1>3, <1>4, <1>5, <1>6

\* The three requests of a probe.
LEMMA ProbeSteps ==
    ASSUME Inv, ProbeVersion \/ ProbeConfig \/ ProbeSidebar
    PROVE  Inv'
<1>1. /\ agent' = agent /\ stream' = stream
      /\ agent \in Agents /\ tray \in Trays /\ tray.next \in TrayStates
  BY DEF ProbeVersion, ProbeConfig, ProbeSidebar, Probing, Inv, TypeOK, Trays
\* A menu that shows what the agent has, if nothing says otherwise.
<1>2. ASSUME NEW s \in TrayStates, Show(s), Quiet => s = View(agent)
      PROVE  Inv'
  <2>1. /\ tray' \in Trays /\ tray'.pc = "wait" /\ tray'.state = s
        /\ tray'.early = tray.early
    BY <1>1, <1>2, ViewType DEF Show, Trays
  <2> QED
    BY <1>1, <1>2, <2>1 DEF Inv, TypeOK, StreamSane, ProbeFresh, Quiet
<1>3. CASE ProbeVersion
  <2>1. CASE Answers
    <3>1. Ask("config", Down)
      BY <1>3, <2>1 DEF ProbeVersion
    <3>2. tray' \in Trays /\ tray'.pc = "config" /\ tray'.early = tray.early
      BY <1>1, <3>1, ViewType DEF Ask, Trays
    <3> QED
      BY <1>1, <2>1, <3>2 DEF Inv, TypeOK, StreamSane, ProbeFresh, Quiet, Answers
  <2>2. CASE ~Answers
    <3>1. Show(View(agent))
      BY <1>3, <2>2 DEF ProbeVersion, Answers, View
    <3> QED
      BY <1>1, <1>2, <3>1, ViewType
  <2> QED
    BY <2>1, <2>2
<1>4. CASE ProbeConfig
  <2> DEFINE n == [Down EXCEPT !.agent_ready = TRUE, !.has_account = agent.account,
                               !.locked = agent.locked]
  <2>1. n = Read(agent)
    <3>1. n \in TrayStates
      BY <1>1 DEF TrayStates, Agents, Down
    <3>2. /\ n.protocol_mismatch = FALSE /\ n.agent_ready = TRUE /\ n.rows = {}
          /\ n.has_account = agent.account /\ n.locked = agent.locked
      BY DEF Down
    <3>3. Read(agent) \in TrayStates
      BY <1>1, ViewType
    <3> HIDE DEF n
    <3> QED
      BY <3>1, <3>2, <3>3, SameTrayState DEF Read
  <2>2. IF ~Answers THEN Show(Down) ELSE IF Unlocked(n) THEN Ask("sidebar", n) ELSE Show(n)
    BY <1>4 DEF ProbeConfig
  <2> HIDE DEF n
  <2>3. /\ n \in TrayStates
        /\ n.agent_ready = TRUE /\ n.has_account = agent.account /\ n.locked = agent.locked
    BY <1>1, <2>1, ViewType DEF Read
  <2>4. CASE ~Answers
    <3>1. ~Quiet
      BY <1>4, <2>4 DEF ProbeConfig, Inv, ProbeFresh
    <3> QED
      BY <1>1, <1>2, <2>2, <2>4, <3>1, ViewType
  <2>5. CASE Answers /\ Unlocked(n)
    <3>1. tray' \in Trays /\ tray'.pc = "sidebar" /\ tray'.next = n /\ tray'.early = tray.early
      BY <1>1, <2>2, <2>3, <2>5 DEF Ask, Trays
    <3>2. agent.account /\ ~agent.locked
      BY <1>1, <2>3, <2>5 DEF Unlocked, Agents
    <3> QED
      BY <1>1, <2>1, <2>5, <3>1, <3>2 DEF Inv, TypeOK, StreamSane, ProbeFresh, Quiet, Answers
  <2>6. CASE Answers /\ ~Unlocked(n)
    <3>1. ~(agent.account /\ ~agent.locked)
      BY <2>3, <2>6 DEF Unlocked
    <3>2. Read(agent) = View(agent)
      BY <2>6, <3>1 DEF Read, View, Answers
    <3> QED
      BY <1>2, <2>1, <2>2, <2>3, <2>6, <3>2
  <2> QED
    BY <2>4, <2>5, <2>6
<1>5. CASE ProbeSidebar
  <2> DEFINE s == [tray.next EXCEPT !.rows =
                       IF Answers /\ ~agent.locked THEN agent.pinned ELSE {}]
  <2>1. s \in TrayStates /\ Show(s)
    BY <1>1, <1>5 DEF ProbeSidebar, TrayStates, Agents
  <2>2. ASSUME Quiet PROVE s = View(agent)
    <3>1. Answers /\ agent.account /\ ~agent.locked /\ tray.next = Read(agent)
      BY <1>5, <2>2 DEF ProbeSidebar, Inv, ProbeFresh
    <3>2. s = [Read(agent) EXCEPT !.rows = agent.pinned]
      BY <3>1
    <3>3. View(agent) = [protocol_mismatch |-> FALSE, agent_ready |-> TRUE,
                         has_account |-> agent.account, locked |-> agent.locked,
                         rows |-> agent.pinned]
      BY <3>1 DEF View, Answers
    <3>4. /\ s.protocol_mismatch = FALSE /\ s.agent_ready = TRUE /\ s.rows = agent.pinned
          /\ s.has_account = agent.account /\ s.locked = agent.locked
      BY <3>2 DEF Read
    <3>5. View(agent) \in TrayStates
      BY <1>1, ViewType
    <3> HIDE DEF s
    <3> QED
      BY <2>1, <3>3, <3>4, <3>5, SameTrayState
  <2> HIDE DEF s
  <2> QED
    BY <1>2, <2>1, <2>2
<1> QED
  BY <1>3, <1>4, <1>5

\* The branches of next_signal.
LEMMA WaitSteps ==
    ASSUME Inv, CommandReceived \/ Tick \/ Subscribe \/ SubscribeFailed
                \/ ReadLength \/ EventReceived \/ StreamEnded
    PROVE  Inv'
<1>0. agent' = agent /\ agent \in Agents /\ stream \in Streams /\ tray \in Trays
  BY DEF CommandReceived, Tick, Subscribe, SubscribeFailed, ReadLength, EventReceived,
         StreamEnded, Inv, TypeOK
<1>1. CASE CommandReceived
  <2>1. stream' \in Streams /\ StreamSane'
    BY <1>0, <1>1, CancelledSane DEF CommandReceived
  <2>2. tray.commands # <<>>
    BY <1>1 DEF CommandReceived
  <2>3. tray' \in Trays /\ tray'.pc \in {"run", "exited"} /\ tray'.commands = tray.commands
    BY <1>0, <1>1 DEF CommandReceived, Trays
  <2> QED
    BY <1>0, <2>1, <2>2, <2>3 DEF Inv, TypeOK, ProbeFresh
<1>2. CASE Tick
  BY <1>0, <1>2, CancelledSane, ProbeStarts DEF Tick
<1>3. CASE Subscribe
  <2>1. stream' \in Streams /\ stream'.half = FALSE /\ agent.up
    BY <1>3 DEF Subscribe, NoStream, Streams
  <2>2. tray' \in Trays /\ tray'.early /\ tray'.pc = "wait"
    BY <1>0, <1>3 DEF Subscribe, Waiting, Trays
  <2> QED
    BY <1>0, <2>1, <2>2 DEF Inv, TypeOK, StreamSane, ProbeFresh, Quiet
<1>4. CASE SubscribeFailed
  BY <1>0, <1>4, ProbeStarts DEF SubscribeFailed, Inv, StreamSane
<1>5. CASE ReadLength
  <2>1. /\ stream' \in Streams /\ stream'.frames = stream.frames /\ stream.frames > 0
        /\ stream'.state = stream.state /\ stream'.eof = stream.eof
    BY <1>0, <1>5 DEF ReadLength, Streams
  <2>2. tray' = tray
    BY <1>5 DEF ReadLength
  <2> QED
    BY <1>0, <2>1, <2>2 DEF Inv, TypeOK, StreamSane, ProbeFresh, Quiet
<1>6. CASE EventReceived
  <2>1. stream.frames > 0 /\ stream.frames - 1 \in Nat
    BY <1>0, <1>6 DEF EventReceived, Inv, StreamSane, Streams
  <2>2. /\ stream' \in Streams /\ stream'.half = FALSE
        /\ stream'.state = stream.state /\ stream'.eof = stream.eof
    BY <1>0, <1>6, <2>1 DEF EventReceived, Streams
  <2> QED
    BY <1>0, <1>6, <2>2, ProbeStarts DEF EventReceived, Inv, StreamSane
<1>7. CASE StreamEnded
  <2>1. stream' \in Streams /\ stream'.half = FALSE /\ stream'.state = "none"
    BY <1>7 DEF StreamEnded, NoStream, Streams
  <2> QED
    BY <1>0, <1>7, <2>1, ProbeStarts DEF StreamEnded, StreamSane
<1> QED
  BY <1>1, <1>2, <1>3, <1>4, <1>5, <1>6, <1>7

\* A command is followed by a probe.
LEMMA RunCommandStep ==
    ASSUME Inv, RunCommand
    PROVE  Inv'
<1>1. agent' \in Agents /\ stream' \in Streams /\ StreamSane'
  <2>1. Lock \/ Logout \/ UNCHANGED <<agent, stream>>
    BY DEF RunCommand
  <2> QED
    BY <2>1, LockSeen, LogoutSeen DEF Inv, TypeOK, StreamSane
<1>2. Tail(tray.commands) \in Seq(Commands)
  BY DEF RunCommand, Inv, TypeOK, Trays
<1>3. tray' \in Trays /\ tray'.pc = "version"
  BY <1>2 DEF RunCommand, Inv, TypeOK, Trays
<1> QED
  BY <1>1, <1>3 DEF Inv, TypeOK, ProbeFresh

\* A click only adds to the channel, whatever the loop does.
LEMMA MenuClickedStep ==
    ASSUME Inv, NEW c \in BuildMenu(tray.state), MenuClicked(c)
    PROVE  Inv'
<1>1. c \in Commands
  BY DEF BuildMenu, Commands, Inv, TypeOK, Trays, TrayStates
<1>2. Append(tray.commands, c) \in Seq(Commands) /\ Append(tray.commands, c) # <<>>
  BY <1>1 DEF Inv, TypeOK, Trays
<1>3. /\ tray' \in Trays /\ tray'.commands # <<>>
      /\ tray'.pc = tray.pc /\ tray'.early = tray.early
      /\ tray'.next = tray.next /\ tray'.state = tray.state
  BY <1>2 DEF MenuClicked, Inv, TypeOK, Trays
<1> QED
  BY <1>3 DEF MenuClicked, Inv, TypeOK, StreamSane, ProbeFresh, Quiet, Answers

\* Every step keeps Inv.
LEMMA NextInv == Inv /\ [Next]_vars => Inv'
<1> SUFFICES ASSUME Inv, [Next]_vars PROVE Inv'
  OBVIOUS
<1>1. CASE Loop
  BY <1>1, ProbeSteps, WaitSteps, RunCommandStep DEF Loop
<1>2. CASE ClearIfOurs \/ ClearFails \/ UserCopies \/ UNCHANGED vars
  BY <1>2 DEF ClearIfOurs, ClearFails, UserCopies, vars, Inv, TypeOK, StreamSane, ProbeFresh, Quiet,
              Answers
<1>3. ASSUME NEW c \in BuildMenu(tray.state), MenuClicked(c) PROVE Inv'
  BY <1>3, MenuClickedStep
<1> QED
  BY <1>1, <1>2, <1>3, AgentSteps DEF Next

\* A tray that waits on a subscription with nothing unread shows the agent as it
\* is: no order of answers, events, commands, restarts and updates of the agent
\* leaves an old menu behind a quiet subscription (probe, next_signal).
THEOREM MenuFreshHolds == Spec => []MenuFresh
<1>1. Inv => MenuFresh
  BY DEF Inv, ProbeFresh, Quiet, MenuFresh, Waiting
<1> QED
  BY <1>1, InitInv, NextInv, PTL DEF Spec
=============================================================================
