-------------------------------- MODULE Tray --------------------------------
(***************************************************************************)
(* The Plasma tray: a loop that reads the agent, shows a menu and waits    *)
(* for a click, an event or a tick; and the clipboard it copies to.        *)
(*                                                                         *)
(* A read is up to three requests, and the agent may change, stop or start *)
(* between them.  An event's frame is written in two parts; select! drops  *)
(* a read that has only the first when another branch wins, and what is    *)
(* then read as a length is not one.                                       *)
(***************************************************************************)
EXTENDS Naturals, Sequences

CONSTANTS
    Logins,      \* the logins of the account, fewer than MENU_ROW_LIMIT
    Gated,       \* those that ask for the master password again
    None,
    MaxOps       \* bound on what users, other clients and the session do

ASSUME TrayAssumption == Gated \subseteq Logins /\ MaxOps \in Nat

VARIABLES
    agent,       \* what the agent tells; silent: a change no event has told
    stream,      \* the EventStream: unread events, one perhaps half read
    tray,        \* the loop, TrayState, the clicked commands
    clip,        \* the clipboard, the secrets whose timers run, and whether the last
                 \* timer of the text on the clipboard has failed (a history variable)
    ops
vars == <<agent, stream, tray, clip, ops>>

\* TrayState::default().
Down == [protocol_mismatch |-> FALSE, agent_ready |-> FALSE, has_account |-> FALSE,
         locked |-> FALSE, rows |-> {}]
Unlocked(s) == s.agent_ready /\ s.has_account /\ ~s.locked

NoStream == [state |-> "none", eof |-> FALSE, frames |-> 0, half |-> FALSE]

Init ==
    /\ agent \in [up : BOOLEAN, matches : BOOLEAN, account : BOOLEAN, locked : {TRUE},
                  pinned : {{}, Logins}, silent : {FALSE}]
    /\ ~agent.account => agent.pinned = {}
    /\ stream = NoStream
    /\ tray = [pc |-> "version", next |-> Down, state |-> Down, commands |-> <<>>,
               early |-> TRUE]
    /\ clip = [text |-> None, timers |-> <<>>, failed |-> FALSE] /\ ops = 0

-----------------------------------------------------------------------------
(* The agent, for this and for other clients.                              *)

Act == ops < MaxOps /\ ops' = ops + 1
Answers == agent.up /\ agent.matches

\* State::broadcast, to a subscriber that may have stopped listening.
Broadcast(s) == IF s.state = "open" /\ ~s.eof THEN [s EXCEPT !.frames = @ + 1] ELSE s
Announced(a) == agent' = [a EXCEPT !.silent = FALSE] /\ stream' = Broadcast(stream)

Lock == Announced([agent EXCEPT !.locked = TRUE])
Logout == Announced([agent EXCEPT !.locked = TRUE, !.account = FALSE, !.pinned = {}])
\* A lock, a logout, an unlock; a login, or a sync that brings other favourites.
Elsewhere ==
    /\ agent.up /\ Act /\ UNCHANGED <<tray, clip>>
    /\ \/ Lock
       \/ agent.account /\ Logout
       \/ agent.account /\ agent.locked /\ Announced([agent EXCEPT !.locked = FALSE])
       \/ \E p \in SUBSET Logins :
              Announced([agent EXCEPT !.account = TRUE, !.locked = FALSE, !.pinned = p])
\* set_favorite: memory first; the event follows the server's answer, if it is a success.
SetFavorite(l) ==
    /\ agent.up /\ agent.account /\ ~agent.locked /\ Act
    /\ agent' = [agent EXCEPT !.pinned = (@ \ {l}) \cup ({l} \ @), !.silent = TRUE]
    /\ UNCHANGED <<stream, tray, clip>>
FavoriteAnswered == agent.up /\ agent.silent /\ Announced(agent) /\ UNCHANGED <<tray, clip, ops>>

AgentStops ==
    /\ agent.up /\ Act
    /\ agent' = [agent EXCEPT !.up = FALSE, !.locked = TRUE, !.silent = FALSE]
    /\ stream' = [stream EXCEPT !.eof = stream.state # "none"]
    /\ UNCHANGED <<tray, clip>>
\* Also after an update.
AgentStarts(matches) ==
    /\ ~agent.up /\ Act /\ agent' = [agent EXCEPT !.up = TRUE, !.matches = matches]
    /\ UNCHANGED <<stream, tray, clip>>

-----------------------------------------------------------------------------
(* probe: Version, GetConfig and, for an open vault, GetSidebarEntries.    *)

Show(s) == tray' = [tray EXCEPT !.pc = "wait", !.state = s, !.next = Down]
Ask(pc, next) == tray' = [tray EXCEPT !.pc = pc, !.next = next]
Probing == UNCHANGED <<agent, stream, clip, ops>>

ProbeVersion ==
    /\ tray.pc = "version" /\ Probing
    /\ IF Answers THEN Ask("config", Down)
       ELSE Show([Down EXCEPT !.protocol_mismatch = agent.up])
ProbeConfig ==
    /\ tray.pc = "config" /\ Probing
    /\ LET next == [Down EXCEPT !.agent_ready = TRUE, !.has_account = agent.account,
                                !.locked = agent.locked]
       IN IF ~Answers THEN Show(Down)
          ELSE IF Unlocked(next) THEN Ask("sidebar", next) ELSE Show(next)
\* The vault may have locked since: no rows.
ProbeSidebar ==
    /\ tray.pc = "sidebar" /\ Probing
    /\ Show([tray.next EXCEPT !.rows = IF Answers /\ ~agent.locked THEN agent.pinned ELSE {}])

-----------------------------------------------------------------------------
(* next_signal.                                                            *)

Waiting == tray.pc = "wait"
\* `early` is a history variable: the subscription was not open yet.
Probe == tray' = [tray EXCEPT !.pc = "version", !.early = stream'.state # "open"]

\* Dropping next_event: the next read takes the rest of a half-read frame for a
\* length, and waits for that many bytes or fails.
Cancelled ==
    IF ~stream.half THEN stream' = stream
    ELSE \E eof \in BOOLEAN :
            stream' = [state |-> "deaf", eof |-> eof, frames |-> 0, half |-> FALSE]

CommandReceived ==
    /\ Waiting /\ tray.commands # <<>> /\ Cancelled
    /\ IF Head(tray.commands)[1] = "Exit"
       THEN /\ tray' = [tray EXCEPT !.pc = "exited"]
            \* The selection goes with its owner unless a clipboard manager has it.
            /\ clip' \in {[text |-> t, timers |-> <<>>, failed |-> FALSE] : t \in {clip.text, None}}
       ELSE tray' = [tray EXCEPT !.pc = "run"] /\ UNCHANGED clip
    /\ UNCHANGED <<agent, ops>>

\* A mutant without the safety-net probe.
TickNever == FALSE
Tick == Waiting /\ Cancelled /\ Probe /\ UNCHANGED <<agent, clip, ops>>

\* next_event: subscribe if needed ...
Subscribe ==
    /\ Waiting /\ stream.state = "none" /\ agent.up
    /\ stream' = [NoStream EXCEPT !.state = "open"] /\ tray' = [tray EXCEPT !.early = TRUE]
    /\ UNCHANGED <<agent, clip, ops>>
SubscribeFailed ==
    /\ Waiting /\ stream.state = "none" /\ ~agent.up
    /\ UNCHANGED <<agent, stream, clip, ops>> /\ Probe
\* ... and read a frame.
ReadLength ==
    /\ Waiting /\ stream.frames > 0 /\ ~stream.half
    /\ stream' = [stream EXCEPT !.half = TRUE] /\ UNCHANGED <<agent, tray, clip, ops>>
\* A mutant that only logs the event.
EventLogged ==
    /\ Waiting /\ stream.half /\ stream' = [stream EXCEPT !.frames = @ - 1, !.half = FALSE]
    /\ UNCHANGED <<agent, tray, clip, ops>>
EventReceived ==
    /\ Waiting /\ stream.half /\ stream' = [stream EXCEPT !.frames = @ - 1, !.half = FALSE]
    /\ Probe /\ UNCHANGED <<agent, clip, ops>>
\* The agent is gone, perhaps in the middle of a frame, or the frame makes no sense.
StreamEnded ==
    /\ Waiting /\ stream.eof /\ (stream.frames = 0 \/ stream.half)
    /\ stream' = NoStream /\ Probe /\ UNCHANGED <<agent, clip, ops>>

-----------------------------------------------------------------------------
(* The menu and its commands.                                              *)

\* Every login here has a username; Open link only starts a browser and is left out.
BuildMenu(s) ==
    {<<"Exit">>} \cup
    IF s.protocol_mismatch THEN {}
    ELSE {<<"OpenVault">>} \cup ({"CopyPassword", "CopyLogin"} \X s.rows)
         \cup (IF Unlocked(s) THEN {<<"Lock">>, <<"Logout">>} ELSE {})

\* The host's thread puts the command into the channel.
MenuClicked(c) ==
    /\ c \in BuildMenu(tray.state) /\ tray.pc # "exited" /\ Act
    /\ tray' = [tray EXCEPT !.commands = Append(@, c)] /\ UNCHANGED <<agent, stream, clip>>

\* A mutant without the timer.
CopyForever(text) == clip' = [clip EXCEPT !.text = text, !.failed = FALSE]
\* The clipboard is locked and written, and a timer started; or that fails.
CopySecret(text) ==
    \/ clip' = [text |-> text, timers |-> Append(clip.timers, text), failed |-> FALSE]
    \/ UNCHANGED clip
\* clear_if_ours, CLIPBOARD_CLEAR_SECS after the copy.
ClearIfOurs ==
    /\ clip.timers # <<>> /\ tray.pc # "exited"
    /\ clip' = [clip EXCEPT !.text = IF @ = Head(clip.timers) THEN None ELSE @,
                            !.timers = Tail(@)]
    /\ UNCHANGED <<agent, stream, tray, ops>>
\* Locking, reading or writing the clipboard fails: the timer is over all the same.
ClearFails ==
    /\ clip.timers # <<>> /\ tray.pc # "exited"
    /\ LET later == Tail(clip.timers)
           ours == clip.text = Head(clip.timers) /\ \A i \in DOMAIN later : later[i] # clip.text
       IN clip' = [clip EXCEPT !.timers = later, !.failed = @ \/ ours]
    /\ UNCHANGED <<agent, stream, tray, ops>>
UserCopies ==
    /\ Act /\ clip' = [clip EXCEPT !.text = <<"user's">>, !.failed = FALSE]
    /\ UNCHANGED <<agent, stream, tray>>

\* The agent has a row's login also when it is no favourite any more, but not after a
\* logout.
GetPassword(l) == Answers /\ agent.account /\ ~agent.locked /\ l \notin Gated
RunCommand ==
    /\ tray.pc = "run"
    /\ LET c == Head(tray.commands)
       IN CASE c[1] = "Lock" /\ Answers -> Lock /\ UNCHANGED clip
            [] c[1] = "Logout" /\ Answers -> Logout /\ UNCHANGED clip
            [] c[1] = "CopyPassword" /\ GetPassword(c[2]) -> CopySecret(c) /\ UNCHANGED <<agent, stream>>
            [] c[1] = "CopyLogin" /\ c[2] \in tray.state.rows -> CopySecret(c) /\ UNCHANGED <<agent, stream>>
            [] OTHER -> UNCHANGED <<agent, stream, clip>>
    /\ tray' = [tray EXCEPT !.pc = "version", !.commands = Tail(@),
                            !.early = stream'.state # "open"]
    /\ UNCHANGED ops

-----------------------------------------------------------------------------
Loop ==
    \/ ProbeVersion \/ ProbeConfig \/ ProbeSidebar
    \/ CommandReceived \/ Tick \/ Subscribe \/ SubscribeFailed
    \/ ReadLength \/ EventReceived \/ StreamEnded \/ RunCommand
Next ==
    \/ Loop \/ ClearIfOurs \/ ClearFails \/ UserCopies
    \/ Elsewhere \/ FavoriteAnswered \/ AgentStops
    \/ \E l \in Logins : SetFavorite(l)
    \/ \E m \in BOOLEAN : AgentStarts(m)
    \/ \E c \in BuildMenu(tray.state) : MenuClicked(c)

Spec == Init /\ [][Next]_vars
\* The loop's requests are answered or fail, and its timers fire.
FairSpec == Spec /\ WF_vars(Loop) /\ WF_vars(ClearIfOurs \/ ClearFails)

-----------------------------------------------------------------------------
(* Properties.                                                             *)

View(a) ==
    IF ~a.up \/ ~a.matches THEN [Down EXCEPT !.protocol_mismatch = a.up]
    ELSE [protocol_mismatch |-> FALSE, agent_ready |-> TRUE, has_account |-> a.account,
          locked |-> a.locked, rows |-> IF a.account /\ ~a.locked THEN a.pinned ELSE {}]

\* A tray that waits with nothing unread on a subscription that was open before its
\* last probe shows the agent as it is, although a probe is three requests and the
\* agent may have changed between them (probe, next_signal).  A change that the agent
\* has not announced is excepted.
MenuFresh ==
    Waiting /\ stream.state = "open" /\ ~stream.eof /\ stream.frames = 0
    /\ ~tray.early /\ ~agent.silent
        => tray.state = View(agent)

\* Whatever was missed (events before the subscription, one dropped half read, a
\* restarted or updated agent, a change without an event), the menu follows: once
\* the agent stays as it is, the tray comes to show it and goes on to (PROBE_INTERVAL).
MenuFollows == <>[](tray.pc = "exited" \/ tray.state = View(agent))

\* A secret the tray has copied does not stay on the clipboard, whatever else is
\* copied meanwhile, unless the tray is closed or the last timer started for this
\* secret fails: there is no second try (copy_secret, clear_if_ours).
CopiesCleared ==
    \A c \in {"CopyPassword", "CopyLogin"} \X Logins :
        clip.text = c ~> clip.text # c \/ tray.pc = "exited" \/ clip.failed
=============================================================================
