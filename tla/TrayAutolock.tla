---------------------------- MODULE TrayAutolock ----------------------------
(***************************************************************************)
(* The inactivity timer with the Plasma tray running.  The tray reads the  *)
(* agent after every event and every PROBE_INTERVAL; its GetSidebarEntries *)
(* resets the timer as any successful request of a person does.            *)
(***************************************************************************)
EXTENDS Autolock

CONSTANT ProbeInterval    \* PROBE_INTERVAL, 30 seconds in the code

VARIABLES
    used,        \* history: when a person last asked the agent for something
    probeAt      \* when the tray reads the agent again
trayVars == <<timerVars, used, probeAt>>

TrayInit == TimerInit /\ used = 0 /\ probeAt = 0

\* Locked and Unlocked make the tray read the agent at once.
Notified == probeAt' = IF unlocked' = unlocked THEN probeAt ELSE now

\* The clock does not pass a probe that is due.
Pass == Tick /\ now < probeAt /\ UNCHANGED <<used, probeAt>>
Timer == (TimerTop \/ TimerCheck) /\ Notified /\ UNCHANGED used
\* Version and GetConfig are no activity, GetSidebarEntries is; it is sent while the
\* vault is open.
TrayProbe ==
    /\ now = probeAt /\ probeAt' = now + ProbeInterval
    /\ IF unlocked THEN Activity ELSE UNCHANGED timerVars
    /\ UNCHANGED used
\* Requests of a person, through whichever client.
Person ==
    /\ \/ Activity \/ UnlockCommit \/ UnlockResponse \/ LockRequest
       \/ \E d \in Timeouts : SetDuration(d)
    /\ used' = now /\ Notified

TrayNext == Pass \/ Timer \/ TrayProbe \/ Person
TraySpec == TrayInit /\ [][TrayNext]_trayVars

-----------------------------------------------------------------------------
\* A vault that nobody uses is locked no later than the timeout, or one MaxSleep if
\* that is longer, after its last use ("locks ... on an inactivity timeout").
LocksUnattended ==
    unlocked /\ ~opening /\ timeout # 0 => now - used <= Larger(timeout, MaxSleep)
=============================================================================
