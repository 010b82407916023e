------------------------------ MODULE Autolock ------------------------------
(***************************************************************************)
(* The inactivity timer (cosmarden-agent/src/timeout.rs) and the request   *)
(* loop that resets it (lib.rs): the timer sleeps for what is left of the  *)
(* timeout, at most MaxSleep, and looks at the clock again.                *)
(*                                                                         *)
(* A request resets the timer when its response is ready, not when it      *)
(* begins.  An unlock makes the keys available before that: it may still   *)
(* be waiting for the server to restore the session.                       *)
(***************************************************************************)
EXTENDS Integers

CONSTANTS
    MaxSleep,    \* MAX_SLEEP, 30 seconds in the code
    Timeouts,    \* values of lock_timeout; 0 disables the timer
    MaxTime      \* bound on the clock

ASSUME SleepAssumption == MaxSleep \in Nat \ {0}
ASSUME TimeoutsAssumption == Timeouts \subseteq Nat /\ Timeouts # {}
ASSUME TimeAssumption == MaxTime \in Nat

VARIABLES
    now,         \* the clock, in seconds
    last,        \* TimerHandle::last_activity
    timeout,     \* TimerHandle::lock_timeout_secs
    unlocked,    \* State::keys is Some
    opening,     \* an unlock has committed the keys but not yet responded
    openedAt,    \* history: when the last unlock committed
    pc, wake     \* where the timer resumes, and when

timerVars == <<now, last, timeout, unlocked, opening, openedAt, pc, wake>>
sleepVars == <<pc, wake>>

\* One type invariant for the timer.
TimerTypeOK ==
    /\ now \in 0 .. MaxTime /\ last \in 0 .. now /\ openedAt \in 0 .. now
    /\ timeout \in Timeouts
    /\ unlocked \in BOOLEAN /\ opening \in BOOLEAN
    /\ pc \in {"top", "check"}
    /\ wake \in now .. now + MaxSleep

Larger(m, n) == IF m > n THEN m ELSE n
Smaller(m, n) == IF m < n THEN m ELSE n

\* remaining_sleep_secs: seconds until last + timeout, capped; 0 is "lock now".
RemainingSleepSecs(n, l, d) ==
    IF d = 0 THEN MaxSleep
    ELSE IF n - l >= d THEN 0
    ELSE Smaller(d - (n - l), MaxSleep)

\* The top of run()'s loop, up to its next sleep.
LoopTop ==
    /\ pc' = IF timeout = 0 THEN "top" ELSE "check"
    /\ wake' = now + RemainingSleepSecs(now, last, timeout)

TimerInit ==
    /\ now = 0 /\ last = 0 /\ openedAt = 0
    /\ timeout \in Timeouts
    /\ unlocked = FALSE /\ opening = FALSE
    /\ pc = "top" /\ wake = 0

\* The clock cannot pass the timer's wake-up.
Tick ==
    /\ now < wake /\ now < MaxTime
    /\ now' = now + 1
    /\ UNCHANGED <<last, timeout, unlocked, opening, openedAt, sleepVars>>

TimerTop ==
    /\ pc = "top" /\ now = wake
    /\ LoopTop
    /\ UNCHANGED <<now, last, timeout, unlocked, opening, openedAt>>

\* After the sleep: disabled meanwhile, locked (keys or not, it then sleeps
\* MaxSleep), or not yet.
TimerCheck ==
    /\ pc = "check" /\ now = wake
    /\ \/ /\ timeout # 0 /\ now - last >= timeout
          /\ unlocked' = FALSE
          /\ pc' = "top" /\ wake' = now + MaxSleep
       \/ /\ timeout = 0 \/ now - last < timeout
          /\ LoopTop
          /\ UNCHANGED unlocked
    /\ UNCHANGED <<now, last, timeout, opening, openedAt>>
-----------------------------------------------------------------------------
(* Requests *)

\* Any successful action that counts as activity.
Activity ==
    /\ last' = now
    /\ UNCHANGED <<now, timeout, unlocked, opening, openedAt, sleepVars>>

\* An unlock commits the keys and goes on to restore the session.
UnlockCommit ==
    /\ unlocked' = TRUE
    /\ opening' = TRUE
    /\ openedAt' = now
    /\ UNCHANGED <<now, last, timeout, sleepVars>>

UnlockResponse ==
    /\ opening
    /\ opening' = FALSE
    /\ last' = now
    /\ UNCHANGED <<now, timeout, unlocked, openedAt, sleepVars>>

\* Lock is not activity.
LockRequest ==
    /\ unlocked
    /\ unlocked' = FALSE
    /\ UNCHANGED <<now, last, timeout, opening, openedAt, sleepVars>>

\* UpdateLockTimeout: set_duration, which also restarts the countdown.
SetDurationNoReset(d) ==
    /\ timeout' = d
    /\ UNCHANGED <<now, last, unlocked, opening, openedAt, sleepVars>>
SetDuration(d) ==
    /\ timeout' = d
    /\ last' = now
    /\ UNCHANGED <<now, unlocked, opening, openedAt, sleepVars>>

TimerNext ==
    \/ Tick \/ TimerTop \/ TimerCheck
    \/ Activity \/ UnlockCommit \/ UnlockResponse \/ LockRequest
    \/ \E d \in Timeouts : SetDuration(d)

TimerSpec == TimerInit /\ [][TimerNext]_timerVars
-----------------------------------------------------------------------------
(* Properties *)

IdleSince == Larger(last, openedAt)

\* An idle vault does not stay open: with a timeout set, the vault is locked
\* no later than the timeout, or one MaxSleep if that is longer, after the
\* last activity or unlock, whatever the timer was doing when that happened
\* and however the timeout was changed meanwhile.
LocksInTime ==
    unlocked /\ timeout # 0 => now - IdleSince <= Larger(timeout, MaxSleep)

\* The inductive strengthening of LocksInTime: the timer is due before the
\* bound runs out.
DueInTime ==
    unlocked /\ timeout # 0 => wake <= IdleSince + Larger(timeout, MaxSleep)
=============================================================================
