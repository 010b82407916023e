----------------------------- MODULE LockProofs -----------------------------
(***************************************************************************)
(* Around the lock: one unlock prompt per lock period, for any number of   *)
(* sign requests, clients and accounts; a vault that the inactivity timer  *)
(* locks in time, for every timeout and sleep; and a vault window that     *)
(* shows what the agent has, whatever was locked, unlocked or deleted.     *)
(*                                                                         *)
(* PromptedOnce alone is not inductive: a client that got its prompt while *)
(* unlock_requested_notified is down again would get another.  Inv adds    *)
(* that the flag stays up for as long as some client's prompt counts, so   *)
(* the proof comes down to which methods of State lower it: only lock()    *)
(* and clear_account(), which begin a new period.                          *)
(***************************************************************************)
EXTENDS SshSign, Autolock, VaultPane, FiniteSetTheorems, SequenceTheorems, TLAPS

TypeOK ==
    /\ st \in State
    /\ signer \in [Signers -> {"new"} \cup Waiting \cup Outcomes]
    /\ expired \in [Signers -> BOOLEAN]
    /\ subscribed \in SUBSET Clients
    /\ prompts \in [Clients -> Nat]

\* Whoever was prompted in this lock period was prompted once, and request_unlock
\* remembers it.
Remembered == \A c \in Clients : prompts[c] = 0 \/ (prompts[c] = 1 /\ st.notified)

Inv == TypeOK /\ Remembered
-----------------------------------------------------------------------------
(* The methods of State *)

\* The empty values are well typed.
LEMMA EmptyValues ==
    /\ 0 \in 0 .. EpochMod - 1
    /\ NoToken \in Token /\ NoDb \in Db
  BY EpochAssumption DEF NoToken, Token, NoDb, Db, Owner

\* lock_epoch's wrapping bump keeps the record's type and every other field.
LEMMA BumpType ==
    ASSUME NEW s \in State
    PROVE  BumpEpoch(s) \in State /\ BumpEpoch(s).notified = s.notified
<1> DEFINE n == (s.epoch + 1) % EpochMod
<1>1. s.epoch \in 0 .. EpochMod - 1
  BY DEF State
<1>2. n \in 0 .. EpochMod - 1
  BY <1>1, EpochAssumption
<1>3. BumpEpoch(s) = [s EXCEPT !.epoch = n]
  BY DEF BumpEpoch, State
<1> HIDE DEF n
<1> QED
  BY <1>2, <1>3 DEF State

\* Rebuilding the caches does not touch the flag.
LEMMA RebuildType ==
    ASSUME NEW s \in State
    PROVE  /\ RebuildSidebarCache(s) \in State
           /\ RebuildSidebarCache(s).notified = s.notified
<1>1. s.db.vault \in Owner /\ SshIdentities(s) \in Owner
  BY DEF State, Db, SshIdentities, Owner
<1> QED
  BY <1>1 DEF RebuildSidebarCache, State, Owner, VaultSessions

\* lock() leaves a State.
LEMMA LockType ==
    ASSUME NEW s \in State
    PROVE  Lock(s) \in State
<1> DEFINE d == [s.db EXCEPT !.tok = NoToken]
           u == [s EXCEPT !.keys = None, !.orgKeys = None, !.sidebar = None,
                          !.pending = FALSE, !.notified = FALSE,
                          !.session = "Locked", !.db = d]
<1>1. d \in Db
  BY EmptyValues DEF State, Db
<1>2. Lock(s) = BumpEpoch(u)
  BY DEF Lock, State
<1>3. u \in State
  <2> HIDE DEF d
  <2> QED
    BY <1>1 DEF State, Owner, VaultSessions
<1> HIDE DEF u
<1> QED
  BY <1>2, <1>3, BumpType

\* So does clear_account().
LEMMA ClearAccountType ==
    ASSUME NEW s \in State
    PROVE  ClearAccount(s) \in State
<1> DEFINE l == Lock(s)
<1>1. l \in State
  BY LockType
<1>2. ClearAccount(s) = [l EXCEPT !.sshIds = None, !.db = NoDb, !.userId = None,
                                  !.syncFailed = FALSE, !.session = "LoggedOut"]
  BY DEF ClearAccount
<1> HIDE DEF l
<1> QED
  BY <1>1, <1>2, EmptyValues DEF State, Owner, VaultSessions

\* No unlock path lowers the flag ...
LEMMA CommitUnlockType ==
    ASSUME NEW s \in State, NEW k \in Owner, NEW f \in DbFile
    PROVE  CommitUnlock(s, k, f) \in State /\ CommitUnlock(s, k, f).notified = s.notified
<1> DEFINE d == [LoadDb(f) EXCEPT !.tok = s.db.tok]
           u == [s EXCEPT !.keys = k, !.orgKeys = k, !.db = d]
<1>1. d \in Db
  BY DEF LoadDb, Db, DbFile, State
<1>2. u \in State /\ u.notified = s.notified
  <2> HIDE DEF d
  <2> QED
    BY <1>1 DEF State
<1>3. CommitUnlock(s, k, f) = RebuildSidebarCache(BumpEpoch(u))
  BY DEF CommitUnlock
<1> HIDE DEF u
<1> QED
  BY <1>2, <1>3, BumpType, RebuildType

\* ... nor does a login ...
LEMMA CommitLoginType ==
    ASSUME NEW s \in State, NEW a \in Owner, NEW t \in Token
    PROVE  CommitLogin(s, a, t) \in State /\ CommitLogin(s, a, t).notified = s.notified
<1> DEFINE d == [present |-> TRUE, kdf |-> TRUE, vault |-> a, tok |-> t]
           u == [s EXCEPT !.keys = a, !.orgKeys = a, !.userId = a,
                          !.syncFailed = FALSE, !.db = d]
<1>1. d \in Db
  BY DEF Db
<1>2. u \in State /\ u.notified = s.notified
  <2> HIDE DEF d
  <2> QED
    BY <1>1 DEF State
<1>3. CommitLogin(s, a, t) = RebuildSidebarCache(BumpEpoch(u))
  BY DEF CommitLogin
<1> HIDE DEF u
<1> QED
  BY <1>2, <1>3, BumpType, RebuildType

\* ... nor the answer of a sync.
LEMMA ApplySyncType ==
    ASSUME NEW s \in State, NEW a \in Owner
    PROVE  ApplySync(s, a) \in State /\ ApplySync(s, a).notified = s.notified
<1> DEFINE d == [s.db EXCEPT !.vault = IF s.db.present THEN a ELSE @]
           u == [s EXCEPT !.userId = a, !.db = d, !.syncFailed = FALSE]
<1>1. d \in Db
  BY DEF State, Db
<1>2. u \in State /\ u.notified = s.notified
  <2> HIDE DEF d
  <2> QED
    BY <1>1 DEF State
<1>3. ApplySync(s, a) = RebuildSidebarCache(u)
  BY DEF ApplySync, State
<1> HIDE DEF u
<1> QED
  BY <1>2, <1>3, RebuildType
-----------------------------------------------------------------------------
(* The actions *)

\* request_unlock counts a prompt only for a period that has had none, and the
\* flag is up afterwards: whoever asks, in whatever order.
LEMMA PromptRemembered ==
    ASSUME Inv, Prompt
    PROVE  /\ st' \in State
           /\ prompts' \in [Clients -> Nat]
           /\ Remembered'
<1>1. st' \in State /\ st'.notified = TRUE
  BY DEF Inv, TypeOK, Prompt, RequestUnlock, State
<1>2. prompts' \in [Clients -> Nat]
  BY DEF Inv, TypeOK, Prompt
<1>3. ASSUME NEW c \in Clients
      PROVE  prompts'[c] = 0 \/ prompts'[c] = 1
  <2>1. prompts'[c] = IF c \in subscribed /\ PromptEvent(st) # "none"
                      THEN prompts[c] + 1 ELSE prompts[c]
    BY DEF Prompt
  <2>2. PromptEvent(st) # "none" => ~st.notified
    BY DEF PromptEvent
  <2>3. prompts[c] = 0 \/ (prompts[c] = 1 /\ st.notified)
    BY DEF Inv, Remembered
  <2> QED
    BY <2>1, <2>2, <2>3
<1> QED
  BY <1>1, <1>2, <1>3 DEF Remembered

\* A round of sign_request's loop either leaves the flag alone or prompts.
LEMMA AttemptRemembered ==
    ASSUME Inv, NEW s \in Signers, Attempt(s)
    PROVE  /\ st' \in State
           /\ signer' \in [Signers -> {"new"} \cup Waiting \cup Outcomes]
           /\ prompts' \in [Clients -> Nat]
           /\ Remembered'
<1>1. signer' \in [Signers -> {"new"} \cup Waiting \cup Outcomes]
  <2>1. SignUnlocked(s) \in {"new"} \cup Waiting \cup Outcomes
    BY DEF SignUnlocked, Outcomes, Failed
  <2> QED
    BY <2>1 DEF Inv, TypeOK, Attempt, Waiting, Outcomes, Failed
<1>2. CASE UNCHANGED <<st, prompts>>
  BY <1>1, <1>2 DEF Inv, TypeOK, Remembered
<1>3. CASE Prompt
  BY <1>1, <1>3, PromptRemembered
<1> QED
  BY <1>2, <1>3 DEF Attempt

\* Nobody has been prompted when the agent starts.
LEMMA InitInv == Init => Inv
<1> SUFFICES ASSUME Init PROVE Inv
  OBVIOUS
<1>1. st \in State
  <2>1. PICK b \in BOOLEAN : st = NewState(b)
    BY DEF Init
  <2> QED
    BY <2>1, EmptyValues DEF NewState, State, Owner, VaultSessions
<1> QED
  BY <1>1 DEF Init, Inv, TypeOK, Remembered

\* Every step keeps the prompt remembered.
LEMMA NextInv == Inv /\ [Next]_vars => Inv'
<1> SUFFICES ASSUME Inv, [Next]_vars PROVE Inv'
  OBVIOUS
<1>1. ASSUME NEW s \in Signers, SignRequest(s) PROVE Inv'
  BY <1>1, AttemptRemembered DEF SignRequest, Inv, TypeOK
<1>2. ASSUME NEW s \in Signers, Wake(s) PROVE Inv'
  <2>1. CASE Attempt(s)
    BY <1>2, <2>1, AttemptRemembered DEF Wake, Inv, TypeOK
  <2>2. CASE signer' = [signer EXCEPT ![s] = "agent is locked"] /\ UNCHANGED <<st, prompts>>
    BY <1>2, <2>2 DEF Wake, Inv, TypeOK, Remembered, Outcomes, Failed
  <2> QED
    BY <1>2, <2>1, <2>2 DEF Wake
<1>3. ASSUME NEW s \in Signers, Expire(s) PROVE Inv'
  BY <1>3 DEF Expire, clientVars, Inv, TypeOK, Remembered
<1>4. ASSUME NEW s \in Signers, TimeOut(s) PROVE Inv'
  BY <1>4 DEF TimeOut, clientVars, Inv, TypeOK, Remembered, Outcomes, Failed
<1>5. ASSUME NEW s \in Signers, SignAgain(s) PROVE Inv'
  BY <1>5 DEF SignAgain, clientVars, Inv, TypeOK, Remembered
<1>6. ASSUME NEW a \in Accounts, UnlockVault(a) PROVE Inv'
  <2>1. a \in Owner /\ [kdf |-> TRUE, vault |-> a] \in DbFile
    BY DEF Owner, DbFile
  <2>2. st' \in State /\ st'.notified = st.notified
    BY <1>6, <2>1, CommitUnlockType DEF UnlockVault, Inv, TypeOK
  <2> QED
    BY <1>6, <2>2 DEF UnlockVault, signVars, clientVars, Inv, TypeOK, Remembered
<1>7. ASSUME NEW a \in Accounts, LoginVault(a) PROVE Inv'
  <2>1. a \in Owner
    BY DEF Owner
  <2>2. st' \in State /\ st'.notified = st.notified
    BY <1>7, <2>1, EmptyValues, CommitLoginType DEF LoginVault, Inv, TypeOK
  <2> QED
    BY <1>7, <2>2 DEF LoginVault, signVars, clientVars, Inv, TypeOK, Remembered
<1>8. CASE SyncArrives
  <2>1. st.db.vault \in Owner
    BY DEF Inv, TypeOK, State, Db
  <2>2. st' \in State /\ st'.notified = st.notified
    BY <1>8, <2>1, ApplySyncType DEF SyncArrives, Inv, TypeOK
  <2> QED
    BY <1>8, <2>2 DEF SyncArrives, signVars, clientVars, Inv, TypeOK, Remembered
<1>9. CASE LockVault
  BY <1>9, LockType DEF LockVault, signVars, Inv, TypeOK, Remembered
<1>10. CASE Logout
  BY <1>10, ClearAccountType DEF Logout, Inv, TypeOK, Remembered
<1>11. CASE ListIdentities
  BY <1>11, PromptRemembered DEF ListIdentities, signVars, Inv, TypeOK
<1>12. CASE RequestUnlockAction
  BY <1>12, PromptRemembered DEF RequestUnlockAction, signVars, Inv, TypeOK
<1>13. ASSUME NEW c \in Clients, Subscribe(c) PROVE Inv'
  BY <1>13 DEF Subscribe, signVars, Inv, TypeOK, Remembered
<1>14. ASSUME NEW c \in Clients, Disconnect(c) PROVE Inv'
  BY <1>14 DEF Disconnect, signVars, Inv, TypeOK, Remembered
<1>15. CASE UNCHANGED vars
  BY <1>15 DEF vars, Inv, TypeOK, Remembered
<1> QED
  BY <1>1, <1>2, <1>3, <1>4, <1>5, <1>6, <1>7, <1>8, <1>9, <1>10, <1>11, <1>12,
     <1>13, <1>14, <1>15 DEF Next

\* Between two calls of lock() a subscriber gets at most one PinRequested or
\* UnlockRequested, however many clients, sign requests, listings and unlocks
\* there are (State::request_unlock).
THEOREM PromptedOnceHolds == Spec => []PromptedOnce
<1>1. Inv => PromptedOnce
  BY DEF Inv, TypeOK, Remembered, PromptedOnce
<1> QED
  BY <1>1, InitInv, NextInv, PTL DEF Spec

-----------------------------------------------------------------------------
(* The inactivity timer: the bound for every MaxSleep, every set of        *)
(* timeouts and any length of run.                                         *)

\* remaining_sleep_secs never exceeds its cap, and ends no later than the
\* moment the timeout runs out, or now.
LEMMA RemainingBounds ==
    ASSUME NEW n \in Nat, NEW l \in 0 .. n, NEW d \in Nat
    PROVE  /\ RemainingSleepSecs(n, l, d) \in 0 .. MaxSleep
           /\ d # 0 => n + RemainingSleepSecs(n, l, d) <= Larger(n, l + d)
  BY SleepAssumption DEF RemainingSleepSecs, Larger, Smaller

\* The next sleep begun at the top of the loop stays within the bound.
LEMMA LoopTopInTime ==
    ASSUME TimerTypeOK, DueInTime, now = wake, LoopTop,
           UNCHANGED <<now, last, timeout, unlocked, openedAt>>
    PROVE  /\ pc' \in {"top", "check"}
           /\ wake' \in now' .. now' + MaxSleep
           /\ DueInTime'
<1>0. now \in Nat /\ last \in 0 .. now /\ openedAt \in 0 .. now /\ timeout \in Nat
  BY TimeAssumption, TimeoutsAssumption DEF TimerTypeOK
<1>1. /\ RemainingSleepSecs(now, last, timeout) \in 0 .. MaxSleep
      /\ timeout # 0 =>
            now + RemainingSleepSecs(now, last, timeout) <= Larger(now, last + timeout)
  BY <1>0, RemainingBounds
<1>2. wake' = now + RemainingSleepSecs(now, last, timeout) /\ pc' \in {"top", "check"}
  BY DEF LoopTop
<1>3. wake' \in now' .. now' + MaxSleep
  BY <1>0, <1>1, <1>2, SleepAssumption
<1>4. DueInTime'
  BY <1>0, <1>1, <1>2, SleepAssumption DEF DueInTime, IdleSince, Larger
<1> QED
  BY <1>2, <1>3, <1>4

TimerInv == TimerTypeOK /\ DueInTime

\* The timer starts due at once.
LEMMA TimerInitInv == TimerInit => TimerInv
<1> SUFFICES ASSUME TimerInit PROVE TimerInv
  OBVIOUS
<1>1. ~unlocked /\ unlocked \in BOOLEAN /\ opening \in BOOLEAN
  BY Zenon DEF TimerInit
<1>2. DueInTime
  BY <1>1, Zenon DEF DueInTime
<1>3. /\ now \in 0 .. MaxTime /\ last \in 0 .. now /\ openedAt \in 0 .. now
      /\ timeout \in Timeouts
      /\ pc \in {"top", "check"}
      /\ wake \in now .. now + MaxSleep
  BY SleepAssumption, TimeAssumption DEF TimerInit
<1> QED
  BY <1>1, <1>2, <1>3 DEF TimerInv, TimerTypeOK

\* Every step keeps the timer due in time.
LEMMA TimerNextInv == TimerInv /\ [TimerNext]_timerVars => TimerInv'
<1> SUFFICES ASSUME TimerInv, [TimerNext]_timerVars PROVE TimerInv'
  OBVIOUS
<1> USE SleepAssumption, TimeoutsAssumption, TimeAssumption DEF TimerInv
<1>0. now \in Nat /\ last \in Nat /\ openedAt \in Nat /\ timeout \in Nat /\ wake \in Nat
  BY DEF TimerTypeOK
<1>1. CASE Tick
  BY <1>0, <1>1 DEF Tick, TimerTypeOK, DueInTime, IdleSince, Larger, sleepVars
<1>2. CASE TimerTop
  <2>1. /\ pc' \in {"top", "check"}
        /\ wake' \in now' .. now' + MaxSleep
        /\ DueInTime'
    BY <1>2, LoopTopInTime DEF TimerTop
  <2> QED
    BY <1>2, <2>1 DEF TimerTop, TimerTypeOK
<1>3. CASE TimerCheck
  <2>1. CASE timeout # 0 /\ now - last >= timeout /\ unlocked' = FALSE
             /\ pc' = "top" /\ wake' = now + MaxSleep
    <3>1. ~unlocked' /\ unlocked' \in BOOLEAN
      BY <2>1, Zenon
    <3>2. DueInTime'
      BY <3>1, Zenon DEF DueInTime
    <3> QED
      BY <1>0, <1>3, <2>1, <3>1, <3>2 DEF TimerCheck, TimerTypeOK
  <2>2. CASE LoopTop /\ UNCHANGED unlocked
    <3>1. /\ pc' \in {"top", "check"}
          /\ wake' \in now' .. now' + MaxSleep
          /\ DueInTime'
      BY <1>3, <2>2, LoopTopInTime DEF TimerCheck
    <3> QED
      BY <1>3, <2>2, <3>1 DEF TimerCheck, TimerTypeOK
  <2> QED
    BY <1>3, <2>1, <2>2 DEF TimerCheck
<1>4. CASE Activity
  BY <1>0, <1>4 DEF Activity, TimerTypeOK, DueInTime, IdleSince, Larger, sleepVars
<1>5. CASE UnlockCommit
  BY <1>0, <1>5 DEF UnlockCommit, TimerTypeOK, DueInTime, IdleSince, Larger, sleepVars
<1>6. CASE UnlockResponse
  <2>1. opening' \in BOOLEAN
    BY <1>6, Zenon DEF UnlockResponse
  <2>2. last' = now /\ UNCHANGED <<now, timeout, unlocked, openedAt, pc, wake>>
    BY <1>6 DEF UnlockResponse, sleepVars
  <2>3. DueInTime'
    BY <1>0, <2>2 DEF TimerTypeOK, DueInTime, IdleSince, Larger
  <2> QED
    BY <1>0, <2>1, <2>2, <2>3 DEF TimerTypeOK
<1>7. CASE LockRequest
  BY <1>0, <1>7 DEF LockRequest, TimerTypeOK, DueInTime, sleepVars
<1>8. ASSUME NEW d \in Timeouts, SetDuration(d) PROVE TimerInv'
  <2>1. d \in Nat
    OBVIOUS
  <2> QED
    BY <1>0, <1>8, <2>1 DEF SetDuration, TimerTypeOK, DueInTime, IdleSince, Larger, sleepVars
<1>9. CASE UNCHANGED timerVars
  BY <1>9 DEF timerVars, TimerTypeOK, DueInTime, IdleSince
<1> QED
  BY <1>1, <1>2, <1>3, <1>4, <1>5, <1>6, <1>7, <1>8, <1>9 DEF TimerNext

\* The timer's variables keep their types; the wake-up is never more than MAX_SLEEP
\* away (remaining_sleep_secs).
THEOREM AutolockTypes == TimerSpec => []TimerTypeOK
<1>1. TimerInv => TimerTypeOK
  BY DEF TimerInv
<1> QED
  BY <1>1, TimerInitInv, TimerNextInv, PTL DEF TimerSpec

\* An idle vault is locked in time: no later than the timeout (or one sleep of
\* the timer, if longer) after the last activity or unlock.
THEOREM AutolockBound == TimerSpec => []LocksInTime
<1>1. TimerInv => LocksInTime
  BY SleepAssumption, TimeoutsAssumption, TimeAssumption
  DEF TimerInv, TimerTypeOK, DueInTime, LocksInTime, IdleSince, Larger
<1> QED
  BY <1>1, TimerInitInv, TimerNextInv, PTL DEF TimerSpec

-----------------------------------------------------------------------------
(* The vault window, which the agent locks and unlocks.                    *)
(*                                                                         *)
(* What PaneListFresh and SelectionExists say of a window to which nothing *)
(* more is on its way follows from what holds before: while the agent is   *)
(* unlocked, the window is open or an Unlocked is coming, and either       *)
(* something on its way will make it fetch the list again (Renewal), or    *)
(* every list on its way is the agent's and the window has it or will have *)
(* it (Follows).                                                           *)

Names == Entries \cup {Nil, Draft}
Fields == {"none", "Password", "TOTP", "Notes"}
PaneRequests ==
    [kind : {"List", "Meta", "Edit", "Secret", "Save", "Delete", "Sync"}, id : Names, field : Fields,
     copy : BOOLEAN, pw : BOOLEAN]
PaneAnswers ==
    [req : PaneRequests, code : {"ok", "err", "locked", "reprompt_required"}, ids : SUBSET Entries]
EventNames == {"Locked", "Unlocked", "VaultChanged"}
Broadcasts == [event : EventNames]
Reselections == [event : {"Reselect"}, id : Names]
Messages == PaneAnswers \cup Broadcasts \cup Reselections
Links ==
    {q \in [waiting : Seq(PaneRequests), reply : Seq(PaneAnswers), inbox : Seq(Messages)] : Len(q.reply) <= 1}
Panes ==
    [view : {"Vault", "Unlock"}, list : SUBSET Entries, selected : Names,
     shown : [id : Names, loaded : SUBSET (Names \X Fields)], editing : Names, code : Names,
     revealed : SUBSET (Names \X Fields), reprompt : Names,
     intent : [kind : {"none", "Copy", "Reveal", "Edit"}, field : Fields], confirm : Names,
     deleting : BOOLEAN]
PaneAgents == [locked : BOOLEAN, ids : SUBSET Entries]

\* A message that is an event, an answer with a list, or tells of a deletion.
Says(m, e) == m \in Broadcasts /\ m.event = e
Listed(m) == m \in PaneAnswers /\ m.req.kind = "List"
Deleted(m) == m \in PaneAnswers /\ m.req.kind = "Delete" /\ m.code = "ok"

\* While the agent is unlocked, an Unlocked follows every Locked on its way, and the
\* vault is shown or will be.
Opening(ev, q) ==
    (\E j \in DOMAIN ev : ev[j] = "Unlocked") \/ \E j \in DOMAIN q.inbox : Says(q.inbox[j], "Unlocked")
Ordered(ev, q) ==
    /\ \A i \in DOMAIN ev : ev[i] = "Locked" => \E j \in DOMAIN ev : i < j /\ ev[j] = "Unlocked"
    /\ \A i \in DOMAIN q.inbox : Says(q.inbox[i], "Locked") =>
           \/ \E j \in DOMAIN q.inbox : i < j /\ Says(q.inbox[j], "Unlocked")
           \/ \E j \in DOMAIN ev : ev[j] = "Unlocked"

\* What will make the window fetch the list again.
Renews(m) == Says(m, "Unlocked") \/ Says(m, "VaultChanged") \/ Deleted(m)
Renewal(ev, q) ==
    \/ \E j \in DOMAIN ev : ev[j] \in {"Unlocked", "VaultChanged"}
    \/ \E j \in DOMAIN q.inbox : Renews(q.inbox[j])
    \/ \E j \in DOMAIN q.reply : Deleted(q.reply[j])

\* A list that is to come after the first i messages of the inbox.
Coming(q, i) ==
    \/ \E j \in DOMAIN q.waiting : q.waiting[j].kind = "List"
    \/ \E j \in DOMAIN q.reply : Listed(q.reply[j])
    \/ \E j \in DOMAIN q.inbox : i < j /\ Listed(q.inbox[j])
\* Without a renewal every list on its way is the agent's, and the window has it or will
\* have it; so is what it selects, now and when a saved entry is selected again.
Exact(a, m) == Listed(m) => m.code = "ok" /\ m.ids = a.ids
Known(a, id) == id \in a.ids \cup {Nil}
Exacts(a, q) ==
    /\ \A i \in DOMAIN q.inbox : Exact(a, q.inbox[i])
    /\ \A i \in DOMAIN q.reply : Exact(a, q.reply[i])
Reselects(a, q) ==
    \A i \in DOMAIN q.inbox : q.inbox[i] \in Reselections => Coming(q, i) \/ Known(a, q.inbox[i].id)
Shows(a, q, p) == Coming(q, 0) \/ (p.list = a.ids /\ Known(a, p.selected))
Follows(a, q, p) == Exacts(a, q) /\ Reselects(a, q) /\ Shows(a, q, p)

PaneOK(a, ev, q, p) ==
    ~a.locked => /\ Ordered(ev, q) /\ (p.view = "Vault" \/ Opening(ev, q))
                 /\ Renewal(ev, q) \/ Follows(a, q, p)
PaneInv ==
    /\ agent \in PaneAgents /\ events \in Seq(EventNames) /\ link \in Links /\ pane \in Panes
    /\ ops \in Nat /\ PaneOK(agent, events, link, pane)

-----------------------------------------------------------------------------
(* Leaving out elements of a sequence, as in AppletProofs *)

\* f takes each position of t to the one of s it was at.
Places(s, K, t, f) ==
    /\ f \in [DOMAIN t -> K]
    /\ \A i \in DOMAIN t : t[i] = s[f[i]]
    /\ \A i, j \in DOMAIN t : i < j => f[i] < f[j]
    /\ \A k \in K : \E i \in DOMAIN t : f[i] = k

\* Keeping leaves the order of what it keeps.
LEMMA KeepingProps ==
    ASSUME NEW S, NEW s \in Seq(S), NEW K \in SUBSET DOMAIN s
    PROVE  /\ Keeping(s, K) \in Seq(S) /\ Len(Keeping(s, K)) <= Len(s)
           /\ \E f : Places(s, K, Keeping(s, K), f)
<1> DEFINE n == Cardinality(K)
           Upto(i) == {j \in K : j <= i}
           r == [i \in K |-> Cardinality(Upto(i))]
           f == [k \in 1 .. n |-> CHOOSE i \in K : Cardinality(Upto(i)) = k]
           t == Keeping(s, K)
<1>1. DOMAIN s = 1 .. Len(s) /\ Len(s) \in Nat /\ K \subseteq Nat
  OBVIOUS
<1>2. IsFiniteSet(DOMAIN s) /\ Cardinality(DOMAIN s) = Len(s)
  BY <1>1, FS_Interval
<1>3. IsFiniteSet(K) /\ n <= Len(s) /\ n \in Nat
  BY <1>2, FS_Subset, FS_CardinalityType
<1>4. \A i \in K : IsFiniteSet(Upto(i)) /\ Cardinality(Upto(i)) \in 1 .. n
  <2> SUFFICES ASSUME NEW i \in K PROVE IsFiniteSet(Upto(i)) /\ Cardinality(Upto(i)) \in 1 .. n
    OBVIOUS
  <2>1. Upto(i) \in SUBSET K /\ i \in Upto(i)
    BY <1>1
  <2> HIDE DEF Upto
  <2>2. IsFiniteSet(Upto(i)) /\ Cardinality(Upto(i)) <= n /\ Cardinality(Upto(i)) \in Nat
    BY <1>3, <2>1, FS_Subset, FS_CardinalityType
  <2>3. Cardinality(Upto(i)) # 0
    BY <2>1, <2>2, FS_EmptySet
  <2> QED
    BY <1>3, <2>2, <2>3
<1>5. \A i, j \in K : i < j => Cardinality(Upto(i)) < Cardinality(Upto(j))
  <2> SUFFICES ASSUME NEW i \in K, NEW j \in K, i < j
               PROVE  Cardinality(Upto(i)) < Cardinality(Upto(j))
    OBVIOUS
  <2>1. Upto(i) \in SUBSET Upto(j) /\ j \in Upto(j) /\ j \notin Upto(i)
    BY <1>1
  <2> HIDE DEF Upto
  <2>2. /\ Cardinality(Upto(i)) <= Cardinality(Upto(j))
        /\ Cardinality(Upto(i)) # Cardinality(Upto(j))
    BY <1>4, <2>1, FS_Subset
  <2> QED
    BY <1>3, <1>4, <2>2
<1> HIDE DEF Upto
<1>6. r \in Injection(K, 1 .. n)
  BY <1>1, <1>3, <1>4, <1>5 DEF Injection, IsInjective
<1>7. IsFiniteSet(1 .. n) /\ Cardinality(1 .. n) = n
  BY <1>3, FS_Interval
<1> HIDE DEF n, r
<1>8. r \in Surjection(K, 1 .. n)
  BY <1>3, <1>6, <1>7, FS_Injection DEF n
<1>9. \A k \in 1 .. n : \E i \in K : Cardinality(Upto(i)) = k
  BY <1>8 DEF Surjection, r
<1>10. f \in [1 .. n -> K] /\ \A k \in 1 .. n : Cardinality(Upto(f[k])) = k
  BY <1>9
<1>11. t = [k \in 1 .. n |-> s[f[k]]]
  BY DEF Keeping, n, Upto
<1> HIDE DEF f, t
<1>12. \A k \in 1 .. n : s[f[k]] \in S
  BY <1>10
<1>13. t \in Seq(S) /\ Len(t) = n /\ DOMAIN t = 1 .. n
  BY <1>3, <1>11, <1>12
<1>14. \A i, j \in 1 .. n : i < j => f[i] < f[j]
  <2> SUFFICES ASSUME NEW i \in 1 .. n, NEW j \in 1 .. n, i < j PROVE f[i] < f[j]
    OBVIOUS
  <2>1. f[i] \in K /\ f[j] \in K /\ f[i] \in Nat /\ f[j] \in Nat
    BY <1>1, <1>10
  <2>2. Cardinality(Upto(f[i])) = i /\ Cardinality(Upto(f[j])) = j
    BY <1>10
  <2>3. f[i] # f[j] /\ ~(f[j] < f[i])
    BY <1>3, <1>5, <2>1, <2>2
  <2> QED
    BY <2>1, <2>3
<1>15. \A k \in K : \E i \in 1 .. n : f[i] = k
  <2> SUFFICES ASSUME NEW k \in K PROVE \E i \in 1 .. n : f[i] = k
    OBVIOUS
  <2> DEFINE i == Cardinality(Upto(k))
  <2>1. i \in 1 .. n
    BY <1>4
  <2>2. f[i] \in K /\ Cardinality(Upto(f[i])) = i
    BY <1>10, <2>1
  <2>3. ~(f[i] < k) /\ ~(k < f[i])
    BY <1>3, <1>5, <2>1, <2>2
  <2>4. f[i] = k
    BY <1>1, <2>2, <2>3
  <2> QED
    BY <2>1, <2>4
<1>16. \A i \in 1 .. n : t[i] = s[f[i]]
  BY <1>11
<1>17. t \in Seq(S) /\ Len(t) <= Len(s)
  BY <1>3, <1>13
<1>18. f \in [DOMAIN t -> K]
  BY <1>10, <1>13
<1>19. Places(s, K, t, f)
  BY <1>13, <1>14, <1>15, <1>16, <1>18 DEF Places
<1> QED
  BY <1>17, <1>19 DEF t


-----------------------------------------------------------------------------
(* The link of the pane *)

\* A message is an answer or an event.
LEMMA MessageParts ==
    ASSUME NEW m \in Messages
    PROVE  /\ "event" \in DOMAIN m <=> m \in Broadcasts \cup Reselections
           /\ "req" \in DOMAIN m <=> m \in PaneAnswers
           /\ m \in Broadcasts => m.event \in EventNames
           /\ m \in Reselections => m.event = "Reselect" /\ m.id \in Names
           /\ m \in PaneAnswers => m.req \in PaneRequests
           /\ m \notin Broadcasts \/ m \notin Reselections
           /\ m \in PaneAnswers => m \notin Broadcasts /\ m \notin Reselections
<1>1. ASSUME m \in Broadcasts PROVE "event" \in DOMAIN m /\ "req" \notin DOMAIN m /\ m.event \in EventNames
                                    /\ "id" \notin DOMAIN m
  BY <1>1 DEF Broadcasts
<1>2. ASSUME m \in Reselections PROVE "event" \in DOMAIN m /\ "req" \notin DOMAIN m /\ m.event = "Reselect" /\ m.id \in Names
                                      /\ "id" \in DOMAIN m
  BY <1>2 DEF Reselections
<1>3. ASSUME m \in PaneAnswers PROVE "event" \notin DOMAIN m /\ "req" \in DOMAIN m /\ m.req \in PaneRequests
  BY <1>3 DEF PaneAnswers
<1> QED
  BY <1>1, <1>2, <1>3 DEF Messages

\* The parts of a link, element by element.
LEMMA LinkParts ==
    ASSUME NEW q \in Links
    PROVE  /\ q.waiting \in Seq(PaneRequests) /\ q.reply \in Seq(PaneAnswers) /\ q.inbox \in Seq(Messages)
           /\ Len(q.reply) <= 1 /\ DOMAIN q.reply \subseteq {1}
           /\ \A i \in DOMAIN q.waiting : q.waiting[i] \in PaneRequests
           /\ \A i \in DOMAIN q.reply : q.reply[i] \in PaneAnswers
           /\ \A i \in DOMAIN q.inbox : q.inbox[i] \in Messages /\ i \in Nat \ {0}
<1>1. q.waiting \in Seq(PaneRequests) /\ q.reply \in Seq(PaneAnswers) /\ q.inbox \in Seq(Messages)
      /\ Len(q.reply) <= 1
  BY DEF Links
<1> HIDE DEF Links, PaneRequests, PaneAnswers, Messages
<1> QED
  BY <1>1

\* What is in order stays in order when only requests are added.
LEMMA Enqueued ==
    ASSUME NEW q \in Links, NEW s \in Seq(PaneRequests), NEW a, NEW ev, NEW p
    PROVE  LET r == Enqueue(q, s)
           IN  /\ r \in Links /\ r.inbox = q.inbox /\ r.reply = q.reply
               /\ \A i \in DOMAIN s : \E j \in DOMAIN r.waiting : r.waiting[j] = s[i]
               /\ PaneOK(a, ev, q, p) => PaneOK(a, ev, r, p)
<1> DEFINE r == Enqueue(q, s)
           w == q.waiting \o s
<1>1. q.waiting \in Seq(PaneRequests)
  BY LinkParts
<1> HIDE DEF PaneRequests, PaneAnswers, Messages
<1>2. /\ w \in Seq(PaneRequests)
      /\ \A i \in DOMAIN q.waiting : i \in DOMAIN w /\ w[i] = q.waiting[i]
      /\ \A i \in DOMAIN s : Len(q.waiting) + i \in DOMAIN w /\ w[Len(q.waiting) + i] = s[i]
  BY <1>1
<1> HIDE DEF w
<1>3. r \in Links /\ r.waiting = w /\ r.inbox = q.inbox /\ r.reply = q.reply
  BY <1>2 DEF Enqueue, Links, w
<1> HIDE DEF r
<1>4. \A i : Coming(q, i) => Coming(r, i)
  BY <1>2, <1>3 DEF Coming
<1>5. PaneOK(a, ev, q, p) => PaneOK(a, ev, r, p)
  BY <1>3, <1>4 DEF PaneOK, Ordered, Opening, Renewal, Follows, Exacts, Reselects, Shows
<1>6. \A i \in DOMAIN s : \E j \in DOMAIN r.waiting : r.waiting[j] = s[i]
  BY <1>2, <1>3
<1> QED
  BY <1>3, <1>5, <1>6 DEF r

\* The list requests and answers of an earlier search are left out, the events stay in order.
LEMMA Searched ==
    ASSUME NEW q \in Links, NEW ev
    PROVE  LET r == NewSearch(q)
           IN  /\ r \in Links
               /\ Ordered(ev, q) => Ordered(ev, r)
               /\ Opening(ev, q) => Opening(ev, r)
               /\ \A i \in DOMAIN r.inbox : ~Listed(r.inbox[i])
               /\ \A i \in DOMAIN r.reply : ~Listed(r.reply[i])
<1> DEFINE r == NewSearch(q)
           List(m) == "req" \in DOMAIN m /\ m.req.kind = "List"
           KI == {i \in DOMAIN q.inbox : ~List(q.inbox[i])}
           KR == {i \in DOMAIN q.reply : ~List(q.reply[i])}
           KW == {i \in DOMAIN q.waiting : q.waiting[i].kind # "List"}
<1>1. r = [waiting |-> Keeping(q.waiting, KW), reply |-> Keeping(q.reply, KR),
           inbox |-> Keeping(q.inbox, KI)]
  BY DEF NewSearch
<1>2. /\ q.waiting \in Seq(PaneRequests) /\ q.reply \in Seq(PaneAnswers) /\ q.inbox \in Seq(Messages)
      /\ Len(q.reply) <= 1 /\ Len(q.reply) \in Nat
      /\ \A i \in DOMAIN q.reply : q.reply[i] \in PaneAnswers
      /\ \A i \in DOMAIN q.inbox : q.inbox[i] \in Messages /\ i \in Nat \ {0}
  BY LinkParts
<1>3. KI \in SUBSET DOMAIN q.inbox /\ KR \in SUBSET DOMAIN q.reply /\ KW \in SUBSET DOMAIN q.waiting
  OBVIOUS
<1>4. r.waiting = Keeping(q.waiting, KW) /\ r.reply = Keeping(q.reply, KR) /\ r.inbox = Keeping(q.inbox, KI)
  BY <1>1
<1>5. \A m \in PaneAnswers : List(m) <=> Listed(m)
  BY MessageParts DEF Listed, Messages
<1>6. \A m \in Messages : (Listed(m) <=> List(m)) /\ \A e : Says(m, e) => ~List(m)
  BY <1>5, MessageParts DEF Listed, Says
<1> HIDE DEF KI, KR, KW, List, PaneRequests, PaneAnswers, Messages
<1>7. r.waiting \in Seq(PaneRequests) /\ r.reply \in Seq(PaneAnswers) /\ Len(r.reply) <= Len(q.reply)
      /\ r.inbox \in Seq(Messages)
  BY <1>2, <1>3, <1>4, KeepingProps
<1>8. r \in Links
  <2>1. Len(r.reply) <= 1
    BY <1>2, <1>7
  <2> QED
    BY <1>1, <1>4, <1>7, <2>1 DEF Links
<1>9. PICK f : Places(q.inbox, KI, r.inbox, f)
  BY <1>2, <1>3, <1>4, KeepingProps
<1>10. PICK g : Places(q.reply, KR, r.reply, g)
  BY <1>2, <1>3, <1>4, KeepingProps
<1> HIDE DEF r
<1>11. /\ \A i \in DOMAIN r.inbox : f[i] \in KI /\ r.inbox[i] = q.inbox[f[i]]
       /\ \A i \in DOMAIN r.reply : g[i] \in KR /\ r.reply[i] = q.reply[g[i]]
  BY <1>9, <1>10 DEF Places
<1>12. \A i \in DOMAIN r.inbox : ~Listed(r.inbox[i])
  BY <1>2, <1>6, <1>11 DEF KI
<1>13. \A i \in DOMAIN r.reply : ~Listed(r.reply[i])
  BY <1>2, <1>5, <1>11 DEF KR
<1>14. ASSUME NEW k \in DOMAIN q.inbox, NEW e, Says(q.inbox[k], e)
       PROVE  \E i \in DOMAIN r.inbox : f[i] = k /\ Says(r.inbox[i], e)
  <2>1. k \in KI
    BY <1>2, <1>6, <1>14 DEF KI
  <2> QED
    BY <1>9, <1>14, <2>1 DEF Places
<1>15. Opening(ev, q) => Opening(ev, r)
  BY <1>14 DEF Opening
<1>16. ASSUME Ordered(ev, q) PROVE Ordered(ev, r)
  <2>1. ASSUME NEW i \in DOMAIN r.inbox, Says(r.inbox[i], "Locked"),
               ~\E j \in DOMAIN ev : ev[j] = "Unlocked"
        PROVE  \E j \in DOMAIN r.inbox : i < j /\ Says(r.inbox[j], "Unlocked")
    <3>1. f[i] \in DOMAIN q.inbox /\ Says(q.inbox[f[i]], "Locked")
      BY <1>11, <2>1 DEF KI
    <3>2. PICK k \in DOMAIN q.inbox : f[i] < k /\ Says(q.inbox[k], "Unlocked")
      BY <1>16, <2>1, <3>1 DEF Ordered
    <3>3. PICK j \in DOMAIN r.inbox : f[j] = k /\ Says(r.inbox[j], "Unlocked")
      BY <1>14, <3>2
    <3>4. i \in Nat /\ j \in Nat /\ f[i] \in Nat /\ f[j] \in Nat
      BY <1>2, <1>7, <3>1, <3>3
    <3>5. j < i => f[j] < f[i]
      BY <1>9 DEF Places
    <3>6. i < j
      BY <3>2, <3>3, <3>4, <3>5
    <3> QED
      BY <3>3, <3>6
  <2> QED
    BY <1>16, <2>1 DEF Ordered
<1> QED
  BY <1>8, <1>12, <1>13, <1>15, <1>16 DEF r

\* A refresh has the list fetched once more, whatever the window has by now.
LEMMA Refreshed ==
    ASSUME NEW q \in Links, NEW ev
    PROVE  LET r == Refresh(q)
           IN  /\ r \in Links
               /\ Ordered(ev, q) => Ordered(ev, r)
               /\ Opening(ev, q) => Opening(ev, r)
               /\ \A i \in DOMAIN r.inbox : ~Listed(r.inbox[i])
               /\ \A i \in DOMAIN r.reply : ~Listed(r.reply[i])
               /\ \E j \in DOMAIN r.waiting : r.waiting[j].kind = "List"
<1> DEFINE n == NewSearch(q)
           s == <<FetchList>>
           r == Enqueue(n, s)
<1>1. FetchList \in PaneRequests /\ FetchList.kind = "List"
  BY DEF FetchList, Request, PaneRequests, Names, Fields
<1>2. s \in Seq(PaneRequests) /\ 1 \in DOMAIN s /\ s[1].kind = "List"
  <2> HIDE DEF FetchList, PaneRequests
  <2> QED
    BY <1>1
<1>3. /\ n \in Links
      /\ Ordered(ev, q) => Ordered(ev, n)
      /\ Opening(ev, q) => Opening(ev, n)
      /\ \A i \in DOMAIN n.inbox : ~Listed(n.inbox[i])
      /\ \A i \in DOMAIN n.reply : ~Listed(n.reply[i])
  BY Searched
<1>4. Refresh(q) = r
  BY DEF Refresh
<1> HIDE DEF n, s
<1>5. /\ r \in Links /\ r.inbox = n.inbox /\ r.reply = n.reply
      /\ \A i \in DOMAIN s : \E j \in DOMAIN r.waiting : r.waiting[j] = s[i]
  BY <1>2, <1>3, Enqueued
<1> HIDE DEF r
<1>6. \E j \in DOMAIN r.waiting : r.waiting[j].kind = "List"
  BY <1>2, <1>5
<1>7. (Ordered(ev, n) => Ordered(ev, r)) /\ (Opening(ev, n) => Opening(ev, r))
  BY <1>5 DEF Ordered, Opening
<1> QED
  BY <1>3, <1>4, <1>5, <1>6, <1>7

\* Where the list is still to be fetched, nothing else has to be right.
LEMMA Refetching ==
    ASSUME NEW q, NEW a, NEW ev, NEW p, ~a.locked => Ordered(ev, q) /\ (p.view = "Vault" \/ Opening(ev, q)),
           \A i \in DOMAIN q.inbox : ~Listed(q.inbox[i]),
           \A i \in DOMAIN q.reply : ~Listed(q.reply[i]),
           \E j \in DOMAIN q.waiting : q.waiting[j].kind = "List"
    PROVE  PaneOK(a, ev, q, p)
<1>1. \A i : Coming(q, i)
  BY DEF Coming
<1>2. Exacts(a, q)
  BY DEF Exacts, Exact
<1>3. Reselects(a, q) /\ Shows(a, q, p)
  BY <1>1 DEF Reselects, Shows
<1> QED
  BY <1>2, <1>3 DEF PaneOK, Follows

\* A message at the end of the inbox.
LEMMA Posted ==
    ASSUME NEW q \in Links, NEW m \in Messages
    PROVE  LET r == PostMessage(q, m)
           IN  /\ r \in Links /\ r.waiting = q.waiting /\ r.reply = q.reply
               /\ \A i \in DOMAIN q.inbox : i \in DOMAIN r.inbox /\ r.inbox[i] = q.inbox[i]
               /\ \A i \in DOMAIN r.inbox :
                      (i \in DOMAIN q.inbox /\ r.inbox[i] = q.inbox[i])
                      \/ (r.inbox[i] = m /\ i \notin DOMAIN q.inbox)
               /\ \E n \in DOMAIN r.inbox : r.inbox[n] = m /\ n > 0 /\ \A i \in DOMAIN q.inbox : i < n
<1> DEFINE r == PostMessage(q, m)
           t == Append(q.inbox, m)
           n == Len(q.inbox) + 1
<1>1. q.inbox \in Seq(Messages)
  BY LinkParts
<1> HIDE DEF Messages, PaneRequests, PaneAnswers
<1>2. /\ t \in Seq(Messages) /\ n \in DOMAIN t /\ t[n] = m /\ n > 0
      /\ \A i \in DOMAIN q.inbox : i \in DOMAIN t /\ t[i] = q.inbox[i] /\ i < n
      /\ \A i \in DOMAIN t : (i = n /\ i \notin DOMAIN q.inbox) \/ (i \in DOMAIN q.inbox /\ t[i] = q.inbox[i])
  BY <1>1
<1> HIDE DEF t, n
<1>3. r \in Links /\ r.waiting = q.waiting /\ r.inbox = t /\ r.reply = q.reply
  BY <1>2 DEF PostMessage, Links, t
<1> HIDE DEF r
<1>4. \A i \in DOMAIN r.inbox :
          (i \in DOMAIN q.inbox /\ r.inbox[i] = q.inbox[i]) \/ (r.inbox[i] = m /\ i \notin DOMAIN q.inbox)
  BY <1>2, <1>3
<1>5. \A i \in DOMAIN q.inbox : i \in DOMAIN r.inbox /\ r.inbox[i] = q.inbox[i]
  BY <1>2, <1>3
<1>6. \E k \in DOMAIN r.inbox : r.inbox[k] = m /\ k > 0 /\ \A i \in DOMAIN q.inbox : i < k
  BY <1>2, <1>3
<1> QED
  BY <1>3, <1>4, <1>5, <1>6 DEF r

\* The answer on the connection goes to the end of the inbox.
LEMMA DeliveredOK ==
    ASSUME NEW q \in Links, q.reply # <<>>, NEW a, NEW ev, NEW p
    PROVE  LET r == Delivered(q)
           IN  r \in Links /\ (PaneOK(a, ev, q, p) => PaneOK(a, ev, r, p))
<1> DEFINE r == Delivered(q)
           m == q.reply[1]
           t == PostMessage(q, m)
<1>1. q.reply \in Seq(PaneAnswers) /\ Len(q.reply) <= 1 /\ q.inbox \in Seq(Messages)
  BY LinkParts
<1>2. q.reply = <<m>> /\ m \in PaneAnswers /\ DOMAIN q.reply = {1}
  <2> HIDE DEF PaneAnswers
  <2> QED
    BY <1>1
<1>3. m \in Messages
  BY <1>2 DEF Messages
<1>4. /\ t \in Links /\ t.waiting = q.waiting /\ t.reply = q.reply
      /\ \A i \in DOMAIN q.inbox : i \in DOMAIN t.inbox /\ t.inbox[i] = q.inbox[i]
      /\ \A i \in DOMAIN t.inbox :
             (i \in DOMAIN q.inbox /\ t.inbox[i] = q.inbox[i]) \/ (t.inbox[i] = m /\ i \notin DOMAIN q.inbox)
      /\ \E n \in DOMAIN t.inbox : t.inbox[n] = m /\ n > 0 /\ \A i \in DOMAIN q.inbox : i < n
  BY <1>3, Posted
<1>5. r.waiting = q.waiting /\ r.reply = <<>> /\ r.inbox = q.inbox \o q.reply /\ t.inbox = Append(q.inbox, m)
  <2> HIDE DEF PaneRequests, PaneAnswers, Messages, m
  <2> QED
    BY DEF Delivered, PostMessage, Links
<1>6. r.inbox = t.inbox
  <2> HIDE DEF m, r, t, Messages, PaneAnswers
  <2>1. q.inbox \o <<m>> = Append(q.inbox, m)
    BY <1>1, <1>3
  <2> QED
    BY <1>2, <1>5, <2>1
<1>7. r \in Links
  <2>1. t.waiting \in Seq(PaneRequests) /\ t.inbox \in Seq(Messages)
    <3> HIDE DEF t
    <3> QED
      BY <1>4, LinkParts
  <2>2. <<>> \in Seq(PaneAnswers) /\ Len(<<>>) <= 1
    OBVIOUS
  <2>3. r.waiting \in Seq(PaneRequests) /\ r.inbox \in Seq(Messages) /\ r.reply = <<>>
    BY <1>4, <1>5, <1>6, <2>1
  <2>4. r \in [waiting : Seq(PaneRequests), reply : Seq(PaneAnswers), inbox : Seq(Messages)]
    <3>1. r = [q EXCEPT !.reply = <<>>, !.inbox = r.inbox]
      BY <1>5 DEF Delivered
    <3> HIDE DEF r, PaneRequests, PaneAnswers, Messages
    <3> QED
      BY <2>2, <2>3, <3>1 DEF Links
  <2> HIDE DEF r, t, PaneRequests, PaneAnswers, Messages
  <2> QED
    BY <2>2, <2>3, <2>4 DEF Links
<1> HIDE DEF m, r, t
<1>8. DOMAIN r.reply = {}
  BY <1>5
<1>9. m \notin Broadcasts /\ m \notin Reselections
  BY <1>2, <1>3, MessageParts
<1>10. ASSUME PaneOK(a, ev, q, p), ~a.locked PROVE PaneOK(a, ev, r, p)
  <2>1. Ordered(ev, q) /\ (p.view = "Vault" \/ Opening(ev, q)) /\ (Renewal(ev, q) \/ Follows(a, q, p))
    BY <1>10 DEF PaneOK
  <2>2. Ordered(ev, r)
    BY <1>4, <1>6, <1>9, <2>1 DEF Ordered, Says
  <2>3. Opening(ev, q) => Opening(ev, r)
    BY <1>4, <1>6 DEF Opening
  <2>4. Renewal(ev, q) => Renewal(ev, r)
    BY <1>2, <1>4, <1>6 DEF Renewal, Renews
  <2>5. \A i : i = 0 \/ i \in DOMAIN q.inbox => (Coming(q, i) => Coming(r, i))
    BY <1>2, <1>4, <1>5, <1>6 DEF Coming
  <2>6. ASSUME Follows(a, q, p) PROVE Follows(a, r, p)
    <3>1. Exacts(a, r)
      BY <1>2, <1>4, <1>6, <1>8, <2>6 DEF Follows, Exacts
    <3>2. Reselects(a, r)
      BY <1>4, <1>6, <1>9, <2>5, <2>6 DEF Follows, Reselects
    <3>3. Shows(a, r, p)
      BY <2>5, <2>6 DEF Follows, Shows
    <3> QED
      BY <3>1, <3>2, <3>3 DEF Follows
  <2> QED
    BY <2>1, <2>2, <2>3, <2>4, <2>6 DEF PaneOK
<1>11. PaneOK(a, ev, q, p) => PaneOK(a, ev, r, p)
  <2>1. a.locked => PaneOK(a, ev, r, p)
    BY DEF PaneOK
  <2> QED
    BY <1>10, <2>1
<1> QED
  BY <1>7, <1>11 DEF r

\* The first event of the stream goes to the end of the inbox.
LEMMA EventPostedOK ==
    ASSUME NEW q \in Links, NEW ev \in Seq(EventNames), ev # <<>>, NEW a, NEW p
    PROVE  LET r == PostMessage(q, [event |-> Head(ev)])
           IN  /\ r \in Links /\ Tail(ev) \in Seq(EventNames)
               /\ PaneOK(a, ev, q, p) => PaneOK(a, Tail(ev), r, p)
<1> DEFINE m == [event |-> Head(ev)]
           r == PostMessage(q, m)
           t == Tail(ev)
<1>1. /\ Head(ev) \in EventNames /\ 1 \in DOMAIN ev /\ ev[1] = Head(ev) /\ t \in Seq(EventNames)
      /\ \A i \in DOMAIN t : i \in Nat /\ i + 1 \in DOMAIN ev /\ t[i] = ev[i + 1]
      /\ \A i \in DOMAIN ev : i \in Nat /\ (i = 1 \/ (i - 1 \in DOMAIN t /\ t[i - 1] = ev[i]))
  <2> HIDE DEF EventNames
  <2> QED
    OBVIOUS
<1>2. m \in Broadcasts /\ m.event = ev[1]
  BY <1>1 DEF Broadcasts
<1> HIDE DEF m, t
<1>3. m \in Messages /\ m \notin Reselections /\ m \notin PaneAnswers
  <2>1. m \in Messages
    BY <1>2 DEF Messages
  <2> QED
    BY <1>2, <2>1, MessageParts
<1>4. /\ r \in Links /\ r.waiting = q.waiting /\ r.reply = q.reply
      /\ \A i \in DOMAIN q.inbox : i \in DOMAIN r.inbox /\ r.inbox[i] = q.inbox[i]
      /\ \A i \in DOMAIN r.inbox :
             (i \in DOMAIN q.inbox /\ r.inbox[i] = q.inbox[i]) \/ (r.inbox[i] = m /\ i \notin DOMAIN q.inbox)
      /\ \E n \in DOMAIN r.inbox : r.inbox[n] = m /\ n > 0 /\ \A i \in DOMAIN q.inbox : i < n
  BY <1>3, Posted
<1> HIDE DEF r
<1>5. \A e : ev[1] = e <=> Says(m, e)
  BY <1>2 DEF Says
<1>6. ASSUME NEW e PROVE (\E j \in DOMAIN ev : ev[j] = e)
                            => (\E j \in DOMAIN t : t[j] = e) \/ Says(m, e)
  BY <1>1, <1>5
<1>7. ASSUME PaneOK(a, ev, q, p), ~a.locked PROVE PaneOK(a, t, r, p)
  <2>1. Ordered(ev, q) /\ (p.view = "Vault" \/ Opening(ev, q)) /\ (Renewal(ev, q) \/ Follows(a, q, p))
    BY <1>7 DEF PaneOK
  <2>2. PICK n \in DOMAIN r.inbox : r.inbox[n] = m /\ n > 0 /\ \A i \in DOMAIN q.inbox : i < n
    BY <1>4
  <2>3. Opening(ev, q) => Opening(t, r)
    <3>1. (\E j \in DOMAIN ev : ev[j] = "Unlocked") => Opening(t, r)
      BY <1>6, <2>2 DEF Opening
    <3>2. (\E j \in DOMAIN q.inbox : Says(q.inbox[j], "Unlocked")) => Opening(t, r)
      BY <1>4 DEF Opening
    <3> QED
      BY <3>1, <3>2 DEF Opening
  <2>4. Renewal(ev, q) => Renewal(t, r)
    <3>1. (\E j \in DOMAIN ev : ev[j] \in {"Unlocked", "VaultChanged"}) => Renewal(t, r)
      <4>1. ASSUME NEW e \in {"Unlocked", "VaultChanged"}, \E j \in DOMAIN ev : ev[j] = e
            PROVE  Renewal(t, r)
        <5>1. CASE \E j \in DOMAIN t : t[j] = e
          BY <5>1 DEF Renewal
        <5>2. CASE Says(m, e)
          BY <2>2, <5>2 DEF Renewal, Renews
        <5> QED
          BY <1>6, <4>1, <5>1, <5>2
      <4> QED
        BY <4>1
    <3>2. (\E j \in DOMAIN q.inbox : Renews(q.inbox[j])) => Renewal(t, r)
      BY <1>4 DEF Renewal
    <3>3. (\E j \in DOMAIN q.reply : Deleted(q.reply[j])) => Renewal(t, r)
      BY <1>4 DEF Renewal
    <3> QED
      BY <3>1, <3>2, <3>3 DEF Renewal
  <2>5. Ordered(t, r)
    <3>1. ASSUME NEW i \in DOMAIN t, t[i] = "Locked"
          PROVE  \E j \in DOMAIN t : i < j /\ t[j] = "Unlocked"
      <4>1. i + 1 \in DOMAIN ev /\ ev[i + 1] = "Locked" /\ i \in Nat
        BY <1>1, <3>1
      <4>2. PICK j \in DOMAIN ev : i + 1 < j /\ ev[j] = "Unlocked"
        BY <2>1, <4>1 DEF Ordered
      <4>3. j \in Nat /\ j # 1 /\ i < j - 1 /\ j - 1 \in DOMAIN t /\ t[j - 1] = "Unlocked"
        BY <1>1, <4>1, <4>2
      <4> QED
        BY <4>3
    <3>2. ASSUME NEW i \in DOMAIN r.inbox, Says(r.inbox[i], "Locked")
          PROVE  \/ \E j \in DOMAIN r.inbox : i < j /\ Says(r.inbox[j], "Unlocked")
                 \/ \E j \in DOMAIN t : t[j] = "Unlocked"
      <4>1. CASE i \in DOMAIN q.inbox /\ r.inbox[i] = q.inbox[i]
        <5>1. \/ \E j \in DOMAIN q.inbox : i < j /\ Says(q.inbox[j], "Unlocked")
              \/ \E j \in DOMAIN ev : ev[j] = "Unlocked"
          BY <2>1, <3>2, <4>1 DEF Ordered
        <5>2. CASE \E j \in DOMAIN q.inbox : i < j /\ Says(q.inbox[j], "Unlocked")
          BY <1>4, <5>2
        <5>3. CASE \E j \in DOMAIN ev : ev[j] = "Unlocked"
          BY <1>6, <2>2, <4>1, <5>3
        <5> QED
          BY <5>1, <5>2, <5>3
      <4>2. CASE r.inbox[i] = m
        <5>1. ev[1] = "Locked"
          BY <1>5, <3>2, <4>2
        <5>2. PICK j \in DOMAIN ev : 1 < j /\ ev[j] = "Unlocked"
          BY <1>1, <2>1, <5>1 DEF Ordered
        <5>3. j - 1 \in DOMAIN t /\ t[j - 1] = "Unlocked"
          BY <1>1, <5>2
        <5> QED
          BY <5>3
      <4> QED
        BY <1>4, <4>1, <4>2
    <3> QED
      BY <3>1, <3>2 DEF Ordered
  <2>6. \A i : Coming(q, i) => Coming(r, i)
    BY <1>4 DEF Coming
  <2>7. ASSUME Follows(a, q, p) PROVE Follows(a, r, p)
    <3>1. Exacts(a, r)
      BY <1>3, <1>4, <2>7 DEF Follows, Exacts, Exact, Listed
    <3>2. Reselects(a, r)
      BY <1>3, <1>4, <2>6, <2>7 DEF Follows, Reselects
    <3>3. Shows(a, r, p)
      BY <2>6, <2>7 DEF Follows, Shows
    <3> QED
      BY <3>1, <3>2, <3>3 DEF Follows
  <2> QED
    BY <2>1, <2>3, <2>4, <2>5, <2>7 DEF PaneOK
<1>8. PaneOK(a, ev, q, p) => PaneOK(a, t, r, p)
  <2>1. a.locked => PaneOK(a, t, r, p)
    BY DEF PaneOK
  <2> QED
    BY <1>7, <2>1
<1> QED
  BY <1>1, <1>4, <1>8 DEF r, m, t

\* What the first message of the inbox leaves behind when it is taken.
Left(a, ev, r, p, m) ==
    /\ Ordered(ev, r)
    /\ Says(m, "Locked") => Opening(ev, r)
    /\ Says(m, "Unlocked") \/ p.view = "Vault" \/ Opening(ev, r)
    /\ \/ Renews(m) \/ Renewal(ev, r)
       \/ /\ Exacts(a, r) /\ Reselects(a, r) /\ Exact(a, m) /\ (Listed(m) \/ Shows(a, r, p))
          /\ m \in Reselections => Coming(r, 0) \/ Known(a, m.id)
LEMMA TakenLeaves ==
    ASSUME NEW q \in Links, q.inbox # <<>>, NEW a, NEW ev, NEW p
    PROVE  LET r == Taken(q)
               m == Head(q.inbox)
           IN  /\ r \in Links /\ m \in Messages
               /\ PaneOK(a, ev, q, p) /\ ~a.locked => Left(a, ev, r, p, m)
<1> DEFINE r == Taken(q)
           m == Head(q.inbox)
           t == Tail(q.inbox)
<1>1. q.inbox \in Seq(Messages)
  BY LinkParts
<1> HIDE DEF PaneRequests, PaneAnswers, Messages
<1>2. /\ m \in Messages /\ 1 \in DOMAIN q.inbox /\ q.inbox[1] = m /\ t \in Seq(Messages)
      /\ \A i \in DOMAIN t : i \in Nat /\ i > 0 /\ i + 1 \in DOMAIN q.inbox /\ t[i] = q.inbox[i + 1]
      /\ \A i \in DOMAIN q.inbox : i \in Nat /\ (i = 1 \/ (i - 1 \in DOMAIN t /\ t[i - 1] = q.inbox[i]))
  BY <1>1
<1> HIDE DEF t, m
<1>3. r \in Links /\ r.waiting = q.waiting /\ r.inbox = t /\ r.reply = q.reply
  BY <1>2 DEF Taken, Links, t
<1> HIDE DEF r
<1>4. ASSUME PaneOK(a, ev, q, p), ~a.locked PROVE Left(a, ev, r, p, m)
  <2>1. Ordered(ev, q) /\ (p.view = "Vault" \/ Opening(ev, q)) /\ (Renewal(ev, q) \/ Follows(a, q, p))
    BY <1>4 DEF PaneOK
  <2>2. Ordered(ev, r)
    <3>1. ASSUME NEW i \in DOMAIN t, Says(t[i], "Locked"), ~\E j \in DOMAIN ev : ev[j] = "Unlocked"
          PROVE  \E j \in DOMAIN t : i < j /\ Says(t[j], "Unlocked")
      <4>1. i \in Nat /\ i + 1 \in DOMAIN q.inbox /\ Says(q.inbox[i + 1], "Locked")
        BY <1>2, <3>1
      <4>2. PICK j \in DOMAIN q.inbox : i + 1 < j /\ Says(q.inbox[j], "Unlocked")
        BY <2>1, <3>1, <4>1 DEF Ordered
      <4>3. i < j - 1 /\ j - 1 \in DOMAIN t /\ Says(t[j - 1], "Unlocked")
        BY <1>2, <4>1, <4>2
      <4> QED
        BY <4>3
    <3> QED
      BY <1>3, <2>1, <3>1 DEF Ordered
  <2>3. Says(m, "Locked") => Opening(ev, r)
    <3>1. ASSUME Says(m, "Locked"), ~\E j \in DOMAIN ev : ev[j] = "Unlocked"
          PROVE  \E j \in DOMAIN t : Says(t[j], "Unlocked")
      <4>1. PICK j \in DOMAIN q.inbox : 1 < j /\ Says(q.inbox[j], "Unlocked")
        BY <1>2, <2>1, <3>1 DEF Ordered
      <4>2. j - 1 \in DOMAIN t /\ Says(t[j - 1], "Unlocked")
        BY <1>2, <4>1
      <4> QED
        BY <4>2
    <3> QED
      BY <1>3, <3>1 DEF Opening
  <2>4. Says(m, "Unlocked") \/ p.view = "Vault" \/ Opening(ev, r)
    BY <1>2, <1>3, <2>1 DEF Opening
  <2>5. Renewal(ev, q) => Renews(m) \/ Renewal(ev, r)
    BY <1>2, <1>3 DEF Renewal
  <2>6. ASSUME NEW i \in Nat, Coming(q, i + 1) PROVE Coming(r, i)
    <3>1. ASSUME NEW j \in DOMAIN q.inbox, i + 1 < j, Listed(q.inbox[j])
          PROVE  \E k \in DOMAIN t : i < k /\ Listed(t[k])
      <4>1. j \in Nat /\ j # 1 /\ i < j - 1 /\ j - 1 \in DOMAIN t /\ Listed(t[j - 1])
        BY <1>2, <3>1
      <4> QED
        BY <4>1
    <3> QED
      BY <1>3, <2>6, <3>1 DEF Coming
  <2>7. ASSUME Coming(q, 0) PROVE Listed(m) \/ Coming(r, 0)
    <3>1. ASSUME NEW j \in DOMAIN q.inbox, Listed(q.inbox[j])
          PROVE  Listed(m) \/ \E k \in DOMAIN t : 0 < k /\ Listed(t[k])
      <4>1. j = 1 \/ (j - 1 \in DOMAIN t /\ t[j - 1] = q.inbox[j] /\ 0 < j - 1)
        BY <1>2
      <4> QED
        BY <1>2, <3>1, <4>1
    <3> QED
      BY <1>3, <2>7, <3>1 DEF Coming
  <2>8. ASSUME Follows(a, q, p)
        PROVE  /\ Exacts(a, r) /\ Reselects(a, r) /\ Exact(a, m) /\ (Listed(m) \/ Shows(a, r, p))
               /\ m \in Reselections => Coming(r, 0) \/ Known(a, m.id)
    <3>1. Exacts(a, r) /\ Exact(a, m)
      BY <1>2, <1>3, <2>8 DEF Follows, Exacts
    <3>2. Reselects(a, r)
      <4>1. ASSUME NEW i \in DOMAIN t, t[i] \in Reselections PROVE Coming(r, i) \/ Known(a, t[i].id)
        <5>1. i \in Nat /\ i + 1 \in DOMAIN q.inbox /\ t[i] = q.inbox[i + 1]
          BY <1>2
        <5>2. Coming(q, i + 1) \/ Known(a, t[i].id)
          BY <2>8, <4>1, <5>1 DEF Follows, Reselects
        <5> QED
          BY <2>6, <5>1, <5>2
      <4> QED
        BY <1>3, <4>1 DEF Reselects
    <3>3. Listed(m) \/ Shows(a, r, p)
      BY <2>7, <2>8 DEF Follows, Shows
    <3>4. m \in Reselections => Coming(r, 0) \/ Known(a, m.id)
      <4>1. m \in Reselections => Coming(q, 0 + 1) \/ Known(a, m.id)
        BY <1>2, <2>8 DEF Follows, Reselects
      <4> QED
        BY <2>6, <4>1
    <3> QED
      BY <3>1, <3>2, <3>3, <3>4
  <2> QED
    BY <2>1, <2>2, <2>3, <2>4, <2>5, <2>8 DEF Left
<1> QED
  BY <1>2, <1>3, <1>4 DEF r, m

\* The agent answers the request at the head: a list as it is, or a deletion, which renews.
LEMMA AnsweredOK ==
    ASSUME NEW q \in Links, CanServe(q), NEW m \in PaneAnswers, m.req = Head(q.waiting),
           NEW a, NEW b, b.locked = a.locked,
           ~a.locked => /\ m.req.kind = "List" => m.code = "ok" /\ m.ids = a.ids
                        /\ b.ids = a.ids \/ Deleted(m),
           NEW ev, NEW p
    PROVE  LET r == Answered(q, m)
           IN  r \in Links /\ (PaneOK(a, ev, q, p) => PaneOK(b, ev, r, p))
<1> DEFINE r == Answered(q, m)
           t == Tail(q.waiting)
           e == <<m>>
<1>1. q.waiting \in Seq(PaneRequests) /\ q.waiting # <<>> /\ q.reply = <<>> /\ q.inbox \in Seq(Messages)
  BY LinkParts DEF CanServe
<1> HIDE DEF PaneRequests, PaneAnswers, Messages
<1>2. /\ t \in Seq(PaneRequests)
      /\ \A i \in DOMAIN q.waiting : (i = 1 /\ q.waiting[i] = m.req)
                                     \/ (i - 1 \in DOMAIN t /\ t[i - 1] = q.waiting[i])
      /\ e \in Seq(PaneAnswers) /\ Len(e) = 1 /\ DOMAIN e = {1} /\ e[1] = m
      /\ DOMAIN q.reply = {}
  BY <1>1
<1> HIDE DEF t, e
<1>3. r \in Links /\ r.waiting = t /\ r.inbox = q.inbox /\ r.reply = e
  <2>1. r = [q EXCEPT !.waiting = t, !.reply = e]
    BY DEF Answered, t, e
  <2> HIDE DEF r
  <2>2. q \in [waiting : Seq(PaneRequests), reply : Seq(PaneAnswers), inbox : Seq(Messages)]
    BY DEF Links
  <2>3. r \in [waiting : Seq(PaneRequests), reply : Seq(PaneAnswers), inbox : Seq(Messages)]
        /\ r.waiting = t /\ r.inbox = q.inbox /\ r.reply = e
    BY <1>2, <2>1, <2>2
  <2>4. Len(e) <= 1
    BY DEF e
  <2>5. Len(r.reply) <= 1
    BY <2>3, <2>4
  <2> QED
    BY <2>3, <2>5 DEF Links
<1> HIDE DEF r
<1>4. \A i : Coming(q, i) => Coming(r, i)
  <2>1. ASSUME NEW j \in DOMAIN q.waiting, q.waiting[j].kind = "List"
        PROVE  (\E k \in DOMAIN t : t[k].kind = "List") \/ Listed(m)
    BY <1>2, <2>1 DEF Listed
  <2> QED
    BY <1>2, <1>3, <2>1 DEF Coming
<1>5. ASSUME PaneOK(a, ev, q, p), ~a.locked PROVE PaneOK(b, ev, r, p)
  <2>1. Ordered(ev, q) /\ (p.view = "Vault" \/ Opening(ev, q)) /\ (Renewal(ev, q) \/ Follows(a, q, p))
    BY <1>5 DEF PaneOK
  <2>2. Ordered(ev, r) /\ (Opening(ev, q) => Opening(ev, r))
    BY <1>3, <2>1 DEF Ordered, Opening
  <2>3. Renewal(ev, q) \/ Deleted(m) => Renewal(ev, r)
    BY <1>2, <1>3 DEF Renewal
  <2>4. ASSUME b.ids = a.ids, Follows(a, q, p) PROVE Follows(b, r, p)
    <3>1. Exact(b, m)
      BY <1>5, <2>4 DEF Exact, Listed
    <3>2. Exacts(b, r)
      BY <1>2, <1>3, <2>4, <3>1 DEF Follows, Exacts, Exact
    <3>3. Reselects(b, r)
      BY <1>3, <1>4, <2>4 DEF Follows, Reselects, Known
    <3>4. Shows(b, r, p)
      BY <1>4, <2>4 DEF Follows, Shows, Known
    <3> QED
      BY <3>2, <3>3, <3>4 DEF Follows
  <2>5. Renewal(ev, r) \/ Follows(b, r, p)
    BY <1>5, <2>1, <2>3, <2>4
  <2> QED
    BY <2>1, <2>2, <2>5 DEF PaneOK
<1>6. PaneOK(a, ev, q, p) => PaneOK(b, ev, r, p)
  <2>1. a.locked => PaneOK(b, ev, r, p)
    BY DEF PaneOK
  <2> QED
    BY <1>5, <2>1
<1> QED
  BY <1>3, <1>6 DEF r

\* Nothing the pane does on its own disturbs what it lists: its view may open and its
\* selection may end.
LEMMA QuietPane ==
    ASSUME NEW a, NEW ev, NEW q, NEW p, NEW o, PaneOK(a, ev, q, p),
           o.view \in {p.view, "Vault"}, o.list = p.list, o.selected \in {p.selected, Nil}
    PROVE  PaneOK(a, ev, q, o)
<1>1. Follows(a, q, p) => Follows(a, q, o)
  BY DEF Follows, Shows, Known
<1> QED
  BY <1>1 DEF PaneOK

-----------------------------------------------------------------------------
(* The steps of the pane *)

LEMMA PaneInitOK == PaneInit => PaneInv
<1> SUFFICES ASSUME PaneInit PROVE PaneInv
  OBVIOUS
<1>1. agent \in PaneAgents /\ ~agent.locked /\ agent.ids = Entries
  BY DEF PaneInit, PaneAgents
<1>2. pane \in Panes /\ pane.view = "Vault" /\ pane.list = Entries /\ pane.selected = Nil
  BY DEF PaneInit, Panes, NoEntry, NoIntent, Names, Fields
<1>3. events = <<>> /\ link.waiting = <<>> /\ link.reply = <<>> /\ link.inbox = <<>> /\ ops = 0
  BY DEF PaneInit, NewLink
<1>4. link \in Links
  <2>1. link = [waiting |-> <<>>, reply |-> <<>>, inbox |-> <<>>]
    BY DEF PaneInit, NewLink
  <2>2. \A S : <<>> \in Seq(S) /\ Len(<<>>) <= 1
    OBVIOUS
  <2> HIDE DEF PaneRequests, PaneAnswers, Messages
  <2> QED
    BY <2>1, <2>2 DEF Links
<1>5. events \in Seq(EventNames) /\ ops \in Nat
  BY <1>3
<1>6. DOMAIN events = {} /\ DOMAIN link.waiting = {} /\ DOMAIN link.reply = {} /\ DOMAIN link.inbox = {}
  BY <1>3
<1>7. Ordered(events, link)
  BY <1>6 DEF Ordered
<1>8. Follows(agent, link, pane)
  BY <1>1, <1>2, <1>6 DEF Follows, Exacts, Reselects, Shows, Known
<1>9. PaneOK(agent, events, link, pane)
  BY <1>2, <1>7, <1>8 DEF PaneOK
<1> QED
  BY <1>1, <1>2, <1>4, <1>5, <1>9 DEF PaneInv

LEMMA ServePaneOK == PaneInv /\ Serve => PaneInv'
<1> SUFFICES ASSUME PaneInv, Serve PROVE PaneInv'
  OBVIOUS
<1> DEFINE h == Head(link.waiting)
<1>1. /\ agent \in PaneAgents /\ events \in Seq(EventNames) /\ link \in Links /\ pane \in Panes
      /\ ops \in Nat /\ PaneOK(agent, events, link, pane)
  BY DEF PaneInv
<1>2. CanServe(link) /\ UNCHANGED <<events, pane, ops>>
  BY DEF Serve
<1>3. PICK code \in {"ok", "err", "locked", "reprompt_required"}, ids \in SUBSET agent.ids :
         /\ IF agent.locked THEN code = "locked" /\ ids = agent.ids ELSE Handles(h, code, ids)
         /\ agent' = [agent EXCEPT !.ids = ids]
         /\ link' = Answered(link, [req |-> h, code |-> code, ids |-> ids])
  BY DEF Serve
<1> DEFINE m == [req |-> h, code |-> code, ids |-> ids]
<1>4. h \in PaneRequests
  <2>1. link.waiting \in Seq(PaneRequests) /\ link.waiting # <<>>
    BY <1>1, <1>2, LinkParts DEF CanServe
  <2> HIDE DEF PaneRequests
  <2> QED
    BY <2>1
<1>5. agent.ids \in SUBSET Entries /\ agent.locked \in BOOLEAN
  BY <1>1 DEF PaneAgents
<1>6. agent' \in PaneAgents /\ agent'.ids = ids /\ agent'.locked = agent.locked
  BY <1>3, <1>5, <1>1 DEF PaneAgents
<1>7. m \in PaneAnswers
  <2> HIDE DEF PaneRequests, h
  <2> QED
    BY <1>3, <1>4, <1>5 DEF PaneAnswers
<1>8. ASSUME ~agent.locked
      PROVE  /\ m.req.kind = "List" => m.code = "ok" /\ m.ids = agent.ids
             /\ ids = agent.ids \/ Deleted(m)
  <2>1. Handles(h, code, ids)
    BY <1>3, <1>8
  <2> HIDE DEF h
  <2>2. (h.kind = "List" => code = "ok" /\ ids = agent.ids)
        /\ (ids = agent.ids \/ (h.kind = "Delete" /\ code = "ok"))
    BY <2>1 DEF Handles, Lists
  <2> QED
    BY <1>7, <2>2 DEF Deleted
<1>9. m.req = h /\ link' = Answered(link, m)
  BY <1>3
<1> HIDE DEF m, h
<1>10. link' \in Links /\ PaneOK(agent', events, link', pane)
  BY <1>1, <1>2, <1>6, <1>7, <1>8, <1>9, AnsweredOK DEF h
<1> QED
  BY <1>1, <1>2, <1>6, <1>10 DEF PaneInv

LEMMA PostPaneOK == PaneInv /\ Post => PaneInv'
<1> SUFFICES ASSUME PaneInv, Post PROVE PaneInv'
  OBVIOUS
<1>1. /\ agent \in PaneAgents /\ events \in Seq(EventNames) /\ link \in Links /\ pane \in Panes
      /\ ops \in Nat /\ PaneOK(agent, events, link, pane)
  BY DEF PaneInv
<1>2. UNCHANGED <<agent, pane, ops>>
  BY DEF Post
<1>3. CASE link.reply # <<>> /\ UNCHANGED events /\ link' = Delivered(link)
  <2>1. link' \in Links /\ PaneOK(agent, events, link', pane)
    BY <1>1, <1>3, DeliveredOK
  <2> QED
    BY <1>1, <1>2, <1>3, <2>1 DEF PaneInv
<1>4. CASE events # <<>> /\ events' = Tail(events) /\ link' = PostMessage(link, [event |-> Head(events)])
  <2>1. link' \in Links /\ events' \in Seq(EventNames) /\ PaneOK(agent, events', link', pane)
    BY <1>1, <1>4, EventPostedOK
  <2> QED
    BY <1>1, <1>2, <2>1 DEF PaneInv
<1> QED
  BY <1>3, <1>4 DEF Post

LEMMA ElsewherePaneOK == PaneInv /\ Elsewhere => PaneInv'
<1> SUFFICES ASSUME PaneInv, Elsewhere PROVE PaneInv'
  OBVIOUS
<1>1. /\ agent \in PaneAgents /\ events \in Seq(EventNames) /\ link \in Links /\ pane \in Panes
      /\ ops \in Nat /\ PaneOK(agent, events, link, pane)
  BY DEF PaneInv
<1>2. UNCHANGED <<link, pane>> /\ ops' \in Nat
  BY <1>1 DEF Elsewhere
<1>3. ASSUME NEW e \in EventNames, events' = Append(events, e)
      PROVE  /\ events' \in Seq(EventNames)
             /\ \E n \in DOMAIN events' : events'[n] = e /\ \A i \in DOMAIN events : i < n
             /\ \A i \in DOMAIN events : i \in DOMAIN events' /\ events'[i] = events[i]
             /\ \A i \in DOMAIN events' : (i \in DOMAIN events /\ events'[i] = events[i]) \/ events'[i] = e
  <2> HIDE DEF EventNames
  <2>1. /\ events' \in Seq(EventNames) /\ Len(events) + 1 \in DOMAIN events'
        /\ events'[Len(events) + 1] = e /\ \A i \in DOMAIN events : i < Len(events) + 1
    BY <1>1, <1>3
  <2>2. /\ \A i \in DOMAIN events : i \in DOMAIN events' /\ events'[i] = events[i]
        /\ \A i \in DOMAIN events' : (i \in DOMAIN events /\ events'[i] = events[i]) \/ events'[i] = e
    BY <1>1, <1>3
  <2> QED
    BY <2>1, <2>2
<1>4. CASE agent' = [agent EXCEPT !.locked = TRUE] /\ events' = Append(events, "Locked")
  <2>1. agent' \in PaneAgents /\ agent'.locked
    BY <1>1, <1>4 DEF PaneAgents
  <2>2. "Locked" \in EventNames
    BY DEF EventNames
  <2>3. events' \in Seq(EventNames)
    BY <1>3, <1>4, <2>2
  <2>4. PaneOK(agent', events', link, pane)
    BY <2>1 DEF PaneOK
  <2> QED
    BY <1>1, <1>2, <2>1, <2>3, <2>4 DEF PaneInv
<1>5. CASE agent' = [agent EXCEPT !.locked = FALSE] /\ events' = Append(events, "Unlocked")
  <2>1. agent' \in PaneAgents
    BY <1>1, <1>5 DEF PaneAgents
  <2>2. "Unlocked" \in EventNames
    BY DEF EventNames
  <2>3. /\ events' \in Seq(EventNames)
        /\ \E n \in DOMAIN events' : events'[n] = "Unlocked" /\ \A i \in DOMAIN events : i < n
        /\ \A i \in DOMAIN events' : i \in DOMAIN events \/ events'[i] = "Unlocked"
    BY <1>3, <1>5, <2>2
  <2>4. Ordered(events', link) /\ Opening(events', link) /\ Renewal(events', link)
    BY <2>3 DEF Ordered, Opening, Renewal
  <2>5. PaneOK(agent', events', link, pane)
    BY <2>4 DEF PaneOK
  <2> QED
    BY <1>1, <1>2, <2>1, <2>3, <2>5 DEF PaneInv
<1>6. CASE /\ ~agent.locked /\ events' = Append(events, "VaultChanged")
           /\ \E id \in agent.ids : agent' = [agent EXCEPT !.ids = @ \ {id}]
  <2>1. agent' \in PaneAgents
    BY <1>1, <1>6 DEF PaneAgents
  <2>2. "VaultChanged" \in EventNames
    BY DEF EventNames
  <2>3. /\ events' \in Seq(EventNames)
        /\ \E n \in DOMAIN events' : events'[n] = "VaultChanged"
        /\ \A i \in DOMAIN events : i \in DOMAIN events' /\ events'[i] = events[i]
        /\ \A i \in DOMAIN events' :
               (i \in DOMAIN events /\ events'[i] = events[i]) \/ events'[i] = "VaultChanged"
    BY <1>3, <1>6, <2>2
  <2>4. Ordered(events, link) /\ (pane.view = "Vault" \/ Opening(events, link))
    BY <1>1, <1>6 DEF PaneOK
  <2>5. Ordered(events', link)
    BY <2>3, <2>4 DEF Ordered
  <2>6. (Opening(events, link) => Opening(events', link)) /\ Renewal(events', link)
    BY <2>3 DEF Opening, Renewal
  <2>7. PaneOK(agent', events', link, pane)
    BY <2>4, <2>5, <2>6 DEF PaneOK
  <2> QED
    BY <1>1, <1>2, <2>1, <2>3, <2>7 DEF PaneInv
<1> QED
  BY <1>4, <1>5, <1>6 DEF Elsewhere

\* A request about a name.
LEMMA RequestTyped ==
    ASSUME NEW kind \in {"List", "Meta", "Edit", "Secret", "Save", "Delete", "Sync"}, NEW id \in Names,
           NEW field \in Fields, NEW copy \in BOOLEAN, NEW pw \in BOOLEAN
    PROVE  Request(kind, id, field, copy, pw) \in PaneRequests
<1> HIDE DEF Names, Fields
<1> QED
  BY DEF Request, PaneRequests
LEMMA Fetches ==
    ASSUME NEW id \in Names, NEW field \in Fields, NEW copy \in BOOLEAN, NEW pw \in BOOLEAN
    PROVE  /\ FetchMeta(id) \in PaneRequests /\ FetchFull(id, pw) \in PaneRequests
           /\ FetchSecret(id, field, copy, pw) \in PaneRequests
<1>1. "none" \in Fields
  BY DEF Fields
<1> QED
  BY <1>1, RequestTyped DEF FetchMeta, FetchFull, FetchSecret

\* Sending it leaves everything in order.
LEMMA Sent ==
    ASSUME NEW q \in Links, NEW r \in PaneRequests, NEW a, NEW ev, NEW p, PaneOK(a, ev, q, p)
    PROVE  Enqueue(q, <<r>>) \in Links /\ PaneOK(a, ev, Enqueue(q, <<r>>), p)
<1>1. <<r>> \in Seq(PaneRequests)
  <2> HIDE DEF PaneRequests
  <2> QED
    OBVIOUS
<1> QED
  BY <1>1, Enqueued

\* The pane's fields, one by one.
LEMMA PaneParts ==
    ASSUME NEW p \in Panes
    PROVE  /\ p.view \in {"Vault", "Unlock"} /\ p.list \subseteq Entries
           /\ p.selected \in Names /\ p.shown.id \in Names /\ p.shown.loaded \subseteq Names \X Fields
           /\ p.editing \in Names /\ p.code \in Names /\ p.revealed \subseteq Names \X Fields
           /\ p.reprompt \in Names /\ p.intent.kind \in {"none", "Copy", "Reveal", "Edit"}
           /\ p.intent.field \in Fields /\ p.confirm \in Names
<1> HIDE DEF Names, Fields
<1> QED
  BY DEF Panes
LEMMA NameParts == Nil \in Names /\ Draft \in Names /\ Entries \subseteq Names /\ "none" \in Fields
  BY DEF Names, Fields, Draft
LEMMA ShownTyped ==
    ASSUME NEW id \in Names
    PROVE  /\ NoEntry \in [id : Names, loaded : SUBSET (Names \X Fields)]
           /\ Meta(id) \in [id : Names, loaded : SUBSET (Names \X Fields)]
           /\ Full(id) \in [id : Names, loaded : SUBSET (Names \X Fields)]
           /\ FieldsOf(id) \subseteq Fields /\ NoIntent \in [kind : {"none", "Copy", "Reveal", "Edit"}, field : Fields]
<1>1. FieldsOf(id) \subseteq Fields
  BY DEF FieldsOf, Fields
<1>2. {<<id, f>> : f \in FieldsOf(id) \ {"TOTP"}} \subseteq Names \X Fields
  BY <1>1
<1>3. NoIntent \in [kind : {"none", "Copy", "Reveal", "Edit"}, field : Fields]
  BY NameParts DEF NoIntent
<1>4. NoEntry \in [id : Names, loaded : SUBSET (Names \X Fields)]
  <2> HIDE DEF Names, Fields
  <2> QED
    BY NameParts DEF NoEntry
<1>5. Meta(id) \in [id : Names, loaded : SUBSET (Names \X Fields)]
  <2> HIDE DEF Names, Fields
  <2> QED
    BY DEF Meta
<1>6. Full(id) \in [id : Names, loaded : SUBSET (Names \X Fields)]
  <2> HIDE DEF Names, Fields, FieldsOf
  <2> QED
    BY <1>2 DEF Full
<1> QED
  BY <1>1, <1>3, <1>4, <1>5, <1>6

\* What a step of the window has to leave.
Windowed(a, ev, q, p) == q \in Links /\ p \in Panes /\ PaneOK(a, ev, q, p)

\* Selecting an entry that the agent has, or any while a list is to come.
LEMMA SelectOK ==
    ASSUME NEW q \in Links, NEW p \in Panes, NEW id \in Names, NEW a, NEW ev,
           ~a.locked => /\ Ordered(ev, q)
                        /\ \/ Renewal(ev, q)
                           \/ /\ Exacts(a, q) /\ Reselects(a, q)
                              /\ Coming(q, 0) \/ (p.list = a.ids /\ Known(a, id))
    PROVE  Windowed(a, ev, Enqueue(q, <<FetchMeta(id)>>), Select(p, id))
<1> DEFINE o == Select(p, id)
<1>1. o \in Panes
  <2> HIDE DEF Names, Fields
  <2>1. /\ NoEntry \in [id : Names, loaded : SUBSET (Names \X Fields)] /\ Nil \in Names
        /\ NoIntent \in [kind : {"none", "Copy", "Reveal", "Edit"}, field : Fields]
    BY ShownTyped, NameParts
  <2> QED
    BY <2>1 DEF Select, Panes
<1>2. o.view = "Vault" /\ o.list = p.list /\ o.selected = id
  <2> HIDE DEF Names, Fields
  <2> QED
    BY DEF Select, Panes
<1> HIDE DEF o
<1>3. PaneOK(a, ev, q, o)
  BY <1>2 DEF PaneOK, Follows, Shows
<1>4. FetchMeta(id) \in PaneRequests
  BY Fetches, NameParts
<1> QED
  BY <1>1, <1>3, <1>4, Sent DEF Windowed, o

\* One step for each thing the user may do.
LEMMA UserPaneOK == PaneInv /\ User => PaneInv'
<1> SUFFICES ASSUME PaneInv, User PROVE PaneInv'
  OBVIOUS
<1>1. /\ agent \in PaneAgents /\ events \in Seq(EventNames) /\ link \in Links /\ pane \in Panes
      /\ ops \in Nat /\ PaneOK(agent, events, link, pane)
  BY DEF PaneInv
<1>2. UNCHANGED <<agent, events>> /\ ops' \in Nat
  BY <1>1 DEF User
<1>3. SUFFICES Windowed(agent, events, link', pane')
  BY <1>1, <1>2 DEF PaneInv, Windowed
<1>4. /\ pane.view \in {"Vault", "Unlock"} /\ pane.list \subseteq Entries
      /\ pane.selected \in Names /\ pane.shown.id \in Names /\ pane.shown.loaded \subseteq Names \X Fields
      /\ pane.editing \in Names /\ pane.code \in Names /\ pane.revealed \subseteq Names \X Fields
      /\ pane.reprompt \in Names /\ pane.intent.kind \in {"none", "Copy", "Reveal", "Edit"}
      /\ pane.intent.field \in Fields /\ pane.confirm \in Names
  BY <1>1, PaneParts
<1>5. Nil \in Names /\ Draft \in Names /\ Entries \subseteq Names /\ "none" \in Fields
  BY NameParts
<1> HIDE DEF Names, Fields, PaneRequests
<1>6. ASSUME pane' \in Panes, pane'.view \in {pane.view, "Vault"}, pane'.list = pane.list,
             pane'.selected \in {pane.selected, Nil},
             link' = link \/ \E r \in PaneRequests : link' = Enqueue(link, <<r>>)
      PROVE  Windowed(agent, events, link', pane')
  <2>1. PaneOK(agent, events, link, pane')
    BY <1>1, <1>6, QuietPane
  <2> QED
    BY <1>1, <1>6, <2>1, Sent DEF Windowed
<1>7. ASSUME NEW r \in PaneRequests, Send(r), UNCHANGED pane PROVE Windowed(agent, events, link', pane')
  BY <1>1, <1>6, <1>7 DEF Send
<1>8. ASSUME NEW id \in pane.list, pane.view = "Vault", SelectEntry(id, link)
      PROVE  Windowed(agent, events, link', pane')
  <2>1. id \in Names
    BY <1>4, <1>5
  <2>2. ~agent.locked => /\ Ordered(events, link)
                         /\ \/ Renewal(events, link)
                            \/ /\ Exacts(agent, link) /\ Reselects(agent, link)
                               /\ Coming(link, 0) \/ (pane.list = agent.ids /\ Known(agent, id))
    BY <1>1 DEF PaneOK, Follows, Shows, Known
  <2> QED
    BY <1>1, <1>8, <2>1, <2>2, SelectOK DEF SelectEntry
<1>9. ASSUME AddEntryRequested PROVE Windowed(agent, events, link', pane')
  <2>1. pane' = [pane EXCEPT !.shown = Meta(Draft), !.editing = Draft, !.selected = Nil] /\ link' = link
    BY <1>9 DEF AddEntryRequested
  <2>2. Meta(Draft) \in [id : Names, loaded : SUBSET (Names \X Fields)]
    BY <1>5, ShownTyped
  <2>3. pane' \in Panes /\ pane'.view = pane.view /\ pane'.list = pane.list /\ pane'.selected = Nil
    BY <1>1, <1>5, <2>1, <2>2 DEF Panes
  <2> QED
    BY <1>6, <2>1, <2>3
<1>10. ASSUME EditEntry PROVE Windowed(agent, events, link', pane')
  BY <1>4, <1>5, <1>7, <1>10, Fetches DEF EditEntry
<1>11. ASSUME CancelEdit PROVE Windowed(agent, events, link', pane')
  <2>1. pane' = [pane EXCEPT !.editing = Nil] /\ link' = link
    BY <1>11 DEF CancelEdit
  <2>2. pane' \in Panes /\ pane'.view = pane.view /\ pane'.list = pane.list /\ pane'.selected = pane.selected
    BY <1>1, <1>5, <2>1 DEF Panes
  <2> QED
    BY <1>6, <2>1, <2>2
<1>12. ASSUME SaveEdit PROVE Windowed(agent, events, link', pane')
  BY <1>4, <1>5, <1>7, <1>12, RequestTyped DEF SaveEdit
<1>13. ASSUME DeleteEntry PROVE Windowed(agent, events, link', pane')
  <2>1. pane' = [pane EXCEPT !.confirm = pane.shown.id] /\ link' = link
    BY <1>13 DEF DeleteEntry
  <2>2. pane' \in Panes /\ pane'.view = pane.view /\ pane'.list = pane.list /\ pane'.selected = pane.selected
    BY <1>1, <1>4, <2>1 DEF Panes
  <2> QED
    BY <1>6, <2>1, <2>2
<1>14. ASSUME ConfirmDelete PROVE Windowed(agent, events, link', pane')
  <2>1. pane' = [pane EXCEPT !.confirm = Nil, !.deleting = TRUE]
        /\ link' = Enqueue(link, <<Request("Delete", pane.confirm, "none", FALSE, FALSE)>>)
    BY <1>14 DEF ConfirmDelete, Send
  <2>2. pane' \in Panes /\ pane'.view = pane.view /\ pane'.list = pane.list /\ pane'.selected = pane.selected
    BY <1>1, <1>5, <2>1 DEF Panes
  <2>3. Request("Delete", pane.confirm, "none", FALSE, FALSE) \in PaneRequests
    BY <1>4, <1>5, RequestTyped
  <2> QED
    BY <1>6, <2>1, <2>2, <2>3
<1>15. ASSUME CancelDelete PROVE Windowed(agent, events, link', pane')
  <2>1. pane' = [pane EXCEPT !.confirm = Nil] /\ link' = link
    BY <1>15 DEF CancelDelete
  <2>2. pane' \in Panes /\ pane'.view = pane.view /\ pane'.list = pane.list /\ pane'.selected = pane.selected
    BY <1>1, <1>5, <2>1 DEF Panes
  <2> QED
    BY <1>6, <2>1, <2>2
<1>16. Rows \subseteq Fields
  BY <1>4, ShownTyped DEF Rows
<1>17. ASSUME NEW f \in Rows, ToggleRevealField(f) PROVE Windowed(agent, events, link', pane')
  <2> DEFINE key == <<pane.shown.id, f>>
  <2>1. key \in Names \X Fields
    BY <1>4, <1>16
  <2> HIDE DEF key
  <2>2. \/ /\ pane' = [pane EXCEPT !.revealed = pane.revealed \ {key},
                                   !.code = IF f = "TOTP" THEN Nil ELSE pane.code]
           /\ link' = link
        \/ pane' = [pane EXCEPT !.revealed = pane.revealed \cup {key}] /\ link' = link
        \/ pane' = pane /\ link' = Enqueue(link, <<FetchSecret(pane.shown.id, f, FALSE, FALSE)>>)
    BY <1>17 DEF ToggleRevealField, Send, key
  <2>3. pane' \in Panes /\ pane'.view = pane.view /\ pane'.list = pane.list /\ pane'.selected = pane.selected
    <3>1. pane.revealed \ {key} \subseteq Names \X Fields /\ pane.revealed \cup {key} \subseteq Names \X Fields
      BY <1>4, <2>1
    <3>2. (IF f = "TOTP" THEN Nil ELSE pane.code) \in Names
      BY <1>4, <1>5
    <3>3. CASE pane' = [pane EXCEPT !.revealed = pane.revealed \ {key},
                                    !.code = IF f = "TOTP" THEN Nil ELSE pane.code]
      BY <1>1, <3>1, <3>2, <3>3 DEF Panes
    <3>4. CASE pane' = [pane EXCEPT !.revealed = pane.revealed \cup {key}]
      BY <1>1, <3>1, <3>4 DEF Panes
    <3> QED
      BY <1>1, <2>2, <3>3, <3>4
  <2>4. FetchSecret(pane.shown.id, f, FALSE, FALSE) \in PaneRequests
    BY <1>4, <1>16, Fetches
  <2> QED
    BY <1>6, <2>2, <2>3, <2>4
<1>18. ASSUME NEW f \in Rows, CopySecretField(f) PROVE Windowed(agent, events, link', pane')
  BY <1>4, <1>7, <1>16, <1>18, Fetches DEF CopySecretField
<1>19. ASSUME SubmitReprompt PROVE Windowed(agent, events, link', pane')
  <2>1. /\ FetchSecret(pane.reprompt, pane.intent.field, pane.intent.kind = "Copy", TRUE) \in PaneRequests
        /\ FetchFull(pane.reprompt, TRUE) \in PaneRequests
    BY <1>4, Fetches
  <2>2. \E r \in PaneRequests : Send(r)
    BY <1>19, <2>1 DEF SubmitReprompt
  <2> QED
    BY <1>7, <1>19, <2>2 DEF SubmitReprompt
<1>20. ASSUME CancelReprompt PROVE Windowed(agent, events, link', pane')
  <2>1. pane' = [pane EXCEPT !.reprompt = Nil, !.intent = NoIntent] /\ link' = link
    BY <1>20 DEF CancelReprompt
  <2>2. NoIntent \in [kind : {"none", "Copy", "Reveal", "Edit"}, field : Fields]
    BY <1>5, ShownTyped
  <2>3. pane' \in Panes /\ pane'.view = pane.view /\ pane'.list = pane.list /\ pane'.selected = pane.selected
    BY <1>1, <1>5, <2>1, <2>2 DEF Panes
  <2> QED
    BY <1>6, <2>1, <2>3
<1>21. ASSUME SyncClicked PROVE Windowed(agent, events, link', pane')
  BY <1>5, <1>7, <1>21, RequestTyped DEF SyncClicked
<1> QED
  BY <1>8, <1>9, <1>10, <1>11, <1>12, <1>13, <1>14, <1>15, <1>17, <1>18, <1>19, <1>20, <1>21 DEF User

\* A message that neither lists nor renews leaves everything in order ...
LEMMA QuietLeft ==
    ASSUME NEW a, NEW ev, NEW q, NEW p, NEW m \in PaneAnswers, ~a.locked => Left(a, ev, q, p, m),
           ~Listed(m), ~Deleted(m)
    PROVE  PaneOK(a, ev, q, p)
<1>1. m \notin Broadcasts
  BY MessageParts DEF Messages
<1> HIDE DEF PaneAnswers, Broadcasts
<1> QED
  BY <1>1 DEF PaneOK, Left, Follows, Says, Renews

\* ... and any at all when the window refreshes.
LEMMA RefreshLeft ==
    ASSUME NEW a, NEW ev, NEW q \in Links, NEW p, NEW m, ~a.locked => Left(a, ev, q, p, m),
           NEW o, o.view = "Vault" \/ (o.view = p.view /\ ~Says(m, "Unlocked"))
    PROVE  Refresh(q) \in Links /\ PaneOK(a, ev, Refresh(q), o)
<1> DEFINE r == Refresh(q)
<1>1. /\ r \in Links
      /\ Ordered(ev, q) => Ordered(ev, r)
      /\ Opening(ev, q) => Opening(ev, r)
      /\ \A i \in DOMAIN r.inbox : ~Listed(r.inbox[i])
      /\ \A i \in DOMAIN r.reply : ~Listed(r.reply[i])
      /\ \E j \in DOMAIN r.waiting : r.waiting[j].kind = "List"
  BY Refreshed
<1> HIDE DEF r
<1>2. ~a.locked => Ordered(ev, r) /\ (o.view = "Vault" \/ Opening(ev, r))
  BY <1>1 DEF Left
<1>3. PaneOK(a, ev, r, o)
  BY <1>1, <1>2, Refetching
<1> QED
  BY <1>1, <1>3 DEF r

\* A saved entry is selected again behind the refresh.
LEMMA ReselectLeft ==
    ASSUME NEW a, NEW ev, NEW q \in Links, NEW p, NEW m, ~a.locked => Left(a, ev, q, p, m),
           NEW o, o.view = p.view /\ ~Says(m, "Unlocked"), NEW id \in Names
    PROVE  LET r == PostMessage(Refresh(q), [event |-> "Reselect", id |-> id])
           IN  r \in Links /\ PaneOK(a, ev, r, o)
<1> DEFINE n == Refresh(q)
           x == [event |-> "Reselect", id |-> id]
           r == PostMessage(n, x)
<1>1. /\ n \in Links
      /\ Ordered(ev, q) => Ordered(ev, n)
      /\ Opening(ev, q) => Opening(ev, n)
      /\ \A i \in DOMAIN n.inbox : ~Listed(n.inbox[i])
      /\ \A i \in DOMAIN n.reply : ~Listed(n.reply[i])
      /\ \E j \in DOMAIN n.waiting : n.waiting[j].kind = "List"
  BY Refreshed
<1>2. x \in Reselections /\ x \in Messages
  <2> HIDE DEF Names
  <2>1. x \in Reselections
    BY DEF Reselections
  <2> QED
    BY <2>1 DEF Messages
<1>3. x \notin PaneAnswers /\ x \notin Broadcasts
  BY <1>2, MessageParts
<1> HIDE DEF n, x
<1>4. /\ r \in Links /\ r.waiting = n.waiting /\ r.reply = n.reply
      /\ \A i \in DOMAIN n.inbox : i \in DOMAIN r.inbox /\ r.inbox[i] = n.inbox[i]
      /\ \A i \in DOMAIN r.inbox :
             (i \in DOMAIN n.inbox /\ r.inbox[i] = n.inbox[i]) \/ (r.inbox[i] = x /\ i \notin DOMAIN n.inbox)
  BY <1>1, <1>2, Posted
<1> HIDE DEF r
<1>5. Ordered(ev, n) => Ordered(ev, r)
  BY <1>3, <1>4 DEF Ordered, Says
<1>6. Opening(ev, n) => Opening(ev, r)
  BY <1>4 DEF Opening
<1>7. ~a.locked => Ordered(ev, r) /\ (o.view = "Vault" \/ Opening(ev, r))
  BY <1>1, <1>5, <1>6 DEF Left
<1>8. /\ \A i \in DOMAIN r.inbox : ~Listed(r.inbox[i])
      /\ \A i \in DOMAIN r.reply : ~Listed(r.reply[i])
      /\ \E j \in DOMAIN r.waiting : r.waiting[j].kind = "List"
  BY <1>1, <1>3, <1>4 DEF Listed
<1>9. PaneOK(a, ev, r, o)
  BY <1>7, <1>8, Refetching
<1> QED
  BY <1>4, <1>9 DEF n, x, r

\* One step for each message the window handles.
LEMMA HandlePaneOK == PaneInv /\ Handle => PaneInv'
<1> SUFFICES ASSUME PaneInv, Handle PROVE PaneInv'
  OBVIOUS
<1> DEFINE m == Head(link.inbox)
           q == Taken(link)
<1>1. /\ agent \in PaneAgents /\ events \in Seq(EventNames) /\ link \in Links /\ pane \in Panes
      /\ ops \in Nat /\ PaneOK(agent, events, link, pane)
  BY DEF PaneInv
<1>2. UNCHANGED <<agent, events, ops>> /\ link.inbox # <<>>
  BY DEF Handle
<1>3. SUFFICES Windowed(agent, events, link', pane')
  BY <1>1, <1>2 DEF PaneInv, Windowed
<1>4. q \in Links /\ m \in Messages /\ (~agent.locked => Left(agent, events, q, pane, m))
  BY <1>1, <1>2, TakenLeaves
<1>5. /\ pane.view \in {"Vault", "Unlock"} /\ pane.list \subseteq Entries
      /\ pane.selected \in Names /\ pane.shown.id \in Names /\ pane.shown.loaded \subseteq Names \X Fields
      /\ pane.editing \in Names /\ pane.code \in Names /\ pane.revealed \subseteq Names \X Fields
      /\ pane.reprompt \in Names /\ pane.intent.kind \in {"none", "Copy", "Reveal", "Edit"}
      /\ pane.intent.field \in Fields /\ pane.confirm \in Names
  BY <1>1, PaneParts
<1>6. Nil \in Names /\ Draft \in Names /\ Entries \subseteq Names /\ "none" \in Fields
  BY NameParts
<1>7. /\ NoEntry \in [id : Names, loaded : SUBSET (Names \X Fields)]
      /\ NoIntent \in [kind : {"none", "Copy", "Reveal", "Edit"}, field : Fields]
  BY <1>6, ShownTyped
<1>8. /\ "event" \in DOMAIN m <=> m \in Broadcasts \cup Reselections
      /\ m \in Broadcasts => m.event \in EventNames
      /\ m \in Reselections => m.event = "Reselect" /\ m.id \in Names
      /\ m \notin Broadcasts \/ m \notin Reselections
      /\ m \in PaneAnswers => m.req \in PaneRequests /\ m \notin Broadcasts /\ m \notin Reselections
      /\ m \in PaneAnswers \/ m \in Broadcasts \/ m \in Reselections
  BY <1>4, MessageParts DEF Messages
<1>9. "event" \in DOMAIN m => EventReceived(m, q)
  BY DEF Handle
<1>10. "event" \notin DOMAIN m =>
          \/ m.req.kind = "List" /\ EntriesReceived(m, q)
          \/ m.req.kind = "Meta" /\ EntryReceived(m, q)
          \/ m.req.kind = "Secret" /\ OnDemandSecretLoaded(m, q)
          \/ m.req.kind = "Edit" /\ EditEntryLoaded(m, q)
          \/ m.req.kind = "Save" /\ SaveEditResult(m, q)
          \/ m.req.kind = "Delete" /\ DeleteEntryResult(m, q)
          \/ m.req.kind = "Sync" /\ SyncResult(m, q)
  BY DEF Handle
<1> HIDE DEF m, q
<1>11. ASSUME m \in PaneAnswers
       PROVE  /\ m.req.kind \in {"List", "Meta", "Edit", "Secret", "Save", "Delete", "Sync"}
              /\ m.req.id \in Names /\ m.req.field \in Fields /\ m.req.copy \in BOOLEAN /\ m.ids \subseteq Entries
  <2>1. m.ids \subseteq Entries
    <3> HIDE DEF PaneRequests
    <3> QED
      BY <1>11 DEF PaneAnswers
  <2> HIDE DEF Names, Fields, PaneAnswers
  <2> QED
    BY <1>8, <1>11, <2>1 DEF PaneRequests
<1> HIDE DEF Names, Fields, PaneRequests, PaneAnswers, Messages, Broadcasts, Reselections
<1>12. ASSUME m \in PaneAnswers, ~Listed(m), ~Deleted(m), pane' \in Panes,
              pane'.view \in {pane.view, "Vault"}, pane'.list = pane.list,
              pane'.selected \in {pane.selected, Nil},
              link' = q \/ \E r \in PaneRequests : link' = Enqueue(q, <<r>>)
       PROVE  Windowed(agent, events, link', pane')
  <2>1. PaneOK(agent, events, q, pane')
    <3>1. PaneOK(agent, events, q, pane)
      BY <1>4, <1>12, QuietLeft
    <3> QED
      BY <1>12, <3>1, QuietPane
  <2> QED
    BY <1>4, <1>12, <2>1, Sent DEF Windowed
<1>13. ASSUME m \in PaneAnswers, m.req.kind = "List", EntriesReceived(m, q)
       PROVE  Windowed(agent, events, link', pane')
  <2> DEFINE p == [pane EXCEPT !.list = IF m.code = "ok" THEN m.ids ELSE {}]
             gone == m.code = "ok" /\ pane.selected # Nil /\ pane.selected \notin m.ids
  <2>1. link' = q /\ pane' = IF gone THEN Deselected(p) ELSE p
    BY <1>13 DEF EntriesReceived
  <2>2. /\ p \in Panes /\ p.view = pane.view /\ p.list = (IF m.code = "ok" THEN m.ids ELSE {})
        /\ p.selected = pane.selected
    <3>1. (IF m.code = "ok" THEN m.ids ELSE {}) \in SUBSET Entries
      BY <1>11, <1>13
    <3> QED
      BY <1>1, <3>1 DEF Panes
  <2> HIDE DEF p
  <2>3. Deselected(p) \in Panes /\ Deselected(p).view = p.view /\ Deselected(p).list = p.list
        /\ Deselected(p).selected = Nil
    BY <1>6, <1>7, <2>2 DEF Deselected, Panes
  <2>4. /\ pane' \in Panes /\ pane'.view = pane.view /\ pane'.list = p.list
        /\ pane'.selected = IF gone THEN Nil ELSE pane.selected
    <3>1. CASE gone
      BY <2>1, <2>2, <2>3, <3>1
    <3>2. CASE ~gone
      BY <2>1, <2>2, <3>2
    <3> QED
      BY <3>1, <3>2
  <2>5. Listed(m) /\ ~Renews(m) /\ ~Says(m, "Unlocked")
    BY <1>8, <1>13 DEF Listed, Renews, Says, Deleted
  <2>6. ASSUME ~agent.locked, Exact(agent, m) PROVE Shows(agent, q, pane')
    <3>1. m.code = "ok" /\ m.ids = agent.ids
      BY <2>5, <2>6 DEF Exact
    <3>2. pane'.list = agent.ids /\ Known(agent, pane'.selected)
      BY <2>2, <2>4, <3>1 DEF Known
    <3> QED
      BY <3>2 DEF Shows
  <2>7. PaneOK(agent, events, q, pane')
    BY <1>4, <2>4, <2>5, <2>6 DEF PaneOK, Left, Follows
  <2> QED
    BY <1>4, <2>1, <2>4, <2>7 DEF Windowed
<1>14. ASSUME m \in PaneAnswers, m.req.kind = "Meta", EntryReceived(m, q)
       PROVE  Windowed(agent, events, link', pane')
  <2>1. ~Listed(m) /\ ~Deleted(m)
    BY <1>14 DEF Listed, Deleted
  <2>2. CASE m.code # "ok"
    BY <1>1, <1>12, <1>14, <2>1, <2>2 DEF EntryReceived
  <2>3. CASE m.code = "ok"
    <3>1. /\ pane' = [pane EXCEPT !.shown = Meta(m.req.id), !.reprompt = Nil]
          /\ \/ link' = q
             \/ link' = Enqueue(q, <<FetchSecret(m.req.id, "Notes", FALSE, FALSE)>>)
      BY <1>14, <2>3 DEF EntryReceived
    <3>2. Meta(m.req.id) \in [id : Names, loaded : SUBSET (Names \X Fields)]
      BY <1>11, <1>14, ShownTyped
    <3>3. pane' \in Panes /\ pane'.view = pane.view /\ pane'.list = pane.list /\ pane'.selected = pane.selected
      BY <1>1, <1>6, <3>1, <3>2 DEF Panes
    <3>4. FetchSecret(m.req.id, "Notes", FALSE, FALSE) \in PaneRequests
      <4>1. "Notes" \in Fields
        BY DEF Fields
      <4> QED
        BY <1>11, <1>14, <4>1, Fetches
    <3> QED
      BY <1>12, <1>14, <2>1, <3>1, <3>3, <3>4
  <2> QED
    BY <2>2, <2>3
<1>15. ASSUME m \in PaneAnswers, m.req.kind = "Secret", OnDemandSecretLoaded(m, q)
       PROVE  Windowed(agent, events, link', pane')
  <2>1. ~Listed(m) /\ ~Deleted(m) /\ link' = q
    BY <1>15 DEF Listed, Deleted, OnDemandSecretLoaded
  <2> DEFINE f == Filled(pane, m)
             more == IF pane.selected = Nil THEN {} ELSE {<<pane.selected, m.req.field>>}
  <2>2. /\ m.code = "ok" => pane' = [f EXCEPT !.revealed = f.revealed \cup more, !.reprompt = Nil,
                                              !.intent = NoIntent]
        /\ m.code = "reprompt_required" =>
               pane' = [pane EXCEPT !.reprompt = pane.selected, !.intent = Intent(m)]
        /\ m.code # "ok" /\ m.code # "reprompt_required" => pane' = pane
    BY <1>15 DEF OnDemandSecretLoaded
  <2>3. more \subseteq Names \X Fields
    BY <1>5, <1>11, <1>15
  <2>4. f \in Panes /\ f.view = pane.view /\ f.list = pane.list /\ f.selected = pane.selected
    <3>1. CASE m.req.field = "TOTP"
      <4>1. f = [pane EXCEPT !.code = m.req.id]
        BY <3>1 DEF Filled
      <4> HIDE DEF f
      <4> QED
        BY <1>1, <1>11, <1>15, <4>1 DEF Panes
    <3>2. CASE m.req.field = "Password"
      <4> DEFINE l == IF pane.shown.id \in SecureNotes \cup {Nil} THEN pane.shown.loaded
                      ELSE pane.shown.loaded \cup {<<m.req.id, "Password">>}
                 s == [pane.shown EXCEPT !.loaded = l]
      <4>1. f = [pane EXCEPT !.shown.loaded = l]
        BY <3>2 DEF Filled
      <4>2. l \subseteq Names \X Fields
        BY <1>5, <1>11, <1>15, <3>2
      <4> HIDE DEF l
      <4>3. f = [pane EXCEPT !.shown = s]
        BY <4>1
      <4>4. s \in [id : Names, loaded : SUBSET (Names \X Fields)]
        BY <1>1, <4>2 DEF Panes
      <4> HIDE DEF f, s
      <4> QED
        BY <1>1, <4>3, <4>4 DEF Panes
    <3>3. CASE m.req.field # "TOTP" /\ m.req.field # "Password"
      <4>1. f = [pane EXCEPT !.shown = Full(m.req.id)]
        BY <3>3 DEF Filled
      <4>2. Full(m.req.id) \in [id : Names, loaded : SUBSET (Names \X Fields)]
        BY <1>11, <1>15, ShownTyped
      <4> HIDE DEF f
      <4> QED
        BY <1>1, <4>1, <4>2 DEF Panes
    <3> QED
      BY <3>1, <3>2, <3>3
  <2> HIDE DEF f, more
  <2>5. pane' \in Panes /\ pane'.view = pane.view /\ pane'.list = pane.list /\ pane'.selected = pane.selected
    <3>1. CASE m.code = "ok"
      <4>1. f.revealed \cup more \in SUBSET (Names \X Fields)
        BY <2>3, <2>4 DEF Panes
      <4>2. Nil \in Names /\ NoIntent \in [kind : {"none", "Copy", "Reveal", "Edit"}, field : Fields]
        BY <1>6, <1>7
      <4>3. pane' = [f EXCEPT !.revealed = f.revealed \cup more, !.reprompt = Nil, !.intent = NoIntent]
        BY <2>2, <3>1
      <4> QED
        BY <2>4, <4>1, <4>2, <4>3 DEF Panes
    <3>2. CASE m.code = "reprompt_required"
      <4>1. Intent(m) \in [kind : {"none", "Copy", "Reveal", "Edit"}, field : Fields]
        BY <1>11, <1>15 DEF Intent
      <4> QED
        BY <1>1, <1>5, <2>2, <3>2, <4>1 DEF Panes
    <3>3. CASE m.code # "ok" /\ m.code # "reprompt_required"
      BY <1>1, <2>2, <3>3
    <3> QED
      BY <3>1, <3>2, <3>3
  <2> QED
    BY <1>12, <1>15, <2>1, <2>5
<1>16. ASSUME m \in PaneAnswers, m.req.kind = "Edit", EditEntryLoaded(m, q)
       PROVE  Windowed(agent, events, link', pane')
  <2>1. ~Listed(m) /\ ~Deleted(m) /\ link' = q
    BY <1>16 DEF Listed, Deleted, EditEntryLoaded
  <2> DEFINE i == [kind |-> "Edit", field |-> "none"]
  <2>2. /\ m.code = "ok" => pane' = [pane EXCEPT !.editing = m.req.id, !.reprompt = Nil, !.intent = NoIntent]
        /\ m.code = "reprompt_required" => pane' = [pane EXCEPT !.reprompt = pane.selected, !.intent = i]
        /\ m.code # "ok" /\ m.code # "reprompt_required" => pane' = pane
    BY <1>16 DEF EditEntryLoaded
  <2>3. i \in [kind : {"none", "Copy", "Reveal", "Edit"}, field : Fields]
    BY <1>6
  <2> HIDE DEF i
  <2>4. pane' \in Panes /\ pane'.view = pane.view /\ pane'.list = pane.list /\ pane'.selected = pane.selected
    <3>1. CASE m.code = "ok"
      <4>1. /\ Nil \in Names /\ m.req.id \in Names
            /\ NoIntent \in [kind : {"none", "Copy", "Reveal", "Edit"}, field : Fields]
        BY <1>6, <1>7, <1>11, <1>16
      <4>2. pane' = [pane EXCEPT !.editing = m.req.id, !.reprompt = Nil, !.intent = NoIntent]
        BY <2>2, <3>1
      <4> QED
        BY <1>1, <4>1, <4>2 DEF Panes
    <3>2. CASE m.code = "reprompt_required"
      <4>1. pane.selected \in Names
        BY <1>5
      <4>2. pane' = [pane EXCEPT !.reprompt = pane.selected, !.intent = i]
        BY <2>2, <3>2
      <4> QED
        BY <1>1, <2>3, <4>1, <4>2 DEF Panes
    <3>3. CASE m.code # "ok" /\ m.code # "reprompt_required"
      BY <1>1, <2>2, <3>3
    <3> QED
      BY <3>1, <3>2, <3>3
  <2> QED
    BY <1>12, <1>16, <2>1, <2>4
<1>17. ASSUME m \in PaneAnswers, m.req.kind = "Save", SaveEditResult(m, q)
       PROVE  Windowed(agent, events, link', pane')
  <2>1. ~Listed(m) /\ ~Deleted(m)
    BY <1>17 DEF Listed, Deleted
  <2>2. CASE m.code # "ok"
    BY <1>1, <1>12, <1>17, <2>1, <2>2 DEF SaveEditResult
  <2>3. CASE m.code = "ok"
    <3> DEFINE s == IF pane.shown.id = Draft THEN NoEntry ELSE pane.shown
    <3>1. /\ pane' = [pane EXCEPT !.editing = Nil, !.shown = s]
          /\ \/ link' = Refresh(q)
             \/ link' = PostMessage(Refresh(q), [event |-> "Reselect", id |-> pane.selected])
      BY <1>17, <2>3 DEF SaveEditResult
    <3>2. s \in [id : Names, loaded : SUBSET (Names \X Fields)]
      BY <1>1, <1>7 DEF Panes
    <3> HIDE DEF s
    <3>3. pane' \in Panes /\ pane'.view = pane.view
      BY <1>1, <1>6, <3>1, <3>2 DEF Panes
    <3>4. ~Says(m, "Unlocked")
      BY <1>8, <1>17 DEF Says
    <3>5. CASE link' = Refresh(q)
      BY <1>4, <3>3, <3>4, <3>5, RefreshLeft DEF Windowed
    <3>6. CASE link' = PostMessage(Refresh(q), [event |-> "Reselect", id |-> pane.selected])
      <4>1. link' \in Links /\ PaneOK(agent, events, link', pane')
        BY <1>4, <1>5, <3>3, <3>4, <3>6, ReselectLeft
      <4> QED
        BY <3>3, <4>1 DEF Windowed
    <3> QED
      BY <3>1, <3>5, <3>6
  <2> QED
    BY <2>2, <2>3
<1>18. ASSUME m \in PaneAnswers, m.req.kind = "Delete", DeleteEntryResult(m, q)
       PROVE  Windowed(agent, events, link', pane')
  <2> DEFINE p == [pane EXCEPT !.deleting = FALSE]
  <2>1. IF m.code = "ok" THEN pane' = Deselected(p) /\ link' = Refresh(q) ELSE pane' = p /\ link' = q
    BY <1>18 DEF DeleteEntryResult
  <2>2. p \in Panes /\ p.view = pane.view /\ p.list = pane.list /\ p.selected = pane.selected
    BY <1>1 DEF Panes
  <2> HIDE DEF p
  <2>3. CASE m.code = "ok"
    <3>1. Deselected(p) \in Panes /\ Deselected(p).view = p.view
      BY <1>6, <1>7, <2>2 DEF Deselected, Panes
    <3>2. ~Says(m, "Unlocked")
      BY <1>8, <1>18 DEF Says
    <3> QED
      BY <1>4, <2>1, <2>2, <2>3, <3>1, <3>2, RefreshLeft DEF Windowed
  <2>4. CASE m.code # "ok"
    <3>1. ~Listed(m) /\ ~Deleted(m)
      BY <1>18, <2>4 DEF Listed, Deleted
    <3> QED
      BY <1>12, <1>18, <2>1, <2>2, <2>4, <3>1
  <2> QED
    BY <2>3, <2>4
<1>19. ASSUME m \in PaneAnswers, m.req.kind = "Sync", SyncResult(m, q)
       PROVE  Windowed(agent, events, link', pane')
  <2>1. ~Listed(m) /\ ~Deleted(m) /\ ~Says(m, "Unlocked")
    BY <1>8, <1>19 DEF Listed, Deleted, Says
  <2>2. pane' = pane /\ link' = (IF m.code = "ok" THEN Refresh(q) ELSE q)
    BY <1>19 DEF SyncResult
  <2>3. CASE m.code = "ok"
    BY <1>1, <1>4, <2>1, <2>2, <2>3, RefreshLeft DEF Windowed
  <2>4. CASE m.code # "ok"
    BY <1>1, <1>12, <1>19, <2>1, <2>2, <2>4
  <2> QED
    BY <2>3, <2>4
<1>20. ASSUME m \in Broadcasts, m.event = "Locked", pane' = Wipe(pane), link' = q
       PROVE  Windowed(agent, events, link', pane')
  <2> DEFINE d == Deselected(pane)
  <2>1. d \in Panes
    BY <1>1, <1>6, <1>7 DEF Deselected, Panes
  <2>2. pane' = [d EXCEPT !.view = "Unlock", !.list = {}, !.code = Nil, !.revealed = {}, !.intent = NoIntent]
    BY <1>20 DEF Wipe
  <2> HIDE DEF d
  <2>3. pane' \in Panes
    BY <1>6, <1>7, <2>1, <2>2 DEF Panes
  <2>4. Says(m, "Locked")
    BY <1>20 DEF Says
  <2>5. ~agent.locked => Ordered(events, q) /\ Opening(events, q)
    BY <1>4, <2>4 DEF Left
  <2>6. Opening(events, q) => Renewal(events, q)
    BY DEF Opening, Renewal, Renews
  <2>7. PaneOK(agent, events, q, pane')
    BY <2>5, <2>6 DEF PaneOK
  <2> QED
    BY <1>4, <1>20, <2>3, <2>7 DEF Windowed
<1>21. ASSUME m \in Broadcasts, m.event = "Unlocked", pane' = [pane EXCEPT !.view = "Vault"], link' = Refresh(q)
       PROVE  Windowed(agent, events, link', pane')
  <2>1. pane' \in Panes /\ pane'.view = "Vault"
    BY <1>1, <1>21 DEF Panes
  <2> QED
    BY <1>4, <1>21, <2>1, RefreshLeft DEF Windowed
<1>22. ASSUME m \in Broadcasts, m.event = "VaultChanged", pane' = pane,
              link' = IF pane.view = "Vault" THEN Refresh(q) ELSE q
       PROVE  Windowed(agent, events, link', pane')
  <2>1. ~Says(m, "Unlocked") /\ ~Says(m, "Locked")
    BY <1>22 DEF Says
  <2>2. CASE pane.view = "Vault"
    BY <1>1, <1>4, <1>22, <2>1, <2>2, RefreshLeft DEF Windowed
  <2>3. CASE pane.view # "Vault"
    <3>1. ~agent.locked => Ordered(events, q) /\ Opening(events, q)
      BY <1>4, <2>1, <2>3 DEF Left
    <3>2. Opening(events, q) => Renewal(events, q)
      BY DEF Opening, Renewal, Renews
    <3>3. PaneOK(agent, events, q, pane)
      BY <3>1, <3>2 DEF PaneOK
    <3> QED
      BY <1>1, <1>4, <1>22, <2>3, <3>3 DEF Windowed
  <2> QED
    BY <2>2, <2>3
<1>23. ASSUME m \in Reselections, SelectEntry(m.id, q) PROVE Windowed(agent, events, link', pane')
  <2>1. pane' = Select(pane, m.id) /\ link' = Enqueue(q, <<FetchMeta(m.id)>>) /\ m.id \in Names
    BY <1>8, <1>23 DEF SelectEntry
  <2>2. ~Renews(m) /\ ~Listed(m)
    BY <1>8, <1>23 DEF Renews, Says, Deleted, Listed
  <2>3. ~agent.locked => /\ Ordered(events, q)
                         /\ \/ Renewal(events, q)
                            \/ /\ Exacts(agent, q) /\ Reselects(agent, q)
                               /\ Coming(q, 0) \/ (pane.list = agent.ids /\ Known(agent, m.id))
    BY <1>4, <1>23, <2>2 DEF Left, Shows
  <2> QED
    BY <1>1, <1>4, <2>1, <2>3, SelectOK
<1>24. CASE m \in PaneAnswers
  BY <1>8, <1>10, <1>13, <1>14, <1>15, <1>16, <1>17, <1>18, <1>19, <1>24
<1>25. CASE m \in Broadcasts
  <2>1. m.event \in {"Locked", "Unlocked", "VaultChanged"} /\ EventReceived(m, q)
    BY <1>8, <1>9, <1>25 DEF EventNames
  <2> QED
    BY <1>20, <1>21, <1>22, <1>25, <2>1 DEF EventReceived
<1>26. CASE m \in Reselections
  BY <1>8, <1>9, <1>23, <1>26 DEF EventReceived
<1> QED
  BY <1>8, <1>24, <1>25, <1>26

-----------------------------------------------------------------------------
(* What the window lists and selects *)

\* The invariant of the vault window: what is on its way to it and what it shows.
THEOREM PaneInductive == PaneSpec => []PaneInv
<1>1. PaneInit => PaneInv
  BY PaneInitOK
<1>2. PaneInv /\ [PaneNext]_paneVars => PaneInv'
  <2> SUFFICES ASSUME PaneInv, [PaneNext]_paneVars PROVE PaneInv'
    OBVIOUS
  <2>1. CASE PaneNext
    BY <2>1, ServePaneOK, PostPaneOK, HandlePaneOK, ElsewherePaneOK, UserPaneOK DEF PaneNext
  <2>2. CASE UNCHANGED paneVars
    BY <2>2 DEF PaneInv, paneVars
  <2> QED
    BY <2>1, <2>2
<1> QED
  BY <1>1, <1>2, PTL DEF PaneSpec

\* Nothing on its way: the window has the agent's list and selects one of its entries.
LEMMA SettledFollows ==
    ASSUME PaneInv, Settled, ~agent.locked
    PROVE  pane.list = agent.ids /\ Known(agent, pane.selected)
<1>1. link \in Links /\ PaneOK(agent, events, link, pane) /\ events = <<>>
  BY DEF PaneInv, Settled
<1>2. link.waiting \in Seq(PaneRequests) /\ link.reply \in Seq(PaneAnswers) /\ link.inbox \in Seq(Messages)
  BY <1>1, LinkParts
<1> HIDE DEF PaneRequests, PaneAnswers, Messages
<1>3. Len(link.waiting) = 0 /\ Len(link.reply) = 0 /\ Len(link.inbox) = 0
  <2>1. Len(link.waiting) \in Nat /\ Len(link.reply) \in Nat /\ Len(link.inbox) \in Nat
    BY <1>2
  <2>2. Len(link.waiting) + Len(link.reply) + Len(link.inbox) = 0
    BY DEF Settled, Idle, Pending
  <2>3. \A x, y, z \in Nat : x + y + z = 0 => x = 0 /\ y = 0 /\ z = 0
    OBVIOUS
  <2> QED
    BY <2>1, <2>2, <2>3
<1>4. DOMAIN link.waiting = {} /\ DOMAIN link.reply = {} /\ DOMAIN link.inbox = {} /\ DOMAIN events = {}
  BY <1>1, <1>2, <1>3
<1>5. ~Renewal(events, link) /\ ~Coming(link, 0)
  BY <1>4 DEF Renewal, Coming
<1> QED
  BY <1>1, <1>5 DEF PaneOK, Follows, Shows

\* PaneListFresh, for any entries and any number of operations: once every answer and event
\* is in, an open vault lists the entries the agent has (search_id).
THEOREM PaneAlwaysFresh == PaneSpec => []PaneListFresh
<1>1. PaneInv => PaneListFresh
  BY SettledFollows DEF PaneListFresh
<1> QED
  BY <1>1, PaneInductive, PTL

\* SelectionExists: nothing that was deleted is still selected then (EntriesReceived).
THEOREM SelectionAlwaysExists == PaneSpec => []SelectionExists
<1>1. PaneInv => SelectionExists
  BY SettledFollows DEF SelectionExists, Known
<1> QED
  BY <1>1, PaneInductive, PTL
=============================================================================
