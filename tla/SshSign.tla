------------------------------ MODULE SshSign -------------------------------
(***************************************************************************)
(* SSH sign requests against a vault that locks, unlocks and logs out      *)
(* around them (cosmarden-agent/src/ssh_agent), and the unlock prompts     *)
(* they and other clients cause.                                           *)
(*                                                                         *)
(* A waiting signer sits on a tokio `watch` channel: it is woken by every  *)
(* send, but when it is polled it sees only the latest value, so values    *)
(* sent and replaced before the poll are never seen.                       *)
(***************************************************************************)
EXTENDS AgentState

CONSTANTS
    Signers,     \* sign requests
    Clients,     \* connections that may subscribe to events
    KeyOf        \* the account in whose vault a request's key pair lives

ASSUME KeyOfAssumption == KeyOf \in [Signers -> Accounts]

VARIABLES
    st,          \* the State record
    signer,      \* the phase or the outcome of each request
    expired,     \* has the request's deadline passed
    subscribed,  \* the clients in State::subscribers
    prompts      \* history: prompts each client got since the last lock()

vars == <<st, signer, expired, subscribed, prompts>>
signVars == <<signer, expired>>
clientVars == <<subscribed, prompts>>

Waiting == {"waiting"}
Failed == {"no key", "agent is locked", "timed out"}
Outcomes == {"signed"} \cup Failed

Init ==
    /\ st \in {NewState(b) : b \in BOOLEAN}
    /\ signer = [s \in Signers |-> "new"]
    /\ expired = [s \in Signers |-> FALSE]
    /\ subscribed = {}
    /\ prompts = [c \in Clients |-> 0]
-----------------------------------------------------------------------------
(* sign_request *)

\* request_unlock without its notified check: a mutant of Prompt.
PromptAlways ==
    /\ st' = RequestUnlock(st)
    /\ prompts' = [c \in Clients |-> IF c \in subscribed /\ prompts[c] < 2
                                     THEN prompts[c] + 1 ELSE prompts[c]]

\* request_unlock and its broadcast to whoever is subscribed now.
Prompt ==
    /\ st' = RequestUnlock(st)
    /\ prompts' = [c \in Clients |->
                      IF c \in subscribed /\ PromptEvent(st) # "none"
                      THEN prompts[c] + 1 ELSE prompts[c]]

\* sign_unlocked: the entry is looked for in the database in memory.
SignUnlocked(s) ==
    IF st.db.vault = KeyOf[s] /\ st.keys = KeyOf[s] THEN "signed" ELSE "no key"

\* One round of the loop in sign_request, up to its wait.
Attempt(s) ==
    \/ /\ st.keys # None
       /\ signer' = [signer EXCEPT ![s] = SignUnlocked(s)]
       /\ UNCHANGED <<st, prompts>>
    \/ /\ st.keys = None
       /\ Prompt
       /\ signer' = [signer EXCEPT ![s] =
                        IF st.sshIds # KeyOf[s] THEN "no key"
                        ELSE IF expired[s] THEN "timed out"
                        ELSE "waiting"]

SignRequest(s) ==
    /\ signer[s] = "new"
    /\ Attempt(s)
    /\ UNCHANGED <<expired, subscribed>>

\* The wait is polled after the session moved: unlocked runs the loop again,
\* logged out fails the request.  A mutant only wakes for an unlock.
WakeOnUnlockOnly(s) ==
    /\ signer[s] = "waiting"
    /\ st.session = "Unlocked" /\ Attempt(s)
    /\ UNCHANGED <<expired, subscribed>>

Wake(s) ==
    /\ signer[s] = "waiting"
    /\ \/ st.session = "Unlocked" /\ Attempt(s)
       \/ /\ st.session = "LoggedOut"
          /\ signer' = [signer EXCEPT ![s] = "agent is locked"]
          /\ UNCHANGED <<st, prompts>>
    /\ UNCHANGED <<expired, subscribed>>

\* The deadline passes.  A woken signer is polled long before that much time
\* goes by, so only a signer with nothing to see reaches its deadline.
Expire(s) ==
    /\ signer[s] = "waiting" /\ ~expired[s]
    /\ st.session = "Locked"
    /\ expired' = [expired EXCEPT ![s] = TRUE]
    /\ UNCHANGED <<st, signer, clientVars>>

\* tokio::time::timeout polls the watch before the timer, so it only fires
\* while the session reads Locked.  A mutant never fires.
TimeOutNever(s) == FALSE /\ UNCHANGED vars
TimeOut(s) ==
    /\ signer[s] = "waiting" /\ expired[s]
    /\ st.session = "Locked"
    /\ signer' = [signer EXCEPT ![s] = "timed out"]
    /\ UNCHANGED <<st, expired, clientVars>>

\* The client is answered and may ask again.
SignAgain(s) ==
    /\ signer[s] \in Outcomes
    /\ signer' = [signer EXCEPT ![s] = "new"]
    /\ expired' = [expired EXCEPT ![s] = FALSE]
    /\ UNCHANGED <<st, clientVars>>
-----------------------------------------------------------------------------
(* The rest of the agent *)

\* An unlock path, with the vault file of account a; a login to a.
UnlockVault(a) ==
    /\ st' = CommitUnlock(st, a, [kdf |-> TRUE, vault |-> a])
    /\ UNCHANGED <<signVars, clientVars>>

LoginVault(a) ==
    /\ st' = CommitLogin(st, a, NoToken)
    /\ UNCHANGED <<signVars, clientVars>>

\* lock() from any of its callers, whatever the state is: a new lock period.
LockVault ==
    /\ st' = Lock(st)
    /\ prompts' = [c \in Clients |-> 0]
    /\ UNCHANGED <<signVars, subscribed>>

Logout ==
    /\ st' = ClearAccount(st)
    /\ prompts' = [c \in Clients |-> 0]
    /\ UNCHANGED <<signer, expired, subscribed>>

\* The answer of a sync refreshes the database in memory, locked or not.
SyncArrives ==
    /\ st.db.present
    /\ st' = ApplySync(st, st.db.vault)
    /\ UNCHANGED <<signVars, clientVars>>

\* ssh-add -l prompts while locked; Action::RequestUnlock always does.
ListIdentities ==
    /\ st.keys = None
    /\ Prompt
    /\ UNCHANGED <<signVars, subscribed>>

RequestUnlockAction ==
    /\ Prompt
    /\ UNCHANGED <<signVars, subscribed>>

\* Action::Subscribe and the end of the connection.  (The pending deep link a
\* new subscriber is handed does not matter here: it is never set.)
Subscribe(c) ==
    /\ c \notin subscribed
    /\ subscribed' = subscribed \cup {c}
    /\ UNCHANGED <<st, signVars, prompts>>

Disconnect(c) ==
    /\ c \in subscribed
    /\ subscribed' = subscribed \ {c}
    /\ prompts' = [prompts EXCEPT ![c] = 0]
    /\ UNCHANGED <<st, signVars>>
-----------------------------------------------------------------------------
Poll(s) == Wake(s) \/ TimeOut(s)

Next ==
    \/ \E s \in Signers : SignRequest(s) \/ Wake(s) \/ Expire(s)
                          \/ TimeOut(s) \/ SignAgain(s)
    \/ \E a \in Accounts : UnlockVault(a) \/ LoginVault(a)
    \/ SyncArrives \/ LockVault \/ Logout \/ ListIdentities \/ RequestUnlockAction
    \/ \E c \in Clients : Subscribe(c) \/ Disconnect(c)

Spec == Init /\ [][Next]_vars

\* A signer's future is polled once it can make progress; time passes, however
\* the vault locks and unlocks.
FairSpec == Spec /\ \A s \in Signers : WF_vars(Poll(s)) /\ SF_vars(Expire(s))
-----------------------------------------------------------------------------
(* Properties *)

\* One unlock prompt per lock period: however many sign, list and
\* RequestUnlock requests arrive, State::request_unlock sends a subscriber at
\* most one PinRequested or UnlockRequested between two calls of lock().
PromptedOnce == \A c \in Clients : prompts[c] <= 1

\* Every sign request is answered: the loop of sign_request cannot outlive
\* its deadline, however the vault locks and unlocks around it.
SignRequestsFinish ==
    \A s \in Signers : signer[s] = "waiting" ~> signer[s] \in Outcomes

\* No wake-up is lost: a request that waits is answered once the vault stays
\* unlocked or logged out.  (Its deadline passes, and its timer fires, only
\* while the session reads Locked, so this is the wake-up's doing.)
WakeupNotLost ==
    \A s \in Signers :
        <>[](st.session # "Locked") => [](signer[s] = "waiting" => <>(signer[s] # "waiting"))
=============================================================================
