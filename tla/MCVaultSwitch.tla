--------------------------- MODULE MCVaultSwitch ----------------------------
(***************************************************************************)
(* Two accounts.  Two instances in one: without PINs, one client logs in,  *)
(* to the same or to another account, while the other requests are in      *)
(* flight; or that client is away, there are PINs, and a login may find    *)
(* that it cannot save the config.                                         *)
(***************************************************************************)
EXTENDS VaultSession, TLC

CONSTANT Switcher   \* the tasks that only ever log in: the account switch

Symmetry == Permutations(Accounts) \cup Permutations(Tasks \ Switcher)

Pins == config.tpm \/ st.tpmConfigured \/ \E a \in Accounts : blob[a] # None
Away == \A t \in Switcher : tasks[t].pc = "away"

\* At the start, and after a restart with a PIN.
Leave ==
    /\ Init \/ Pins
    /\ \A t \in Switcher : tasks[t] = IdleTask
    /\ tasks' = [t \in Tasks |-> IF t \in Switcher THEN [IdleTask EXCEPT !.pc = "away"]
                                 ELSE tasks[t]]
    /\ UNCHANGED <<st, disk, queue>>

SwitchNext ==
    \/ Leave
    \/ Instant
    \/ \E t \in Tasks \ Switcher : Request(t)
    \/ \E t \in Switcher, a \in Accounts : LoginStart(t, a)
    \/ \E t \in Tasks : Answer(t) \/ Proceed(t)
SwitchSpec == Init /\ [][SwitchNext]_vars

\* The action constraint that keeps the instances apart.
InOneInstance ==
    IF Away THEN Away' \/ Pins'
    ELSE IF Pins THEN Away'
    ELSE ~Pins' /\ \A t \in Tasks : ~LoginPartial(t)
=============================================================================
