-------------------------- MODULE PasswordHistory ---------------------------
(***************************************************************************)
(* What the password generator promises of its history: the passwords made *)
(* on this device can be read back for TTL seconds, unless the user        *)
(* deletes them.  Nothing here of files, keys, faults and crashes.         *)
(***************************************************************************)
EXTENDS Integers

CONSTANT TTL

VARIABLES
    entries,     \* the readable entries: [created_at, password]
    now          \* the clock, which may be set back
vars == <<entries, now>>

Init == entries = {} /\ now \in Nat

MayForget(e) == now - e.created_at > TTL
\* A new password, dated now; expired ones may go with the same write.
Add ==
    \E e \in entries' \ entries :
        /\ e.created_at = now /\ \A old \in entries : old.password # e.password
        /\ entries' \ entries = {e} /\ \A old \in entries \ entries' : MayForget(old)
    /\ UNCHANGED now
Forget ==
    entries' \subseteq entries /\ (\A e \in entries \ entries' : MayForget(e)) /\ UNCHANGED now
\* The user deletes an entry, which is named by its second.
Delete ==
    \E d \in entries : entries' = {e \in entries : e.created_at # d.created_at}
    /\ UNCHANGED now
Tick == now' \in Nat /\ UNCHANGED entries

Next == Add \/ Forget \/ Delete \/ Tick
Spec == Init /\ [][Next]_vars
=============================================================================
