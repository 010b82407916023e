---------------------------- MODULE MCVaultEdits ----------------------------
(* Vault edits of one entry of each type: the rows the client edits are    *)
(* secret, plain and custom ones, the notes and the name.                  *)
EXTENDS VaultEdits

CONSTANTS t1, t2

EditRows == {SlotRow("password"), SlotRow("number"), SlotRow("private_key"),
             SlotRow("email"), FieldRow("f1"), NotesRow, NameRow}

\* Requests overlap in a vault of secure notes without item keys, the smallest
\* entries: a pin, a sync or an unlock begins while another request is under way
\* and the client has no buffer open.  The codec treats the names, the notes and
\* the fields f1 of all types alike, but for those of an SSH key: they are edited
\* in fewer entries.
Dirty == draft'.dirty \cup task'[t1].edit.dirty
Live == {server[i] : i \in {i \in Ids : server[i].live}}
OverlapNext ==
    /\ Next
    /\ NameRow \in Dirty => \A e \in Live : e.ty = "SecureNote" /\ e.key # None
    /\ NotesRow \in Dirty => \A e \in Live : e.key = None
    /\ FieldRow("f1") \in Dirty => \A e \in Live : e.ty \in {"SshKey", "Login", "SecureNote"}
    /\ Idle(t2) /\ task'[t2] # task[t2] =>
           /\ ~Idle(t1) /\ ~draft.open /\ task'[t2].op \in {"fav", "sync"}
           /\ \A e \in {server[i] : i \in Ids} \cup {task[t1].req} : e.live => e.ty = "SecureNote" /\ e.key = None
OverlapSpec == Init /\ [][OverlapNext]_vars
=============================================================================
