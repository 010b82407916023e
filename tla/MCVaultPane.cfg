SPECIFICATION PaneSpec
CONSTANTS
    login = login
    note = note
    Nil = Nil
    Entries = {login, note}
    Gated = {note}
    SecureNotes = {note}
    MaxOps = 5
    MaxPending = 3
INVARIANTS
    PaneListFresh
    SelectionExists
CHECK_DEADLOCK FALSE
