---------------------------- MODULE GenerateIcon ----------------------------
(***************************************************************************)
(* The extension's inline "generate password" icon on one page.  A page    *)
(* renders password fields while the content script runs; a rescan, 250 ms *)
(* after the last change, decorates the fields it finds.  An icon keeps    *)
(* the group of fields it was made with, and a click fills the whole group.*)
(* A field keeps its form and its autocomplete attribute.                  *)
(***************************************************************************)
EXTENDS Naturals, Sequences, FiniteSets

CONSTANTS
    Forms,          \* the page's <form> elements
    Registration,   \* those whose id, name, class or action look like a sign-up
    Root            \* the document: the scope of the fields outside any form

ASSUME FormsAssumption == Registration \subseteq Forms /\ Root \notin Forms

Scopes == Forms \cup {Root}
\* The autocomplete attribute.
Hints == {"none", "current-password", "new-password"}
Field == [scope : Scopes, hint : Hints]

\* `icons` maps a decorated field to its group, `asked` are the groups of the
\* clicks that wait for a password.
NewPage == [fields |-> <<>>, gone |-> {}, icons |-> <<>>, asked |-> <<>>, filled |-> {},
            dirty |-> FALSE]

Shown(p) == DOMAIN p.fields \ p.gone
\* A mutant without `seen`: the document's fields are those of its forms too.
FieldsOfNested(p, s) == IF s = Root THEN Shown(p) ELSE {i \in Shown(p) : p.fields[i].scope = s}
\* The fields of a scope: `seen` keeps a form's fields out of the document's.
FieldsOf(p, s) == {i \in Shown(p) : p.fields[i].scope = s}
NewPasswords(p, s) == {i \in FieldsOf(p, s) : p.fields[i].hint = "new-password"}
NonCurrent(p, s) == {i \in FieldsOf(p, s) : p.fields[i].hint # "current-password"}
LooksLikeRegistration(s) == s \in Registration

\* The fields of scope s that get an icon; none is {}.
PasswordGroupIn(p, s) ==
    IF NewPasswords(p, s) # {} THEN NewPasswords(p, s)
    ELSE IF Cardinality(NonCurrent(p, s)) >= 2 THEN NonCurrent(p, s)
    ELSE IF Cardinality(FieldsOf(p, s)) = 1 /\ LooksLikeRegistration(s) THEN NonCurrent(p, s)
    ELSE {}

\* A field that has an icon keeps it, and the group it was made with.
ScanAndDecorate(p) ==
    LET groups == {PasswordGroupIn(p, s) : s \in Scopes}
    IN [p EXCEPT !.dirty = FALSE,
                 !.icons = [i \in DOMAIN @ \cup UNION groups |->
                              IF i \in DOMAIN p.icons THEN p.icons[i]
                              ELSE CHOOSE g \in groups : i \in g]]

Rendered(p, f) == [p EXCEPT !.fields = Append(@, f), !.dirty = TRUE]
\* The page drops fields, of a form some or all ...
Dropped(p, fs) == [p EXCEPT !.gone = @ \cup fs, !.dirty = TRUE]
\* ... and a scroll or a resize drops the icons of fields that are gone; the others
\* keep their icons and their groups.
RepositionAll(p) == [p EXCEPT !.icons = [i \in DOMAIN @ \cap Shown(p) |-> p.icons[i]]]
Clicked(p, i) == [p EXCEPT !.asked = Append(@, p.icons[i])]
\* The answer, a password or a refusal.
OnGenerateAnswer(p, ok) ==
    [p EXCEPT !.asked = Tail(@), !.filled = IF ok THEN @ \cup Head(p.asked) ELSE @]

\* A password field of a form that is not a sign-up form, the only one the page has
\* ever put there beside fields marked as the current password.
LoginField(p, i) ==
    /\ p.fields[i].hint = "none"
    /\ ~LooksLikeRegistration(p.fields[i].scope)
    /\ {j \in DOMAIN p.fields : /\ p.fields[j].scope = p.fields[i].scope
                                /\ p.fields[j].hint # "current-password"} = {i}
\* A generated password is never written over a field marked as the current
\* password, nor over a field that has always been alone in a login form, in whatever
\* order the page adds and drops fields and the script scans it (passwordGroupsIn's
\* comment).  A field that once had a second one beside it keeps its icon when the
\* second goes, and is filled.
LoginFieldsUntouched(p) ==
    \A i \in p.filled \cap Shown(p) :
        p.fields[i].hint # "current-password" /\ ~LoginField(p, i)
=============================================================================
