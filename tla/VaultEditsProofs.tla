-------------------------- MODULE VaultEditsProofs --------------------------
(***************************************************************************)
(* Vault edits for any ids, entry types, requests in flight and rows, and  *)
(* any number of operations.                                               *)
(*                                                                         *)
(* Inv says that every cipher opens with its own keys; what an editor      *)
(* holds, row by row, relative to the copy it read; what a request on its  *)
(* way to the server carries; and that all versions of an id agree on the  *)
(* type and on the presence of an item key.  The paths of EntryCodec are   *)
(* first described by what they do to one slot and one custom field; an    *)
(* update is their composition.                                            *)
(***************************************************************************)
EXTENDS VaultEdits, SequenceTheorems, WellFoundedInduction, TLAPS

-----------------------------------------------------------------------------
(* The slots of the types                                                  *)

\* The eight types.
LEMMA TypesListed ==
    EntryTypes = {"Login", "SecureNote", "Card", "Identity", "SshKey", "BankAccount",
                  "DriversLicense", "Passport"}
  BY DEF EntryTypes, Slots

\* Redaction and merge name the same slots, and each path handles every slot of the
\* type; a PUT leaves only the fingerprint out.
LEMMA SlotsAgree ==
    ASSUME NEW ty \in EntryTypes
    PROVE  /\ RedactedSlots[ty] \subseteq Slots[ty] /\ MergedSlots[ty] = RedactedSlots[ty]
           /\ DecryptSlots[ty] = Slots[ty]
           /\ \A s \in Slots[ty] : s \in PutSlots[ty] \/ s = "fingerprint"
           /\ "public_key" \notin RedactedSlots[ty]
<1>1. CASE ty = "Login"
  BY <1>1 DEF RedactedSlots, Slots, MergedSlots, DecryptSlots, PutSlots, LoginSlots, DecryptLogin, PutLogin
<1>2. CASE ty = "SecureNote"
  BY <1>2 DEF RedactedSlots, Slots, MergedSlots, DecryptSlots, PutSlots
<1>3. CASE ty = "Card"
  BY <1>3 DEF RedactedSlots, Slots, MergedSlots, DecryptSlots, PutSlots, CardSlots, DecryptCard, PutCard
<1>4. CASE ty = "Identity"
  BY <1>4 DEF RedactedSlots, Slots, MergedSlots, DecryptSlots, PutSlots, IdentitySlots, DecryptIdentity, PutIdentity
<1>5. CASE ty = "SshKey"
  BY <1>5 DEF RedactedSlots, Slots, MergedSlots, DecryptSlots, PutSlots, SshSlots, DecryptSshKey, PutSshKey
<1>6. CASE ty = "BankAccount"
  BY <1>6 DEF RedactedSlots, Slots, MergedSlots, DecryptSlots, PutSlots, BankSlots, DecryptBank, PutBank
<1>7. CASE ty = "DriversLicense"
  BY <1>7 DEF RedactedSlots, Slots, MergedSlots, DecryptSlots, PutSlots, LicenseSlots, DecryptLicense, PutLicense
<1>8. CASE ty = "Passport"
  BY <1>8 DEF RedactedSlots, Slots, MergedSlots, DecryptSlots, PutSlots, PassportSlots, DecryptPassport, PutPassport
<1> QED
  BY <1>1, <1>2, <1>3, <1>4, <1>5, <1>6, <1>7, <1>8, TypesListed

\* The two slots of an SSH key that custom fields repeat.
SshNames == {"private_key", "public_key"}
LEMMA SshSlotsAre ==
    ASSUME NEW ty \in EntryTypes, NEW s \in SshNames
    PROVE  s \in Slots[ty] <=> ty = "SshKey"
  BY TypesListed DEF Slots, SshNames, LoginSlots, CardSlots, IdentitySlots, IdentityNames, SshSlots,
     BankSlots, LicenseSlots, PassportSlots

\* Every redacted slot can be fetched: a password and a TOTP seed are a login's.
LEMMA RedactedFetched ==
    ASSUME NEW ty \in EntryTypes, NEW s \in RedactedSlots[ty]
    PROVE  /\ s \in {"password", "totp"} => ty = "Login"
           /\ s \notin {"password", "totp"} => s \in PlaintextSlots[ty]
  BY TypesListed DEF RedactedSlots, PlaintextSlots

\* They are slots of the type.
LEMMA PlaintextAreSlots ==
    ASSUME NEW ty \in EntryTypes
    PROVE  PlaintextSlots[ty] \subseteq Slots[ty]
  BY TypesListed DEF PlaintextSlots, Slots, LoginSlots, CardSlots, IdentitySlots, SshSlots, BankSlots,
     LicenseSlots, PassportSlots

\* The slots of the detail rows and of the edit form have a label, and no two of a type the
\* same; none is "Notes" or the name of a field that repeats a slot of an SSH key.
LabelledSlots ==
    {"password", "totp", "number", "code", "private_key", "public_key",
     "account_number", "pin", "routing_number", "iban", "branch_number",
     "swift_code", "license_number", "ssn", "passport_number",
     "national_identification_number", "date_of_birth", "username", "fingerprint",
     "email", "cardholder_name", "brand"}
LEMMA LabelList == DOMAIN Label = LabelledSlots
  BY DEF Label, LabelledSlots
LEMMA LabelTexts ==
    /\ Label["password"] = Plain("Password") /\ Label["totp"] = Plain("TOTP")
    /\ Label["number"] = Plain("Card Number") /\ Label["code"] = Plain("Security Code")
    /\ Label["private_key"] = Plain("Private Key") /\ Label["public_key"] = Plain("Public Key")
    /\ Label["account_number"] = Plain("Account Number") /\ Label["pin"] = Plain("PIN")
    /\ Label["routing_number"] = Plain("Routing Number") /\ Label["iban"] = Plain("IBAN")
    /\ Label["branch_number"] = Plain("Branch Number") /\ Label["swift_code"] = Plain("SWIFT Code")
    /\ Label["license_number"] = Plain("License Number") /\ Label["ssn"] = Plain("SSN")
    /\ Label["passport_number"] = Plain("Passport Number")
    /\ Label["national_identification_number"] = Plain("National Identification Number")
    /\ Label["date_of_birth"] = Plain("Date of Birth") /\ Label["username"] = Plain("Username")
    /\ Label["fingerprint"] = Plain("Fingerprint") /\ Label["email"] = Plain("Email")
    /\ Label["cardholder_name"] = Plain("Cardholder") /\ Label["brand"] = Plain("Brand")
  BY DEF Label
LEMMA LabelOf ==
    ASSUME NEW s \in DOMAIN Label
    PROVE  Label[s] = Plain(Label[s].text) /\ Label[s].text \notin SshNames \cup {"Notes"}
<1>1. \A t : Plain(t).text = t
  BY DEF Plain
<1>2. PICK t \in
      {"Password", "TOTP", "Card Number", "Security Code", "Private Key",
       "Public Key", "Account Number", "PIN", "Routing Number", "IBAN",
       "Branch Number", "SWIFT Code", "License Number", "SSN", "Passport Number",
       "National Identification Number", "Date of Birth", "Username", "Fingerprint",
       "Email", "Cardholder", "Brand"} : Label[s] = Plain(t)
  BY LabelList, LabelTexts DEF LabelledSlots
<1>3. Label[s].text = t
  BY <1>1, <1>2
<1> QED
  BY <1>2, <1>3 DEF SshNames
LEMMA MainLabels ==
    ASSUME NEW s \in DOMAIN Label
    PROVE  /\ Label[s] = Label["password"] => s = "password"
           /\ Label[s] = Label["totp"] => s = "totp"
<1> DEFINE T == [v \in DOMAIN Label |-> Label[v].text]
<1>1. \A t : Plain(t).text = t
  BY DEF Plain
<1>2. T["password"] = "Password" /\ T["totp"] = "TOTP"
  BY <1>1, LabelList, LabelTexts DEF LabelledSlots
<1>3. ASSUME NEW v \in DOMAIN Label, v \notin {"password", "totp"}
      PROVE  T[v] # "Password" /\ T[v] # "TOTP"
  <2>1. PICK t \in
        {"Card Number", "Security Code", "Private Key", "Public Key", "Account Number", "PIN",
         "Routing Number", "IBAN", "Branch Number", "SWIFT Code", "License Number", "SSN",
         "Passport Number", "National Identification Number", "Date of Birth", "Username",
         "Fingerprint", "Email", "Cardholder", "Brand"} : Label[v] = Plain(t)
    BY <1>3, LabelList, LabelTexts DEF LabelledSlots
  <2>2. T[v] = t
    BY <1>1, <2>1
  <2> QED
    BY <2>1, <2>2
<1>4. T["password"] # T["totp"] /\ "password" \in DOMAIN Label /\ "totp" \in DOMAIN Label
  BY <1>2, LabelList DEF LabelledSlots
<1>5. \A v \in DOMAIN Label : Label[s] = Label[v] => T[s] = T[v]
  OBVIOUS
<1> HIDE DEF T
<1> QED
  BY <1>2, <1>3, <1>4, <1>5
LEMMA LabelsDiffer ==
    ASSUME NEW ty \in EntryTypes, NEW s \in PlaintextSlots[ty], NEW u \in PlaintextSlots[ty],
           Label[s] = Label[u]
    PROVE  s = u
<1>1. \A t : Plain(t).text = t
  BY DEF Plain
<1>2. CASE ty \in {"Login", "SecureNote", "DriversLicense"}
  BY <1>2, TypesListed DEF PlaintextSlots
<1>3. CASE ty = "Card"
  <2>1. /\ Label["number"].text = "Card Number" /\ Label["code"].text = "Security Code"
    BY <1>1, LabelTexts, Zenon
  <2> QED
    BY <1>3, <2>1 DEF PlaintextSlots
<1>4. CASE ty = "SshKey"
  <2>1. /\ Label["private_key"].text = "Private Key"
        /\ Label["public_key"].text = "Public Key"
    BY <1>1, LabelTexts, Zenon
  <2> QED
    BY <1>4, <2>1 DEF PlaintextSlots
<1>5. CASE ty = "BankAccount"
  <2>1. /\ Label["account_number"].text = "Account Number"
        /\ Label["routing_number"].text = "Routing Number" /\ Label["pin"].text = "PIN"
        /\ Label["iban"].text = "IBAN" /\ Label["swift_code"].text = "SWIFT Code"
        /\ Label["branch_number"].text = "Branch Number"
    BY <1>1, LabelTexts, Zenon
  <2> QED
    BY <1>5, <2>1 DEF PlaintextSlots
<1>6. CASE ty = "Identity"
  <2>1. /\ Label["ssn"].text = "SSN" /\ Label["license_number"].text = "License Number"
        /\ Label["passport_number"].text = "Passport Number"
    BY <1>1, LabelTexts, Zenon
  <2> QED
    BY <1>6, <2>1 DEF PlaintextSlots
<1>7. CASE ty = "Passport"
  <2>1. /\ Label["passport_number"].text = "Passport Number"
        /\ Label["national_identification_number"].text = "National Identification Number"
        /\ Label["date_of_birth"].text = "Date of Birth"
    BY <1>1, LabelTexts, Zenon
  <2> QED
    BY <1>7, <2>1 DEF PlaintextSlots
<1> QED
  BY <1>2, <1>3, <1>4, <1>5, <1>6, <1>7, TypesListed
LEMMA Labelled ==
    ASSUME NEW ty \in EntryTypes
    PROVE  RedactedSlots[ty] \cup PlaintextSlots[ty] \cup Editable[ty] \subseteq DOMAIN Label
<1>1. RedactedSlots[ty] \subseteq DOMAIN Label
  BY TypesListed DEF RedactedSlots, Label
<1>2. PlaintextSlots[ty] \subseteq DOMAIN Label
  BY TypesListed DEF PlaintextSlots, Label
<1>3. Editable[ty] \subseteq DOMAIN Label
  BY TypesListed DEF Editable, SshSlots, Label
<1> QED
  BY <1>1, <1>2, <1>3

\* The slots of a new entry go all the way to the server.
LEMMA AddSlotsSent ==
    ASSUME NEW ty \in EntryTypes, NEW s \in AddActionSlots[ty]
    PROVE  s \in Slots[ty] /\ s \in HandleAddSlots[ty] /\ s \in PostSlots[ty] /\ s \in PostBody[ty]
<1>1. CASE ty = "Login"
  BY <1>1 DEF AddActionSlots, Slots, HandleAddSlots, PostSlots, PostBody, LoginSlots, HandleAddLogin, PostLogin, AddCipherBody
<1>2. CASE ty = "SecureNote"
  BY <1>2 DEF AddActionSlots
<1>3. CASE ty = "Card"
  BY <1>3 DEF AddActionSlots, Slots, HandleAddSlots, PostSlots, PostBody, CardSlots, HandleAddCard, PostCard, AddCardBody
<1>4. CASE ty = "Identity"
  BY <1>4 DEF AddActionSlots, Slots, HandleAddSlots, PostSlots, PostBody, IdentitySlots, HandleAddIdentity, PostIdentity, AddIdentityBody
<1>5. CASE ty = "SshKey"
  BY <1>5 DEF AddActionSlots, Slots, HandleAddSlots, PostSlots, PostBody, SshSlots, HandleAddSshKey, PostSshKey, AddSshKeyBody
<1>6. CASE ty = "BankAccount"
  BY <1>6 DEF AddActionSlots, AddBankAccount, Slots, HandleAddSlots, PostSlots, PostBody, BankSlots, HandleAddBankAccount, PostBank, AddNewTypeCipherBody
<1>7. CASE ty = "DriversLicense"
  BY <1>7 DEF AddActionSlots, AddDriversLicense, Slots, HandleAddSlots, PostSlots, PostBody, LicenseSlots, HandleAddDriversLicense, PostLicense, AddNewTypeCipherBody
<1>8. CASE ty = "Passport"
  BY <1>8 DEF AddActionSlots, AddPassport, Slots, HandleAddSlots, PostSlots, PostBody, PassportSlots, HandleAddPassport, PostPassport, AddNewTypeCipherBody
<1> QED
  BY <1>1, <1>2, <1>3, <1>4, <1>5, <1>6, <1>7, <1>8, TypesListed

\* Uris and private keys are among them.
LEMMA SpecialSlotsSent ==
    ASSUME NEW ty \in EntryTypes, NEW s \in {"uri", "private_key"}, s \in Slots[ty]
    PROVE  s \in AddActionSlots[ty]
  BY TypesListed DEF AddActionSlots, Slots, LoginSlots, CardSlots, IdentitySlots, IdentityNames, SshSlots,
     BankSlots, LicenseSlots, PassportSlots

\* The rows of the edit form and of the CLI are slots of the type.
LEMMA EditedSlots ==
    ASSUME NEW ty \in EntryTypes
    PROVE  Editable[ty] \subseteq Slots[ty] /\ CliArguments[ty] \subseteq Slots[ty]
<1>1. Editable[ty] \subseteq Slots[ty]
  BY TypesListed DEF Editable, Slots, LoginSlots, CardSlots, IdentitySlots, IdentityNames, SshSlots
<1>2. CliArguments[ty] \subseteq Slots[ty]
  BY TypesListed DEF CliArguments, Slots, LoginSlots, SshSlots
<1> QED
  BY <1>1, <1>2
-----------------------------------------------------------------------------
(* The inductive invariant                                                 *)

\* The texts that occur: those typed, those of the server's entries, and the names of
\* custom fields.
Words == {"", "old", "new", "other", "item", "f1", "Password", "private_key", "public_key", "cipherstring"}
         \cup {row[2] : row \in Rows}
Value == Values(Words)
CustomField == Field(Words)
Datas == UNION {[Slots[ty] -> Value] : ty \in EntryTypes}
Entry ==
    {e \in [live : BOOLEAN, trashed : BOOLEAN, ty : EntryTypes, org : BOOLEAN,
            folder : BOOLEAN, fav : BOOLEAN, reprompt : BOOLEAN, key : Value,
            name : Value, notes : Value, data : Datas, match : {"none", "Domain", "Never"},
            fields : Seq(CustomField), history : SUBSET {"h"}] :
        e.data \in [Slots[e.ty] -> Value]}
AllRows == Rows \cup {SlotRow("password")} \cup {FieldRow(Label[s].text) : s \in DOMAIN Label}
Drafts == [open : BOOLEAN, id : Ids \cup {NoId}, entry : Entry, base : Entry,
           full : BOOLEAN, dirty : SUBSET AllRows]
TaskRecords == [op : Ops, id : Ids \cup {NoId}, fav : BOOLEAN, req : Entry,
                snap : [Ids -> Entry], snapOrg : BOOLEAN, stored : Entry,
                edit : Drafts, orgKeys : BOOLEAN]

\* An SSH key has at most one custom field for each of its two slots, a hidden one for
\* the private key.  A client compares the names it reads, the server has them sealed.
FieldTypeOf(n) == IF n = "private_key" THEN "Hidden" ELSE "Text"
OneField(fields, n) ==
    /\ \A i, j \in DOMAIN fields : fields[i].name = Plain(n) /\ fields[j].name = Plain(n) => i = j
    /\ \A i \in DOMAIN fields : fields[i].name = Plain(n) => fields[i].ty = FieldTypeOf(n)
PlainSsh(fields) == \A n \in SshNames : OneField(fields, n)
OneSealed(fields, n) ==
    /\ \A i, j \in DOMAIN fields : fields[i].name.text = n /\ fields[j].name.text = n => i = j
    /\ \A i \in DOMAIN fields : fields[i].name.text = n => fields[i].ty = FieldTypeOf(n)
SealedSsh(fields) == \A n \in SshNames : OneSealed(fields, n)

\* A cipher as the server has it: the agent's keys open it.
SealedOK(e) == e \in Entry /\ (e.live => Readable(e, TRUE)) /\ SealedSsh(e.fields)

\* What a client edits: the copy it read, with the rows it has typed into.
Clean(v) == v = None \/ v.by = "plain"
CleanBase(b) ==
    /\ b.name.by = "plain" => \A s \in Slots[b.ty] : Clean(b.data[s])
    /\ \A i \in DOMAIN b.fields : Clean(b.fields[i].value)
    /\ b.ty = "SshKey" => \A n \in SshNames, i \in DOMAIN b.fields :
           b.data[n] = None /\ b.fields[i].name = Plain(n) => b.fields[i].value = None
TypedIn(d, i) ==
    LET f == d.base.fields[i]
    IN /\ f.name.by = "plain" /\ FieldRow(f.name.text) \in d.dirty
       /\ \A j \in DOMAIN d.base.fields : d.base.fields[j].name = f.name => i <= j
SlotKept(d, s) ==
    IF SlotRow(s) \in d.dirty THEN d.entry.data[s].by = "plain"
    ELSE d.entry.data[s] =
         IF ~d.full /\ s \in RedactedSlots[d.base.ty] THEN None ELSE d.base.data[s]
FieldKept(d, i) ==
    LET f == d.entry.fields[i] b == d.base.fields[i]
    IN /\ f.name = b.name
       /\ IF TypedIn(d, i) THEN f.value.by = "plain"
          ELSE /\ f.ty = b.ty
               /\ f.value = IF ~d.full /\ b.ty = "Hidden" THEN None ELSE b.value
EditOK(d) ==
    /\ d.entry.ty = d.base.ty /\ d.entry.key = d.base.key
    /\ d.entry.history = d.base.history /\ d.entry.reprompt = d.base.reprompt
    /\ \A s \in Slots[d.base.ty] : SlotKept(d, s)
    /\ DOMAIN d.base.fields \subseteq DOMAIN d.entry.fields
    /\ \A i \in DOMAIN d.base.fields : FieldKept(d, i)
    /\ \A i \in DOMAIN d.entry.fields \ DOMAIN d.base.fields, n \in SshNames :
           d.entry.fields[i].name # Plain(n)
    /\ CleanBase(d.base) /\ PlainSsh(d.entry.fields)
\* A new entry: the same text in every slot.
NewForm(e) ==
    \E x \in Texts : /\ e.notes = Plain(x) /\ e.fields = <<>>
                     /\ e.data = [s \in Slots[e.ty] |-> Plain(x)]
DraftOK(d) ==
    /\ d \in Drafts
    /\ d.open /\ d.id = NoId => NewForm(d.entry)
    /\ d.open /\ d.id # NoId => EditOK(d)

\* The two properties of a request in flight.
PutOK(r) ==
    LET got == Decrypt(r.req, FALSE) IN
        r.op = "put" /\ Understood(r) =>
            /\ \A s \in DOMAIN got.data \ {"fingerprint"} : got.data[s] = Meant(r, s)
            /\ \A i \in DOMAIN r.edit.base.fields :
                  ~FollowsSlot(r, i) => MeantField(r, i, got.fields[i].value)
            /\ got.history = r.edit.base.history
            /\ got.reprompt = r.edit.base.reprompt
            /\ got.key = r.edit.base.key
PostOK(r) ==
    LET got == Decrypt(r.req, FALSE) IN
        r.op = "post" =>
            /\ got.notes = NonEmpty(r.edit.entry.notes)
            /\ \A s \in AddActionSlots[got.ty] \ {"uri", "private_key"} :
                  got.data[s] = NonEmpty(r.edit.entry.data[s])
            /\ \A s \in {"uri", "private_key"} \cap DOMAIN got.data :
                  got.data[s] = r.edit.entry.data[s]

\* Every version of an entry, wherever it is, has one type and has an item key or has
\* none; and an id has no version before the server has created it.
Kind(e) == <<e.ty, e.key = None>>
Kinds == [Ids -> EntryTypes \X BOOLEAN]
Of(K, srv, id, e) == srv[id] # Missing /\ e.live /\ Kind(e) = K[id]
DraftOf(K, srv, d) ==
    d.open /\ d.id # NoId => Of(K, srv, d.id, d.entry) /\ Of(K, srv, d.id, d.base)
Writes == {"put", "post", "delete", "fav"}
TaskOf(K, srv, r) ==
    /\ \A i \in Ids : r.snap[i].live => Of(K, srv, i, r.snap[i])
    /\ r.op \in Writes => r.id \in Ids
    /\ r.op \in {"put", "delete", "fav"} => srv[r.id] # Missing
    /\ r.op = "put" => Of(K, srv, r.id, r.req)
    /\ r.op = "post" => srv[r.id] = Missing
    /\ DraftOf(K, srv, r.edit)
OnePost(ks) ==
    \A t, u \in Tasks : ks[t].op = "post" /\ ks[u].op = "post" /\ ks[t].id = ks[u].id => t = u
KindsAre(K, srv, d, dr, ks) ==
    /\ \A i \in Ids : srv[i].live => Of(K, srv, i, srv[i])
    /\ \A i \in Ids : d[i].live => Of(K, srv, i, d[i])
    /\ DraftOf(K, srv, dr)
    /\ \A t \in Tasks : TaskOf(K, srv, ks[t])
KindsOK(srv, d, dr, ks) == OnePost(ks) /\ \E K \in Kinds : KindsAre(K, srv, d, dr, ks)

SealedAll(es) == es \in [Ids -> Entry] /\ \A i \in Ids : SealedOK(es[i])
TaskOK(r) ==
    /\ r \in TaskRecords
    /\ SealedOK(r.req) /\ SealedAll(r.snap) /\ DraftOK(r.edit)
    /\ PutOK(r) /\ PostOK(r) /\ (r.op = "post" => r.req.live)
TasksOK(ks) == ks \in [Tasks -> TaskRecords] /\ \A t \in Tasks : TaskOK(ks[t])

Inv ==
    /\ serverOrg \in BOOLEAN /\ protOrg \in BOOLEAN /\ orgKeys \in BOOLEAN /\ unlocked \in BOOLEAN
    /\ ops \in Nat
    /\ SealedAll(server) /\ SealedAll(db) /\ DraftOK(draft) /\ TasksOK(task)
    /\ PinsMatchEntries /\ KindsOK(server, db, draft, task)

-----------------------------------------------------------------------------
(* Values and fields                                                       *)

\* A nonempty set of numbers has a least one.
LEMMA Least ==
    ASSUME NEW S, S \subseteq Nat, S # {}
    PROVE  \E i \in S : \A j \in S : i <= j
<1> DEFINE R == {ss \in Nat \X Nat : ss[1] < ss[2]}
<1>1. IsWellFoundedOn(R, Nat)
  BY NatLessThanWellFounded DEF OpToRel
<1> HIDE DEF R
<1>2. PICK i \in S : \A j \in S : ~(<<j, i>> \in R)
  BY <1>1, WFMin
<1>3. \A j \in S : ~(j < i)
  BY <1>2 DEF R
<1> QED
  BY <1>3

\* The constants are values.
LEMMA NoneValue == None \in Value /\ Clean(None)
<1>1. "" \in Words
  BY DEF Words
<1>2. None \in Value
  BY <1>1 DEF Values, Value, None
<1> QED
  BY <1>2 DEF Clean

\* So is a plaintext.
LEMMA PlainValue ==
    ASSUME NEW t \in Words
    PROVE  Plain(t) \in Value /\ Plain(t) # None /\ Plain(t).by = "plain" /\ Plain(t).text = t
           /\ Clean(Plain(t))
<1>1. Plain(t).by = "plain" /\ Plain(t).text = t /\ None.by = "none"
  BY DEF Plain, None
<1>2. Plain(t) \in Value
  BY DEF Values, Value, Plain
<1> QED
  BY <1>1, <1>2 DEF Clean

\* The fields of a value, and a plaintext is its text.
LEMMA ValueParts ==
    ASSUME NEW v \in Value
    PROVE  /\ v.by \in {"none", "plain", "user", "org", "item"} /\ v.text \in Words
           /\ v.by = "plain" => v = Plain(v.text) /\ v # None
<1>1. v.by \in {"none", "plain", "user", "org", "item"} /\ v.text \in Words
  BY DEF Values, Value
<1>2. ASSUME v.by = "plain" PROVE v = Plain(v.text)
  BY <1>2 DEF Values, Value, Plain
<1> QED
  BY <1>1, <1>2, PlainValue

\* What is sealed is a value under that key; its text is the plaintext's, or that of no
\* name.
LEMMA EncFacts ==
    ASSUME NEW k \in {"user", "org", "item"}, NEW v \in Value
    PROVE  /\ Enc(k, v) \in Value
           /\ v = None => Enc(k, v) = None
           /\ v # None => Enc(k, v).by = k /\ Enc(k, v) # None
                          /\ Enc(k, v).text = (IF v.by = "plain" THEN v.text ELSE "cipherstring")
<1> DEFINE x == IF v.by = "plain" THEN v.text ELSE "cipherstring"
<1>1. x \in Words
  BY ValueParts DEF Words
<1>2. CASE v = None
  BY <1>2, NoneValue DEF Enc
<1>3. CASE v # None
  <2>1. Enc(k, v) = [by |-> k, text |-> x]
    BY <1>3 DEF Enc
  <2> HIDE DEF x
  <2>2. Enc(k, v).by = k /\ Enc(k, v).text = x /\ Enc(k, v) \in Value
    BY <1>1, <2>1 DEF Values, Value
  <2>3. None.by = "none"
    BY DEF None
  <2> QED
    BY <1>3, <2>2, <2>3, NoneValue DEF x
<1> QED
  BY <1>2, <1>3

\* Opening a value gives a plaintext or nothing; a name keeps its text.
LEMMA OpenFacts ==
    ASSUME NEW k, NEW v \in Value
    PROVE  /\ Dec(k, v) \in Value /\ DecOrKeep(k, v) \in Value /\ Clean(Dec(k, v))
           /\ DecOrKeep(k, v).text = v.text
           /\ v = None \/ v.by = k => Clean(DecOrKeep(k, v))
           /\ v.by = k => DecOrKeep(k, v) = Plain(v.text) /\ Dec(k, v) = Plain(v.text)
           /\ v.by # k => DecOrKeep(k, v) = v /\ Dec(k, v) = None
  BY ValueParts, PlainValue, NoneValue DEF Opens, Dec, DecOrKeep, Clean

\* What is sealed and opened again is the plaintext it was; the name of a field that is
\* kept in step with an SSH key is no other's.
SealsValue(k, v) ==
    /\ Enc(k, v) \in Value /\ (Enc(k, v) = None \/ Opens(k, Enc(k, v)))
    /\ Clean(v) => Dec(k, Enc(k, v)) = v /\ DecOrKeep(k, Enc(k, v)) = v
    /\ \A n \in SshNames : Enc(k, v).text = n => v = Plain(n)
    /\ \A n \in SshNames : DecOrKeep(k, Enc(k, v)) = Plain(n) => v = Plain(n)
LEMMA ValueFacts ==
    ASSUME NEW k \in {"user", "org", "item"}, NEW v \in Value
    PROVE  SealsValue(k, v)
<1>1. Enc(k, v) \in Value /\ (Enc(k, v) = None \/ Opens(k, Enc(k, v)))
  BY EncFacts, NoneValue DEF Opens
<1>2. None.text = "" /\ None.by = "none"
  BY DEF None
<1>3. ASSUME Clean(v) PROVE Dec(k, Enc(k, v)) = v /\ DecOrKeep(k, Enc(k, v)) = v
  <2>1. CASE v = None
    <3>1. Enc(k, v) = None
      BY <2>1, EncFacts
    <3>2. Dec(k, None) = None /\ DecOrKeep(k, None) = None
      BY <1>2 DEF Dec, DecOrKeep, Opens
    <3> QED
      BY <2>1, <3>1, <3>2
  <2>2. CASE v.by = "plain" /\ v # None
    <3>1. Enc(k, v).by = k /\ Enc(k, v).text = v.text
      BY <2>2, EncFacts
    <3> QED
      BY <1>1, <2>2, <3>1, OpenFacts, ValueParts
  <2> QED
    BY <1>3, <2>1, <2>2 DEF Clean
<1>4. ASSUME NEW n \in SshNames, Enc(k, v).text = n PROVE v = Plain(n)
  <2>1. n # "" /\ n # "cipherstring"
    BY DEF SshNames
  <2>2. v # None
    BY <1>2, <1>4, <2>1, EncFacts
  <2>3. v.by = "plain" /\ v.text = n
    BY <1>4, <2>1, <2>2, EncFacts
  <2> QED
    BY <2>3, ValueParts
<1>5. ASSUME NEW n \in SshNames, DecOrKeep(k, Enc(k, v)) = Plain(n) PROVE v = Plain(n)
  <2>1. DecOrKeep(k, Enc(k, v)).text = Enc(k, v).text
    BY <1>1, OpenFacts
  <2>2. Plain(n).text = n
    BY DEF Plain
  <2> QED
    BY <1>4, <1>5, <2>1, <2>2
<1> QED
  BY <1>1, <1>3, <1>4, <1>5 DEF SealsValue

-----------------------------------------------------------------------------
(* Entries                                                                 *)

\* The fields of an entry have their types.
LEMMA EntryParts ==
    ASSUME NEW e \in Entry
    PROVE  /\ e.live \in BOOLEAN /\ e.trashed \in BOOLEAN /\ e.org \in BOOLEAN /\ e.folder \in BOOLEAN
           /\ e.fav \in BOOLEAN /\ e.reprompt \in BOOLEAN
           /\ e.ty \in EntryTypes /\ e.key \in Value /\ e.name \in Value /\ e.notes \in Value
           /\ e.data \in [Slots[e.ty] -> Value] /\ e.match \in {"none", "Domain", "Never"}
           /\ e.fields \in Seq(CustomField) /\ e.history \in SUBSET {"h"}
  BY DEF Entry

\* A type's slots with values are data.
LEMMA DataTyped ==
    ASSUME NEW ty \in EntryTypes, NEW f \in [Slots[ty] -> Value]
    PROVE  f \in Datas
  BY DEF Datas

\* What the steps on an entry leave alone.
SameHead(d, e) ==
    /\ d.live = e.live /\ d.trashed = e.trashed /\ d.ty = e.ty /\ d.org = e.org /\ d.folder = e.folder
    /\ d.fav = e.fav /\ d.reprompt = e.reprompt /\ d.match = e.match /\ d.history = e.history

\* An entry with other texts is an entry.
Rewrites(d, e, key, name, notes, data, fields) ==
    /\ e \in Entry /\ key \in Value /\ name \in Value /\ notes \in Value
    /\ data \in [Slots[e.ty] -> Value] /\ fields \in Seq(CustomField)
    /\ d = [e EXCEPT !.key = key, !.name = name, !.notes = notes, !.data = data, !.fields = fields]
LEMMA Rewritten ==
    ASSUME NEW d, NEW e, NEW key, NEW name, NEW notes, NEW data, NEW fields,
           Rewrites(d, e, key, name, notes, data, fields)
    PROVE  /\ d \in Entry /\ SameHead(d, e)
           /\ d.key = key /\ d.name = name /\ d.notes = notes /\ d.data = data /\ d.fields = fields
<1> USE DEF Rewrites
<1>1. data \in Datas
  BY EntryParts, DataTyped
<1>2. /\ SameHead(d, e)
      /\ d.key = key /\ d.name = name /\ d.notes = notes /\ d.data = data /\ d.fields = fields
  BY DEF Entry, SameHead
<1>3. d \in [live : BOOLEAN, trashed : BOOLEAN, ty : EntryTypes, org : BOOLEAN,
             folder : BOOLEAN, fav : BOOLEAN, reprompt : BOOLEAN, key : Value,
             name : Value, notes : Value, data : Datas, match : {"none", "Domain", "Never"},
             fields : Seq(CustomField), history : SUBSET {"h"}]
  BY <1>1 DEF Entry
<1>4. d.ty = e.ty /\ d.data \in [Slots[d.ty] -> Value]
  BY <1>2 DEF SameHead
<1> HIDE DEF Rewrites
<1>5. d \in Entry
  BY <1>3, <1>4 DEF Entry
<1> QED
  BY <1>2, <1>5

\* A field by field rewriting of a sequence is a sequence.
Maps(g, s) == g = [i \in DOMAIN s |-> g[i]]
LEMMA MapSeq ==
    ASSUME NEW S, NEW T, NEW s \in Seq(S), NEW g, Maps(g, s),
           \A i \in DOMAIN s : g[i] \in T
    PROVE  g \in Seq(T) /\ DOMAIN g = DOMAIN s /\ Len(g) = Len(s)
<1>1. DOMAIN s = 1 .. Len(s) /\ Len(s) \in Nat
  OBVIOUS
<1>2. g \in [1 .. Len(s) -> T]
  BY <1>1 DEF Maps
<1> QED
  BY <1>1, <1>2

\* A custom field has its parts.
LEMMA FieldParts ==
    ASSUME NEW fields \in Seq(CustomField), NEW i \in DOMAIN fields
    PROVE  /\ fields[i] \in CustomField /\ fields[i].name \in Value /\ fields[i].value \in Value
           /\ fields[i].ty \in {"Text", "Hidden"}
<1>1. fields[i] \in CustomField
  OBVIOUS
<1> QED
  BY <1>1 DEF CustomField, Field, FieldTypes, Value

\* A custom field with other values is one.
RewritesField(g, f, name, value) ==
    /\ f \in CustomField /\ name \in Value /\ value \in Value
    /\ g = [f EXCEPT !.name = name, !.value = value]
LEMMA FieldRewritten ==
    ASSUME NEW g, NEW f, NEW name, NEW value, RewritesField(g, f, name, value)
    PROVE  g \in CustomField /\ g.name = name /\ g.value = value /\ g.ty = f.ty
  BY DEF CustomField, Field, FieldTypes, Value, RewritesField
-----------------------------------------------------------------------------
(* Reading an entry                                                        *)

\* Unsealing the custom fields keeps their number, types and texts.
LEMMA DecryptFieldsFacts ==
    ASSUME NEW e \in Entry, NEW k, NEW fs, fs = DecryptFields(e, k)
    PROVE  /\ fs \in Seq(CustomField) /\ DOMAIN fs = DOMAIN e.fields
           /\ \A i \in DOMAIN e.fields : /\ fs[i].name = DecOrKeep(k, e.fields[i].name)
                                         /\ fs[i].value = Dec(k, e.fields[i].value)
                                         /\ fs[i].ty = e.fields[i].ty
<1>1. e.fields \in Seq(CustomField)
  BY EntryParts
<1>2. fs = [i \in DOMAIN e.fields |-> [e.fields[i] EXCEPT !.name = DecOrKeep(k, @), !.value = Dec(k, @)]]
  BY DEF DecryptFields
<1>3. ASSUME NEW i \in DOMAIN e.fields
      PROVE  /\ fs[i] \in CustomField /\ fs[i].ty = e.fields[i].ty
             /\ fs[i].name = DecOrKeep(k, e.fields[i].name) /\ fs[i].value = Dec(k, e.fields[i].value)
  <2>1. e.fields[i] \in CustomField /\ e.fields[i].name \in Value /\ e.fields[i].value \in Value
    BY <1>1, FieldParts
  <2>2. DecOrKeep(k, e.fields[i].name) \in Value /\ Dec(k, e.fields[i].value) \in Value
    BY <2>1, OpenFacts
  <2>3. fs[i] = [e.fields[i] EXCEPT !.name = DecOrKeep(k, e.fields[i].name), !.value = Dec(k, e.fields[i].value)]
    BY <1>2, <2>1 DEF CustomField, Field
  <2>4. RewritesField(fs[i], e.fields[i], DecOrKeep(k, e.fields[i].name), Dec(k, e.fields[i].value))
    BY <2>1, <2>2, <2>3 DEF RewritesField
  <2> QED
    BY <2>4, FieldRewritten
<1>4. Maps(fs, e.fields)
  BY <1>2 DEF Maps
<1>5. fs \in Seq(CustomField) /\ DOMAIN fs = DOMAIN e.fields
  BY <1>1, <1>3, <1>4, MapSeq
<1> QED
  BY <1>3, <1>5

\* The fallback for a slot of an SSH key is the value of a field of that name, or nothing.
LEMMA LastFieldFacts ==
    ASSUME NEW fields \in Seq(CustomField), NEW n
    PROVE  \/ LastField(fields, n) = None /\ \A i \in DOMAIN fields : fields[i].name # Plain(n)
           \/ \E i \in DOMAIN fields : fields[i].name = Plain(n) /\ LastField(fields, n) = fields[i].value
<1> DEFINE named == {i \in DOMAIN fields : fields[i].name = Plain(n)}
           flipped == {Len(fields) - i : i \in named}
           last == CHOOSE i \in named : \A j \in named : j <= i
<1>1. DOMAIN fields = 1 .. Len(fields) /\ Len(fields) \in Nat
  OBVIOUS
<1>2. CASE named = {}
  BY <1>2 DEF LastField
<1>3. CASE named # {}
  <2>1. flipped \subseteq Nat /\ flipped # {}
    BY <1>1, <1>3
  <2>2. PICK m \in flipped : \A j \in flipped : m <= j
    BY <2>1, Least
  <2>3. PICK i \in named : m = Len(fields) - i
    OBVIOUS
  <2>4. ASSUME NEW j \in named PROVE j <= i
    <3>1. m <= Len(fields) - j
      BY <2>2
    <3> QED
      BY <1>1, <2>3, <3>1
  <2>5. last \in named
    BY <2>4
  <2>6. LastField(fields, n) = fields[last].value
    BY <1>3 DEF LastField
  <2> HIDE DEF last
  <2> QED
    BY <2>5, <2>6
<1> QED
  BY <1>2, <1>3

\* It is a value, and a plaintext if those of the fields are.
LEMMA LastFieldValue ==
    ASSUME NEW fields \in Seq(CustomField), NEW n
    PROVE  /\ LastField(fields, n) \in Value
           /\ (\A i \in DOMAIN fields : Clean(fields[i].value)) => Clean(LastField(fields, n))
           /\ (\A i \in DOMAIN fields : fields[i].name = Plain(n) => fields[i].value = None)
                 => LastField(fields, n) = None
           /\ LastField(fields, n) = None
              /\ (\A i, j \in DOMAIN fields : fields[i].name = Plain(n) /\ fields[j].name = Plain(n) => i = j)
              => \A i \in DOMAIN fields : fields[i].name = Plain(n) => fields[i].value = None
<1>1. CASE LastField(fields, n) = None /\ \A i \in DOMAIN fields : fields[i].name # Plain(n)
  BY <1>1, NoneValue
<1>2. ASSUME NEW i \in DOMAIN fields, fields[i].name = Plain(n), LastField(fields, n) = fields[i].value
      PROVE  /\ LastField(fields, n) \in Value
             /\ (\A j \in DOMAIN fields : Clean(fields[j].value)) => Clean(LastField(fields, n))
             /\ (\A j \in DOMAIN fields : fields[j].name = Plain(n) => fields[j].value = None)
                   => LastField(fields, n) = None
             /\ LastField(fields, n) = None
                /\ (\A u, v \in DOMAIN fields : fields[u].name = Plain(n) /\ fields[v].name = Plain(n) => u = v)
                => \A j \in DOMAIN fields : fields[j].name = Plain(n) => fields[j].value = None
  BY <1>2, FieldParts
<1> QED
  BY <1>1, <1>2, LastFieldFacts

\* DecryptData opens the slots one by one.
LEMMA DecryptDataFacts ==
    ASSUME NEW e \in Entry, NEW k, NEW da, da = DecryptData(e, k)
    PROVE  /\ da \in [Slots[e.ty] -> Value]
           /\ \A s \in Slots[e.ty] : da[s] = IF s = "uri" THEN DecOrKeep(k, e.data[s]) ELSE Dec(k, e.data[s])
<1>1. e.ty \in EntryTypes /\ e.data \in [Slots[e.ty] -> Value] /\ DecryptSlots[e.ty] = Slots[e.ty]
  BY EntryParts, SlotsAgree
<1>2. da = [s \in Slots[e.ty] |-> IF s = "uri" THEN DecOrKeep(k, e.data[s]) ELSE Dec(k, e.data[s])]
  BY <1>1 DEF DecryptData
<1>3. \A s \in Slots[e.ty] : DecOrKeep(k, e.data[s]) \in Value /\ Dec(k, e.data[s]) \in Value
  BY <1>1, OpenFacts
<1> QED
  BY <1>2, <1>3

\* SshFallback fills the two slots of an SSH key from the fields.
LEMMA FallbackFacts ==
    ASSUME NEW da \in [Slots["SshKey"] -> Value], NEW fields \in Seq(CustomField),
           NEW g, g = SshFallback(da, fields)
    PROVE  /\ g \in [Slots["SshKey"] -> Value]
           /\ \A s \in Slots["SshKey"] :
                 g[s] = IF s \in SshNames /\ da[s] = None THEN LastField(fields, s) ELSE da[s]
<1>1. LastField(fields, "private_key") \in Value /\ LastField(fields, "public_key") \in Value
  BY LastFieldValue
<1>2. "private_key" \in Slots["SshKey"] /\ "public_key" \in Slots["SshKey"]
  BY DEF Slots, SshSlots
<1>3. g = [da EXCEPT
             !["private_key"] = IF da["private_key"] = None THEN LastField(fields, "private_key") ELSE da["private_key"],
             !["public_key"] = IF da["public_key"] = None THEN LastField(fields, "public_key") ELSE da["public_key"]]
  BY <1>2 DEF SshFallback
<1> QED
  BY <1>1, <1>2, <1>3 DEF SshNames

\* Entry::decrypt, slot by slot and field by field.
OpenedSlot(e, k, s) == IF s = "uri" THEN DecOrKeep(k, e.data[s]) ELSE Dec(k, e.data[s])
Reads(d, e, k) ==
    /\ d \in Entry /\ SameHead(d, e) /\ d.key = e.key
    /\ d.name = DecOrKeep(k, e.name) /\ d.notes = DecOrKeep(k, e.notes)
    /\ DOMAIN d.fields = DOMAIN e.fields
    /\ \A i \in DOMAIN e.fields : /\ d.fields[i].name = DecOrKeep(k, e.fields[i].name)
                                  /\ d.fields[i].value = Dec(k, e.fields[i].value)
                                  /\ d.fields[i].ty = e.fields[i].ty
    /\ \A s \in Slots[e.ty] :
          d.data[s] = IF e.ty = "SshKey" /\ s \in SshNames /\ OpenedSlot(e, k, s) = None
                      THEN LastField(d.fields, s) ELSE OpenedSlot(e, k, s)
LEMMA DecryptFacts ==
    ASSUME NEW e \in Entry, NEW o
    PROVE  Reads(Decrypt(e, o), e, EntryKey(e, o))
<1> DEFINE d == Decrypt(e, o)
           k == EntryKey(e, o)
<1> SUFFICES Reads(d, e, k)
  OBVIOUS
<1>0. d = Decrypt(e, o)
  OBVIOUS
<1> DEFINE da == DecryptData(e, k)
           fs == DecryptFields(e, k)
           dd == IF e.ty = "SshKey" THEN SshFallback(da, fs) ELSE da
<1>1. /\ e.ty \in EntryTypes /\ e.key \in Value /\ e.name \in Value /\ e.notes \in Value
      /\ e.data \in [Slots[e.ty] -> Value]
  BY EntryParts
<1>2. DecOrKeep(k, e.name) \in Value /\ DecOrKeep(k, e.notes) \in Value
  BY <1>1, OpenFacts
<1>3. /\ fs \in Seq(CustomField) /\ DOMAIN fs = DOMAIN e.fields
      /\ \A i \in DOMAIN e.fields : /\ fs[i].name = DecOrKeep(k, e.fields[i].name)
                                    /\ fs[i].value = Dec(k, e.fields[i].value)
                                    /\ fs[i].ty = e.fields[i].ty
  BY DecryptFieldsFacts
<1>4. da \in [Slots[e.ty] -> Value] /\ \A s \in Slots[e.ty] : da[s] = OpenedSlot(e, k, s)
  BY DecryptDataFacts DEF OpenedSlot
<1>5. d = [e EXCEPT !.key = e.key, !.name = DecOrKeep(k, e.name), !.notes = DecOrKeep(k, e.notes),
                    !.data = dd, !.fields = fs]
  <2>1. d = [e EXCEPT !.name = DecOrKeep(k, e.name), !.notes = DecOrKeep(k, e.notes),
                      !.fields = fs, !.data = dd]
    BY DEF Decrypt, Entry
  <2> HIDE DEF dd, fs, d, k
  <2> QED
    BY <2>1 DEF Entry
<1>6. /\ dd \in [Slots[e.ty] -> Value]
      /\ \A s \in Slots[e.ty] :
            dd[s] = IF e.ty = "SshKey" /\ s \in SshNames /\ OpenedSlot(e, k, s) = None
                    THEN LastField(fs, s) ELSE OpenedSlot(e, k, s)
  <2> HIDE DEF da, fs
  <2>1. CASE e.ty = "SshKey"
    BY <1>3, <1>4, <2>1, FallbackFacts
  <2>2. CASE e.ty # "SshKey"
    BY <1>4, <2>2
  <2> QED
    BY <2>1, <2>2
<1> HIDE DEF dd, da, d, k
<1>7. /\ d \in Entry /\ SameHead(d, e) /\ d.key = e.key
      /\ d.name = DecOrKeep(k, e.name) /\ d.notes = DecOrKeep(k, e.notes)
      /\ d.fields = fs /\ d.data = dd
  <2> HIDE DEF fs
  <2>1. Rewrites(d, e, e.key, DecOrKeep(k, e.name), DecOrKeep(k, e.notes), dd, fs)
    BY <1>1, <1>2, <1>3, <1>5, <1>6 DEF Rewrites
  <2> QED
    BY <2>1, Rewritten
<1> HIDE DEF fs
<1> QED
  BY <1>3, <1>6, <1>7 DEF Reads

\* redact_entry_secrets: the secret slots, the notes and the hidden fields lose their
\* values.
Redacts(d, e) ==
    /\ d \in Entry /\ SameHead(d, e) /\ d.key = e.key /\ d.name = e.name /\ d.notes = None
    /\ \A s \in Slots[e.ty] : d.data[s] = IF s \in RedactedSlots[e.ty] THEN None ELSE e.data[s]
    /\ DOMAIN d.fields = DOMAIN e.fields
    /\ \A i \in DOMAIN e.fields :
          /\ d.fields[i].name = e.fields[i].name /\ d.fields[i].ty = e.fields[i].ty
          /\ d.fields[i].value = IF e.fields[i].ty = "Hidden" THEN None ELSE e.fields[i].value
LEMMA RedactFacts ==
    ASSUME NEW e \in Entry
    PROVE  Redacts(Redact(e), e)
<1> DEFINE d == Redact(e)
<1> SUFFICES Redacts(d, e)
  OBVIOUS
<1> DEFINE da == [s \in Slots[e.ty] |-> IF s \in RedactedSlots[e.ty] THEN None ELSE e.data[s]]
           fs == [i \in DOMAIN e.fields |-> IF e.fields[i].ty = "Hidden"
                                            THEN [e.fields[i] EXCEPT !.value = None] ELSE e.fields[i]]
<1>1. /\ e.key \in Value /\ e.name \in Value /\ e.data \in [Slots[e.ty] -> Value]
      /\ e.fields \in Seq(CustomField)
  BY EntryParts
<1>2. da \in [Slots[e.ty] -> Value]
  BY <1>1, NoneValue
<1>3. ASSUME NEW i \in DOMAIN e.fields
      PROVE  /\ fs[i] \in CustomField /\ fs[i].name = e.fields[i].name /\ fs[i].ty = e.fields[i].ty
             /\ fs[i].value = IF e.fields[i].ty = "Hidden" THEN None ELSE e.fields[i].value
  <2>1. e.fields[i] \in CustomField
    BY <1>1, FieldParts
  <2>2. CASE e.fields[i].ty = "Hidden"
    BY <2>1, <2>2, NoneValue DEF CustomField, Field, Value
  <2>3. CASE e.fields[i].ty # "Hidden"
    BY <2>1, <2>3
  <2> QED
    BY <2>2, <2>3
<1>4. fs \in Seq(CustomField) /\ DOMAIN fs = DOMAIN e.fields
  <2>1. Maps(fs, e.fields)
    BY DEF Maps
  <2> HIDE DEF fs
  <2> QED
    BY <1>1, <1>3, <2>1, MapSeq
<1>5. d = [e EXCEPT !.key = e.key, !.name = e.name, !.notes = None, !.data = da, !.fields = fs]
  <2>1. d = [e EXCEPT !.data = da, !.notes = None, !.fields = fs]
    BY <1>1 DEF Redact, Entry
  <2> HIDE DEF da, fs
  <2> QED
    BY <2>1 DEF Entry
<1>6. Rewrites(d, e, e.key, e.name, None, da, fs)
  <2> HIDE DEF da, fs
  <2> QED
    BY <1>1, <1>2, <1>4, <1>5, NoneValue DEF Rewrites
<1>7. /\ d \in Entry /\ SameHead(d, e) /\ d.key = e.key /\ d.name = e.name /\ d.notes = None
      /\ d.data = da /\ d.fields = fs
  <2> HIDE DEF da, fs
  <2> QED
    BY <1>6, Rewritten
<1>8. \A s \in Slots[e.ty] : da[s] = IF s \in RedactedSlots[e.ty] THEN None ELSE e.data[s]
  OBVIOUS
<1> HIDE DEF da, fs
<1> QED
  BY <1>3, <1>4, <1>7, <1>8 DEF Redacts

-----------------------------------------------------------------------------
(* The update on its way                                                   *)

\* The stored value for a redacted field is that of a hidden field of its name, or none.
LEMMA StoredHiddenFacts ==
    ASSUME NEW e \in Entry, NEW n
    PROVE  /\ StoredHidden(e, n) \in Value
           /\ \/ StoredHidden(e, n) = None
                 /\ \A i \in DOMAIN e.fields : ~(e.fields[i].name = n /\ e.fields[i].ty = "Hidden")
              \/ \E i \in DOMAIN e.fields : /\ e.fields[i].name = n /\ e.fields[i].ty = "Hidden"
                                            /\ StoredHidden(e, n) = e.fields[i].value
<1> DEFINE named == {i \in DOMAIN e.fields : e.fields[i].name = n /\ e.fields[i].ty = "Hidden"}
           first == CHOOSE i \in named : \A j \in named : i <= j
<1>1. e.fields \in Seq(CustomField)
  BY EntryParts
<1>2. named \subseteq Nat
  BY <1>1
<1>3. CASE named = {}
  BY <1>3, NoneValue DEF StoredHidden
<1>4. CASE named # {}
  <2>1. first \in named
    BY <1>2, <1>4, Least
  <2>2. StoredHidden(e, n) = e.fields[first].value
    BY <1>4 DEF StoredHidden
  <2> HIDE DEF first
  <2>3. e.fields[first].value \in Value
    BY <1>1, <2>1, FieldParts
  <2> QED
    BY <2>1, <2>2, <2>3
<1> QED
  BY <1>3, <1>4

\* merge_redacted_secrets, slot by slot and field by field.
Merges(d, e, stored) ==
    /\ d \in Entry /\ SameHead(d, e) /\ d.name = e.name /\ d.notes = e.notes
    /\ d.key = IF e.key = None THEN stored.key ELSE e.key
    /\ \A s \in Slots[e.ty] :
          d.data[s] = IF e.data[s] = None /\ e.ty = stored.ty /\ s \in RedactedSlots[e.ty]
                      THEN stored.data[s] ELSE e.data[s]
    /\ DOMAIN d.fields = DOMAIN e.fields
    /\ \A i \in DOMAIN e.fields :
          /\ d.fields[i].name = e.fields[i].name /\ d.fields[i].ty = e.fields[i].ty
          /\ d.fields[i].value = IF e.fields[i].ty = "Hidden" /\ e.fields[i].value = None
                                 THEN StoredHidden(stored, e.fields[i].name)
                                 ELSE e.fields[i].value
LEMMA MergeFacts ==
    ASSUME NEW e \in Entry, NEW stored \in Entry
    PROVE  Merges(MergeRedactedSecrets(e, stored), e, stored)
<1> DEFINE d == MergeRedactedSecrets(e, stored)
<1> SUFFICES Merges(d, e, stored)
  OBVIOUS
<1> DEFINE ke == IF e.key = None THEN stored.key ELSE e.key
           da == [s \in Slots[e.ty] |->
                     IF e.data[s] = None /\ e.ty = stored.ty /\ s \in RedactedSlots[e.ty]
                     THEN stored.data[s] ELSE e.data[s]]
           fs == [i \in DOMAIN e.fields |->
                     IF e.fields[i].ty = "Hidden" /\ e.fields[i].value = None
                     THEN [e.fields[i] EXCEPT !.value = StoredHidden(stored, e.fields[i].name)]
                     ELSE e.fields[i]]
<1>1. /\ e.key \in Value /\ e.name \in Value /\ e.notes \in Value /\ e.data \in [Slots[e.ty] -> Value]
      /\ e.fields \in Seq(CustomField) /\ e.ty \in EntryTypes
      /\ stored.key \in Value /\ stored.data \in [Slots[stored.ty] -> Value]
  BY EntryParts
<1>2. MergedSlots[e.ty] = RedactedSlots[e.ty]
  BY <1>1, SlotsAgree
<1>3. da \in [Slots[e.ty] -> Value] /\ ke \in Value
  BY <1>1
<1>4. ASSUME NEW i \in DOMAIN e.fields
      PROVE  /\ fs[i] \in CustomField /\ fs[i].name = e.fields[i].name /\ fs[i].ty = e.fields[i].ty
             /\ fs[i].value = IF e.fields[i].ty = "Hidden" /\ e.fields[i].value = None
                              THEN StoredHidden(stored, e.fields[i].name) ELSE e.fields[i].value
  <2>1. e.fields[i] \in CustomField
    BY <1>1, FieldParts
  <2>2. StoredHidden(stored, e.fields[i].name) \in Value
    BY StoredHiddenFacts
  <2>3. CASE e.fields[i].ty = "Hidden" /\ e.fields[i].value = None
    BY <2>1, <2>2, <2>3 DEF CustomField, Field, Value
  <2>4. CASE ~(e.fields[i].ty = "Hidden" /\ e.fields[i].value = None)
    BY <2>1, <2>4
  <2> QED
    BY <2>3, <2>4
<1>5. fs \in Seq(CustomField) /\ DOMAIN fs = DOMAIN e.fields
  <2>1. Maps(fs, e.fields)
    BY DEF Maps
  <2> HIDE DEF fs
  <2> QED
    BY <1>1, <1>4, <2>1, MapSeq
<1>6. d = [e EXCEPT !.key = ke, !.name = e.name, !.notes = e.notes, !.data = da, !.fields = fs]
  <2>1. d = [e EXCEPT !.key = ke, !.data = da, !.fields = fs]
    BY <1>1, <1>2 DEF MergeRedactedSecrets, Entry
  <2> HIDE DEF ke, da, fs
  <2> QED
    BY <2>1 DEF Entry
<1>7. Rewrites(d, e, ke, e.name, e.notes, da, fs)
  <2> HIDE DEF ke, da, fs
  <2> QED
    BY <1>1, <1>3, <1>5, <1>6 DEF Rewrites
<1>8. /\ d \in Entry /\ SameHead(d, e) /\ d.key = ke /\ d.name = e.name /\ d.notes = e.notes
      /\ d.data = da /\ d.fields = fs
  <2> HIDE DEF ke, da, fs
  <2> QED
    BY <1>7, Rewritten
<1>9. \A s \in Slots[e.ty] : da[s] = IF e.data[s] = None /\ e.ty = stored.ty /\ s \in RedactedSlots[e.ty]
                                     THEN stored.data[s] ELSE e.data[s]
  OBVIOUS
<1> HIDE DEF da, fs
<1> QED
  BY <1>4, <1>5, <1>8, <1>9 DEF Merges

\* Entry::set_field: old and new fields agree but for the first of that name, or for a new
\* one at the end.
SetsField(new, old, n, v, ty) ==
    /\ new \in Seq(CustomField) /\ DOMAIN old \subseteq DOMAIN new
    /\ \A i \in DOMAIN old :
          /\ new[i].name = old[i].name
          /\ IF old[i].name = Plain(n) /\ (\A j \in DOMAIN old : old[j].name = Plain(n) => i <= j)
             THEN new[i].value = v /\ new[i].ty = ty ELSE new[i] = old[i]
    /\ \A i \in DOMAIN new \ DOMAIN old :
          /\ new[i].name = Plain(n) /\ new[i].value = v /\ new[i].ty = ty
          /\ \A j \in DOMAIN old : old[j].name # Plain(n)
          /\ \A j \in DOMAIN new \ DOMAIN old : i = j
LEMMA SetFieldFacts ==
    ASSUME NEW old \in Seq(CustomField), NEW n \in Words, NEW v \in Value, NEW ty \in FieldTypes
    PROVE  SetsField(SetField(old, n, v, ty), old, n, v, ty)
<1> DEFINE named == {i \in DOMAIN old : old[i].name = Plain(n)}
           new == SetField(old, n, v, ty)
           f == [name |-> Plain(n), value |-> v, ty |-> ty]
<1> SUFFICES SetsField(new, old, n, v, ty)
  OBVIOUS
<1>1. named \subseteq Nat
  OBVIOUS
<1>2. CASE named = {}
  <2>1. new = Append(old, f)
    BY <1>2 DEF SetField
  <2>2. f \in CustomField /\ f.name = Plain(n) /\ f.value = v /\ f.ty = ty
    BY PlainValue DEF CustomField, Field, Value
  <2> HIDE DEF f
  <2>3. /\ new \in Seq(CustomField) /\ DOMAIN old = 1 .. Len(old) /\ Len(old) \in Nat
        /\ DOMAIN new = 1 .. Len(old) + 1 /\ new[Len(old) + 1] = f
        /\ \A i \in DOMAIN old : new[i] = old[i]
    BY <2>1, <2>2
  <2>4. DOMAIN new \ DOMAIN old = {Len(old) + 1}
    BY <2>3
  <2>5. \A i \in DOMAIN old : old[i].name # Plain(n)
    BY <1>2
  <2> HIDE DEF new, named
  <2>6. DOMAIN old \subseteq DOMAIN new
    BY <2>3
  <2> QED
    BY <2>2, <2>3, <2>4, <2>5, <2>6 DEF SetsField
<1>3. CASE named # {}
  <2> DEFINE first == CHOOSE i \in named : \A j \in named : i <= j
  <2>1. first \in named /\ \A j \in named : first <= j
    BY <1>1, <1>3, Least
  <2>2. new = [old EXCEPT ![first].value = v, ![first].ty = ty]
    BY <1>3 DEF SetField
  <2> HIDE DEF first
  <2>3. first \in DOMAIN old /\ old[first] \in CustomField
    BY <2>1
  <2>4. /\ new[first] \in CustomField /\ new[first].name = old[first].name
        /\ new[first].value = v /\ new[first].ty = ty
    <3> DEFINE was == old[first]
    <3>1. new[first] = [was EXCEPT !.value = v, !.ty = ty]
      BY <2>2, <2>3
    <3>2. was \in CustomField
      BY <2>3
    <3> HIDE DEF was
    <3>3. /\ new[first] \in CustomField /\ new[first].name = was.name
          /\ new[first].value = v /\ new[first].ty = ty
      BY <3>1, <3>2 DEF CustomField, Field, Value
    <3> QED
      BY <3>3 DEF was
  <2>5. DOMAIN new = DOMAIN old /\ \A i \in DOMAIN old : i # first => new[i] = old[i]
    BY <2>2
  <2>6. new \in Seq(CustomField)
    <3>1. Maps(new, old)
      BY <2>2 DEF Maps
    <3>2. \A i \in DOMAIN old : new[i] \in CustomField
      BY <2>4, <2>5
    <3> HIDE DEF new
    <3> QED
      BY <3>1, <3>2, MapSeq
  <2>7. ASSUME NEW i \in DOMAIN old
        PROVE  /\ new[i].name = old[i].name
               /\ IF old[i].name = Plain(n) /\ (\A j \in DOMAIN old : old[j].name = Plain(n) => i <= j)
                  THEN new[i].value = v /\ new[i].ty = ty ELSE new[i] = old[i]
    <3>1. old[i].name = Plain(n) /\ (\A j \in DOMAIN old : old[j].name = Plain(n) => i <= j) <=> i = first
      <4>1. ASSUME old[i].name = Plain(n), \A j \in DOMAIN old : old[j].name = Plain(n) => i <= j
            PROVE  i = first
        <5>1. i \in named /\ i <= first /\ first <= i
          BY <2>1, <4>1
        <5> QED
          BY <1>1, <2>1, <5>1
      <4>2. ASSUME i = first
            PROVE  old[i].name = Plain(n) /\ \A j \in DOMAIN old : old[j].name = Plain(n) => i <= j
        BY <2>1, <4>2
      <4> QED
        BY <4>1, <4>2
    <3> HIDE DEF new
    <3> QED
      BY <2>4, <2>5, <3>1
  <2> HIDE DEF new
  <2> QED
    BY <2>5, <2>6, <2>7 DEF SetsField
<1> QED
  BY <1>2, <1>3

\* Setting a field of an SSH key leaves one field of each name.
LEMMA SetFieldSsh ==
    ASSUME NEW old \in Seq(CustomField), NEW new, NEW n, NEW v, NEW ty, SetsField(new, old, n, v, ty),
           PlainSsh(old), n \in SshNames => ty = FieldTypeOf(n)
    PROVE  PlainSsh(new)
<1> SUFFICES ASSUME NEW m \in SshNames PROVE OneField(new, m)
  BY DEF PlainSsh
<1>1. OneField(old, m)
  BY DEF PlainSsh
<1>2. Plain(m) = Plain(n) => m = n
  BY DEF Plain
<1>3. ASSUME NEW i \in DOMAIN new, new[i].name = Plain(m)
      PROVE  new[i].ty = FieldTypeOf(m)
  BY <1>1, <1>2, <1>3 DEF SetsField, OneField
<1>4. ASSUME NEW i \in DOMAIN new, NEW j \in DOMAIN new, new[i].name = Plain(m), new[j].name = Plain(m)
      PROVE  i = j
  <2>1. CASE i \in DOMAIN old /\ j \in DOMAIN old
    BY <1>1, <1>4, <2>1 DEF SetsField, OneField
  <2>2. CASE i \notin DOMAIN old
    <3>1. new[i].name = Plain(n) /\ \A u \in DOMAIN old : old[u].name # Plain(n)
      BY <2>2 DEF SetsField
    <3>2. j \notin DOMAIN old
      BY <1>4, <3>1 DEF SetsField
    <3> QED
      BY <2>2, <3>2 DEF SetsField
  <2>3. CASE j \notin DOMAIN old
    <3>1. new[j].name = Plain(n) /\ \A u \in DOMAIN old : old[u].name # Plain(n)
      BY <2>3 DEF SetsField
    <3>2. i \notin DOMAIN old
      BY <1>4, <3>1 DEF SetsField
    <3> QED
      BY <2>3, <3>2 DEF SetsField
  <2> QED
    BY <2>1, <2>2, <2>3
<1> QED
  BY <1>3, <1>4 DEF OneField

\* One of the two custom fields of an SSH key brought in step with its slot.
InStep(new, old, n, v) == \/ v = None /\ new = old
                          \/ v # None /\ SetsField(new, old, n, v, FieldTypeOf(n))

\* It touches no field of another name, and none at all for an empty slot.
LEMMA InStepFacts ==
    ASSUME NEW old \in Seq(CustomField), NEW new, NEW n \in SshNames, NEW v, InStep(new, old, n, v)
    PROVE  /\ new \in Seq(CustomField) /\ DOMAIN old \subseteq DOMAIN new
           /\ \A i \in DOMAIN old : /\ new[i].name = old[i].name
                                    /\ old[i].name # Plain(n) \/ v = None => new[i] = old[i]
           /\ \A i \in DOMAIN new : new[i].name # Plain(n) \/ v = None => i \in DOMAIN old
           /\ PlainSsh(old) => PlainSsh(new)
<1>1. CASE v = None /\ new = old
  BY <1>1
<1>2. CASE v # None /\ SetsField(new, old, n, v, FieldTypeOf(n))
  <2>1. PlainSsh(old) => PlainSsh(new)
    BY <1>2, SetFieldSsh
  <2> QED
    BY <1>2, <2>1 DEF SetsField
<1> QED
  BY <1>1, <1>2 DEF InStep

\* handle_update_entry's upkeep of an SSH key's fields.
Syncs(d, e) ==
    /\ d \in Entry /\ SameHead(d, e) /\ d.key = e.key /\ d.name = e.name /\ d.notes = e.notes
    /\ d.data = e.data /\ DOMAIN e.fields \subseteq DOMAIN d.fields
    /\ \A i \in DOMAIN e.fields :
          /\ d.fields[i].name = e.fields[i].name
          /\ e.ty # "SshKey" \/ (\A n \in SshNames : e.fields[i].name # Plain(n))
                => d.fields[i] = e.fields[i]
    /\ PlainSsh(e.fields) => PlainSsh(d.fields)
    /\ e.ty = "SshKey" => \A n \in SshNames, i \in DOMAIN d.fields :
          e.data[n] = None /\ d.fields[i].name = Plain(n)
             => i \in DOMAIN e.fields /\ d.fields[i] = e.fields[i]
LEMMA SyncFacts ==
    ASSUME NEW e \in Entry
    PROVE  Syncs(SyncSshFields(e), e)
<1> DEFINE d == SyncSshFields(e)
<1> SUFFICES Syncs(d, e)
  OBVIOUS
<1>1. CASE e.ty # "SshKey"
  <2>1. d = e
    BY <1>1 DEF SyncSshFields
  <2> HIDE DEF d
  <2> QED
    BY <1>1, <2>1 DEF SameHead, Syncs
<1>2. CASE e.ty = "SshKey"
  <2> DEFINE pk == e.data["private_key"]
             pub == e.data["public_key"]
             f1 == IF pk = None THEN e.fields ELSE SetField(e.fields, "private_key", pk, "Hidden")
             f2 == IF pub = None THEN f1 ELSE SetField(f1, "public_key", pub, "Text")
  <2>1. /\ e.key \in Value /\ e.name \in Value /\ e.notes \in Value /\ e.data \in [Slots[e.ty] -> Value]
        /\ e.fields \in Seq(CustomField)
    BY EntryParts
  <2>2. pk \in Value /\ pub \in Value
    BY <1>2, <2>1 DEF Slots, SshSlots
  <2>3. /\ "private_key" \in Words /\ "public_key" \in Words /\ "Hidden" \in FieldTypes /\ "Text" \in FieldTypes
        /\ FieldTypeOf("private_key") = "Hidden" /\ FieldTypeOf("public_key") = "Text"
        /\ "private_key" \in SshNames /\ "public_key" \in SshNames
    BY DEF Words, FieldTypes, FieldTypeOf, SshNames
  <2>4. d = [e EXCEPT !.fields = f2]
    BY <1>2 DEF SyncSshFields, Entry
  <2> HIDE DEF pk, pub
  <2>5. InStep(f1, e.fields, "private_key", pk)
    BY <2>1, <2>2, <2>3, SetFieldFacts DEF InStep
  <2>6. /\ f1 \in Seq(CustomField) /\ DOMAIN e.fields \subseteq DOMAIN f1
        /\ \A i \in DOMAIN e.fields :
              /\ f1[i].name = e.fields[i].name
              /\ e.fields[i].name # Plain("private_key") \/ pk = None => f1[i] = e.fields[i]
        /\ \A i \in DOMAIN f1 : f1[i].name # Plain("private_key") \/ pk = None => i \in DOMAIN e.fields
        /\ PlainSsh(e.fields) => PlainSsh(f1)
    <3> HIDE DEF f1, f2
    <3> QED
      BY <2>1, <2>3, <2>5, InStepFacts
  <2> HIDE DEF f1
  <2>7. InStep(f2, f1, "public_key", pub)
    BY <2>2, <2>3, <2>6, SetFieldFacts DEF InStep
  <2>8. /\ f2 \in Seq(CustomField) /\ DOMAIN f1 \subseteq DOMAIN f2
        /\ \A i \in DOMAIN f1 :
              /\ f2[i].name = f1[i].name
              /\ f1[i].name # Plain("public_key") \/ pub = None => f2[i] = f1[i]
        /\ \A i \in DOMAIN f2 : f2[i].name # Plain("public_key") \/ pub = None => i \in DOMAIN f1
        /\ PlainSsh(f1) => PlainSsh(f2)
    <3> HIDE DEF f2
    <3> QED
      BY <2>3, <2>6, <2>7, InStepFacts
  <2> HIDE DEF f2
  <2>9. Rewrites(d, e, e.key, e.name, e.notes, e.data, f2)
    BY <2>1, <2>4, <2>8 DEF Rewrites, Entry
  <2>10. /\ d \in Entry /\ SameHead(d, e) /\ d.key = e.key /\ d.name = e.name /\ d.notes = e.notes
         /\ d.data = e.data /\ d.fields = f2
    BY <2>9, Rewritten
  <2>11. DOMAIN e.fields \subseteq DOMAIN f2 /\ (PlainSsh(e.fields) => PlainSsh(f2))
    BY <2>6, <2>8
  <2>12. ASSUME NEW i \in DOMAIN e.fields
         PROVE  /\ f2[i].name = e.fields[i].name
                /\ (\A n \in SshNames : e.fields[i].name # Plain(n)) => f2[i] = e.fields[i]
    BY <2>3, <2>6, <2>8
  <2>13. Plain("private_key") # Plain("public_key")
    BY DEF Plain
  <2>14. ASSUME NEW i \in DOMAIN f2, pk = None, f2[i].name = Plain("private_key")
         PROVE  i \in DOMAIN e.fields /\ f2[i] = e.fields[i]
    <3>1. i \in DOMAIN f1 /\ f1[i].name = Plain("private_key") /\ f2[i] = f1[i]
      BY <2>8, <2>13, <2>14
    <3> QED
      BY <2>6, <2>14, <3>1
  <2>15. ASSUME NEW i \in DOMAIN f2, pub = None, f2[i].name = Plain("public_key")
         PROVE  i \in DOMAIN e.fields /\ f2[i] = e.fields[i]
    <3>1. i \in DOMAIN f1 /\ f1[i].name = Plain("public_key") /\ f2[i] = f1[i]
      BY <2>8, <2>15
    <3>2. i \in DOMAIN e.fields /\ e.fields[i].name = Plain("public_key")
      BY <2>6, <2>13, <3>1
    <3> QED
      BY <2>6, <2>13, <3>1, <3>2
  <2>16. \A n \in SshNames, i \in DOMAIN f2 :
            e.data[n] = None /\ f2[i].name = Plain(n) => i \in DOMAIN e.fields /\ f2[i] = e.fields[i]
    BY <2>14, <2>15 DEF SshNames, pk, pub
  <2> HIDE DEF d
  <2> QED
    BY <1>2, <2>10, <2>11, <2>12, <2>16 DEF Syncs
<1> QED
  BY <1>1, <1>2

-----------------------------------------------------------------------------
(* Sealing a request                                                       *)

\* Sealing the custom fields keeps their number and types.
LEMMA EncryptFieldsFacts ==
    ASSUME NEW e \in Entry, NEW k \in {"user", "org", "item"}, NEW fs, fs = EncryptFields(e, k)
    PROVE  /\ fs \in Seq(CustomField) /\ DOMAIN fs = DOMAIN e.fields
           /\ \A i \in DOMAIN e.fields : /\ fs[i].name = Enc(k, e.fields[i].name)
                                         /\ fs[i].value = Enc(k, e.fields[i].value)
                                         /\ fs[i].ty = e.fields[i].ty
<1>1. e.fields \in Seq(CustomField)
  BY EntryParts
<1>2. fs = [i \in DOMAIN e.fields |-> [e.fields[i] EXCEPT !.name = Enc(k, @), !.value = Enc(k, @)]]
  BY DEF EncryptFields
<1>3. ASSUME NEW i \in DOMAIN e.fields
      PROVE  /\ fs[i] \in CustomField /\ fs[i].ty = e.fields[i].ty
             /\ fs[i].name = Enc(k, e.fields[i].name) /\ fs[i].value = Enc(k, e.fields[i].value)
  <2>1. e.fields[i] \in CustomField /\ e.fields[i].name \in Value /\ e.fields[i].value \in Value
    BY <1>1, FieldParts
  <2>2. Enc(k, e.fields[i].name) \in Value /\ Enc(k, e.fields[i].value) \in Value
    BY <2>1, EncFacts
  <2>3. fs[i] = [e.fields[i] EXCEPT !.name = Enc(k, e.fields[i].name), !.value = Enc(k, e.fields[i].value)]
    BY <1>2, <2>1 DEF CustomField, Field
  <2>4. RewritesField(fs[i], e.fields[i], Enc(k, e.fields[i].name), Enc(k, e.fields[i].value))
    BY <2>1, <2>2, <2>3 DEF RewritesField
  <2> QED
    BY <2>4, FieldRewritten
<1>4. Maps(fs, e.fields)
  BY <1>2 DEF Maps
<1>5. fs \in Seq(CustomField) /\ DOMAIN fs = DOMAIN e.fields
  BY <1>1, <1>3, <1>4, MapSeq
<1> QED
  BY <1>3, <1>5

\* A sealed entry: e with its values under key k, those of the slots that are sent.
Seals(d, e, k, sent) ==
    /\ d \in Entry /\ d.ty = e.ty /\ d.live = e.live /\ d.key = e.key
    /\ d.reprompt = e.reprompt /\ d.history = e.history
    /\ d.name = Enc(k, e.name) /\ d.notes = Enc(k, e.notes)
    /\ \A s \in Slots[e.ty] : d.data[s] = IF s \in sent THEN Enc(k, e.data[s]) ELSE None
    /\ DOMAIN d.fields = DOMAIN e.fields
    /\ \A i \in DOMAIN e.fields : /\ d.fields[i].name = Enc(k, e.fields[i].name)
                                  /\ d.fields[i].value = Enc(k, e.fields[i].value)
                                  /\ d.fields[i].ty = e.fields[i].ty
Sealed(e, k, sent) ==
    [e EXCEPT !.name = Enc(k, @), !.notes = Enc(k, @),
              !.data = EncryptSlots(e, k, sent), !.fields = EncryptFields(e, k)]
LEMMA EncryptFacts ==
    ASSUME NEW e \in Entry, NEW k \in {"user", "org", "item"}, NEW sent, NEW d, d = Sealed(e, k, sent)
    PROVE  Seals(d, e, k, sent) /\ SameHead(d, e)
<1> DEFINE da == EncryptSlots(e, k, sent)
           fs == EncryptFields(e, k)
<1>1. /\ e.key \in Value /\ e.name \in Value /\ e.notes \in Value /\ e.data \in [Slots[e.ty] -> Value]
  BY EntryParts
<1>2. Enc(k, e.name) \in Value /\ Enc(k, e.notes) \in Value /\ \A s \in Slots[e.ty] : Enc(k, e.data[s]) \in Value
  BY <1>1, EncFacts
<1>3. /\ fs \in Seq(CustomField) /\ DOMAIN fs = DOMAIN e.fields
      /\ \A i \in DOMAIN e.fields : /\ fs[i].name = Enc(k, e.fields[i].name)
                                    /\ fs[i].value = Enc(k, e.fields[i].value)
                                    /\ fs[i].ty = e.fields[i].ty
  BY EncryptFieldsFacts
<1>4. da = [s \in Slots[e.ty] |-> IF s \in sent THEN Enc(k, e.data[s]) ELSE None]
  BY <1>1 DEF EncryptSlots
<1> HIDE DEF da, fs
<1>5. /\ da \in [Slots[e.ty] -> Value]
      /\ \A s \in Slots[e.ty] : da[s] = IF s \in sent THEN Enc(k, e.data[s]) ELSE None
  BY <1>2, <1>4, NoneValue
<1>6. d = [e EXCEPT !.key = e.key, !.name = Enc(k, e.name), !.notes = Enc(k, e.notes), !.data = da, !.fields = fs]
  <2>1. d = [e EXCEPT !.name = Enc(k, e.name), !.notes = Enc(k, e.notes), !.data = da, !.fields = fs]
    BY DEF Entry, da, fs, Sealed
  <2> QED
    BY <2>1 DEF Entry
<1>7. Rewrites(d, e, e.key, Enc(k, e.name), Enc(k, e.notes), da, fs)
  BY <1>1, <1>2, <1>3, <1>5, <1>6 DEF Rewrites
<1>8. /\ d \in Entry /\ SameHead(d, e) /\ d.key = e.key
      /\ d.name = Enc(k, e.name) /\ d.notes = Enc(k, e.notes) /\ d.data = da /\ d.fields = fs
  BY <1>7, Rewritten
<1> QED
  BY <1>3, <1>5, <1>8 DEF Seals, SameHead

\* A sealed request is a cipher that the agent's keys open, with one sealed field for each
\* slot of an SSH key.
LEMMA SealsOK ==
    ASSUME NEW e \in Entry, NEW d, NEW k \in {"user", "org", "item"}, NEW sent, Seals(d, e, k, sent),
           EntryKey(d, TRUE) = k, PlainSsh(e.fields)
    PROVE  SealedOK(d)
<1>1. d \in Entry /\ d.ty = e.ty
  BY DEF Seals
<1>2. /\ e.name \in Value /\ e.notes \in Value /\ e.data \in [Slots[e.ty] -> Value]
      /\ e.fields \in Seq(CustomField) /\ d.data \in [Slots[e.ty] -> Value]
  BY <1>1, EntryParts
<1>3. Readable(d, TRUE)
  <2> DEFINE OK(v) == v = None \/ Opens(k, v)
  <2>1. \A v \in Value : OK(Enc(k, v))
    <3>1. \A v \in Value : SealsValue(k, v)
      BY ValueFacts
    <3> QED
      BY <3>1 DEF SealsValue
  <2>2. OK(d.name) /\ OK(d.notes)
    BY <1>2, <2>1 DEF Seals
  <2>3. ASSUME NEW s \in DOMAIN d.data PROVE OK(d.data[s])
    <3>1. s \in Slots[e.ty] /\ e.data[s] \in Value
      BY <1>2
    <3> QED
      BY <2>1, <3>1 DEF Seals
  <2>4. ASSUME NEW i \in DOMAIN d.fields PROVE OK(d.fields[i].name) /\ OK(d.fields[i].value)
    <3>1. i \in DOMAIN e.fields
      BY DEF Seals
    <3>2. e.fields[i].name \in Value /\ e.fields[i].value \in Value
      BY <1>2, <3>1, FieldParts
    <3> QED
      BY <2>1, <3>1, <3>2 DEF Seals
  <2> QED
    BY <2>2, <2>3, <2>4 DEF Readable
<1>4. ASSUME NEW n \in SshNames PROVE OneSealed(d.fields, n)
  <2>1. OneField(e.fields, n)
    BY DEF PlainSsh
  <2>2. ASSUME NEW i \in DOMAIN d.fields, d.fields[i].name.text = n
        PROVE  i \in DOMAIN e.fields /\ e.fields[i].name = Plain(n) /\ d.fields[i].ty = e.fields[i].ty
    <3>1. i \in DOMAIN e.fields /\ d.fields[i].name = Enc(k, e.fields[i].name) /\ d.fields[i].ty = e.fields[i].ty
      BY DEF Seals
    <3>2. SealsValue(k, e.fields[i].name)
      BY <1>2, <3>1, FieldParts, ValueFacts
    <3> QED
      BY <2>2, <3>1, <3>2 DEF SealsValue
  <2> QED
    BY <2>1, <2>2 DEF OneSealed, OneField
<1> QED
  BY <1>1, <1>3, <1>4 DEF SealedOK, SealedSsh

\* update_entry_on_server: the request is sealed with the key it is sent with.
PutKey(e) == IF e.key = None THEN "user" ELSE "item"
LEMMA PutFacts ==
    ASSUME NEW e \in Entry, PutKeyOpens(e), PlainSsh(e.fields), NEW q, q = PutRequest(e)
    PROVE  /\ Seals(q, e, PutKey(e), PutSlots[e.ty]) /\ SealedOK(q)
           /\ EntryKey(q, FALSE) = PutKey(e)
<1> DEFINE k == PutKey(e)
           b == Sealed(e, k, PutSlots[e.ty])
<1>1. k \in {"user", "org", "item"}
  BY DEF PutKey
<1>2. q = [b EXCEPT !.folder = FALSE, !.org = FALSE]
  BY DEF PutRequest, PutKey, UpdateCipher, Sealed
<1> HIDE DEF k
<1>3. Seals(b, e, k, PutSlots[e.ty])
  BY <1>1, EncryptFacts
<1> HIDE DEF b
<1>4. b \in Entry
  BY <1>3 DEF Seals
<1>5. /\ q \in Entry /\ q.ty = b.ty /\ q.live = b.live /\ q.key = b.key /\ q.reprompt = b.reprompt
      /\ q.history = b.history /\ q.name = b.name /\ q.notes = b.notes /\ q.data = b.data
      /\ q.fields = b.fields /\ q.org = FALSE
  BY <1>2, <1>4 DEF Entry
<1>6. Seals(q, e, k, PutSlots[e.ty])
  BY <1>3, <1>5 DEF Seals
<1>7. q.key = e.key
  BY <1>6 DEF Seals
<1>8. EntryKey(q, FALSE) = k /\ EntryKey(q, TRUE) = k
  BY <1>5, <1>7 DEF EntryKey, PutKeyOpens, PutKey, k
<1>9. SealedOK(q)
  BY <1>1, <1>6, <1>8, SealsOK
<1> QED
  BY <1>6, <1>8, <1>9 DEF k

\* What the server's copy of a request reads as.
Got(g, e, sent) ==
    /\ g \in Entry /\ g.ty = e.ty /\ g.key = e.key /\ g.history = e.history /\ g.reprompt = e.reprompt
    /\ Clean(e.notes) => g.notes = e.notes
    /\ \A i \in DOMAIN e.fields : Clean(e.fields[i].value) => g.fields[i].value = e.fields[i].value
    /\ \A s \in Slots[e.ty] :
          /\ s \in sent /\ Clean(e.data[s])
          /\ e.ty = "SshKey" /\ s \in SshNames /\ e.data[s] = None =>
                \A i \in DOMAIN e.fields : e.fields[i].name = Plain(s) => e.fields[i].value = None
          => g.data[s] = e.data[s]
LEMMA GotFacts ==
    ASSUME NEW e \in Entry, NEW q, NEW k \in {"user", "org", "item"}, NEW sent, Seals(q, e, k, sent),
           EntryKey(q, FALSE) = k
    PROVE  Got(Decrypt(q, FALSE), e, sent)
<1> DEFINE g == Decrypt(q, FALSE)
<1> SUFFICES Got(g, e, sent)
  OBVIOUS
<1>1. q \in Entry /\ q.ty = e.ty /\ q.key = e.key /\ q.history = e.history /\ q.reprompt = e.reprompt
  BY DEF Seals
<1>2. Reads(g, q, k)
  BY <1>1, DecryptFacts
<1> HIDE DEF g
<1>3. /\ g \in Entry /\ g.ty = e.ty /\ g.key = e.key /\ g.history = e.history /\ g.reprompt = e.reprompt
      /\ DOMAIN g.fields = DOMAIN e.fields
  BY <1>1, <1>2 DEF Reads, SameHead, Seals
<1>4. /\ e.notes \in Value /\ e.data \in [Slots[e.ty] -> Value] /\ e.fields \in Seq(CustomField)
      /\ g.fields \in Seq(CustomField)
  BY <1>3, EntryParts
<1>5. ASSUME Clean(e.notes) PROVE g.notes = e.notes
  <2>1. SealsValue(k, e.notes)
    BY <1>4, ValueFacts
  <2> QED
    BY <1>2, <1>5, <2>1 DEF Seals, Reads, SealsValue
<1>6. ASSUME NEW i \in DOMAIN e.fields
      PROVE  /\ g.fields[i].name = DecOrKeep(k, Enc(k, e.fields[i].name))
             /\ g.fields[i].value = Dec(k, Enc(k, e.fields[i].value))
             /\ SealsValue(k, e.fields[i].name) /\ SealsValue(k, e.fields[i].value)
  <2>1. /\ i \in DOMAIN q.fields /\ q.fields[i].name = Enc(k, e.fields[i].name)
        /\ q.fields[i].value = Enc(k, e.fields[i].value)
    BY DEF Seals
  <2>2. /\ g.fields[i].name = DecOrKeep(k, q.fields[i].name)
        /\ g.fields[i].value = Dec(k, q.fields[i].value)
    BY <1>2, <2>1 DEF Reads
  <2>3. SealsValue(k, e.fields[i].name) /\ SealsValue(k, e.fields[i].value)
    BY <1>4, FieldParts, ValueFacts
  <2> QED
    BY <2>1, <2>2, <2>3
<1>7. ASSUME NEW i \in DOMAIN e.fields, Clean(e.fields[i].value)
      PROVE  g.fields[i].value = e.fields[i].value
  BY <1>6, <1>7 DEF SealsValue
<1>9. ASSUME NEW s \in Slots[e.ty], s \in sent, Clean(e.data[s]),
             e.ty = "SshKey" /\ s \in SshNames /\ e.data[s] = None =>
                \A i \in DOMAIN e.fields : e.fields[i].name = Plain(s) => e.fields[i].value = None
      PROVE  g.data[s] = e.data[s]
  <2>1. SealsValue(k, e.data[s])
    BY <1>4, ValueFacts
  <2>2. OpenedSlot(q, k, s) = e.data[s]
    <3>1. q.data[s] = Enc(k, e.data[s])
      BY <1>9 DEF Seals
    <3> QED
      BY <1>9, <2>1, <3>1 DEF OpenedSlot, SealsValue
  <2>3. CASE ~(q.ty = "SshKey" /\ s \in SshNames /\ e.data[s] = None)
    BY <1>1, <1>2, <2>2, <2>3 DEF Reads
  <2>4. CASE q.ty = "SshKey" /\ s \in SshNames /\ e.data[s] = None
    <3>1. ASSUME NEW i \in DOMAIN g.fields, g.fields[i].name = Plain(s)
          PROVE  g.fields[i].value = None
      <4>1. i \in DOMAIN e.fields /\ e.fields[i].name = Plain(s)
        BY <1>3, <1>6, <2>4, <3>1 DEF SealsValue
      <4>2. e.fields[i].value = None
        BY <1>1, <1>9, <2>4, <4>1
      <4> QED
        BY <1>7, <4>1, <4>2, NoneValue
    <3>2. LastField(g.fields, s) = None
      BY <1>4, <3>1, LastFieldValue
    <3> QED
      BY <1>1, <1>2, <2>2, <2>4, <3>2 DEF Reads
  <2> QED
    BY <2>3, <2>4
<1> QED
  BY <1>3, <1>5, <1>7, <1>9 DEF Got

-----------------------------------------------------------------------------
(* What a client reads                                                     *)

\* The key that opens a value is one of three.
LEMMA KeyFacts ==
    ASSUME NEW e, NEW o
    PROVE  EntryKey(e, o) \in {"user", "org", "item", "unreadable"}
  BY DEF EntryKey

\* A copy the agent gives out: every custom field that was read is plaintext, and so is
\* every slot if the name is.
BaseOK(b, e) ==
    b \in Entry /\ SameHead(b, e) /\ b.key = e.key /\ CleanBase(b) /\ PlainSsh(b.fields)
LEMMA ReadBase ==
    ASSUME NEW e, SealedOK(e), e.live, NEW o
    PROVE  BaseOK(Decrypt(e, o), e)
<1> DEFINE b == Decrypt(e, o)
           k == EntryKey(e, o)
<1> SUFFICES BaseOK(b, e)
  OBVIOUS
<1>1. e \in Entry /\ Readable(e, TRUE) /\ SealedSsh(e.fields)
  BY DEF SealedOK
<1>2. Reads(b, e, k)
  BY <1>1, DecryptFacts
<1>3. k \in {"user", "org", "item", "unreadable"} /\ EntryKey(e, TRUE) \in {"user", "org", "item", "unreadable"}
  BY KeyFacts
<1> HIDE DEF b
<1>4. /\ e.name \in Value /\ e.data \in [Slots[e.ty] -> Value] /\ e.fields \in Seq(CustomField)
      /\ e.ty \in EntryTypes /\ b \in Entry /\ b.ty = e.ty
  BY <1>1, <1>2, EntryParts DEF Reads, SameHead
<1>5. b.fields \in Seq(CustomField)
  BY <1>4, EntryParts
<1>6. ASSUME NEW i \in DOMAIN b.fields PROVE Clean(b.fields[i].value)
  <2>1. i \in DOMAIN e.fields /\ e.fields[i].value \in Value
    BY <1>2, <1>4, FieldParts DEF Reads
  <2>2. b.fields[i].value = Dec(k, e.fields[i].value)
    BY <1>2, <2>1 DEF Reads
  <2> QED
    BY <2>1, <2>2, OpenFacts
<1>7. ASSUME b.name.by = "plain" PROVE k = EntryKey(e, TRUE)
  <2>1. b.name = DecOrKeep(k, e.name)
    BY <1>2 DEF Reads
  <2>2. e.name = None \/ e.name.by = EntryKey(e, TRUE)
    BY <1>1 DEF Readable, Opens
  <2>3. None.by = "none"
    BY DEF None
  <2>4. e.name.by # "plain"
    BY <1>3, <2>2, <2>3
  <2>5. e.name.by = k
    BY <1>4, <1>7, <2>1, <2>4, OpenFacts
  <2> HIDE DEF k
  <2> QED
    BY <1>3, <2>2, <2>3, <2>5
<1>8. ASSUME b.name.by = "plain", NEW s \in Slots[b.ty] PROVE Clean(b.data[s])
  <2>1. e.data[s] \in Value /\ (e.data[s] = None \/ e.data[s].by = k)
    <3>1. s \in DOMAIN e.data /\ e.data[s] \in Value
      BY <1>4
    <3>2. e.data[s] = None \/ Opens(EntryKey(e, TRUE), e.data[s])
      BY <1>1, <3>1 DEF Readable
    <3> QED
      BY <1>7, <1>8, <3>1, <3>2 DEF Opens
  <2>2. Clean(OpenedSlot(e, k, s))
    BY <2>1, OpenFacts DEF OpenedSlot
  <2>3. Clean(LastField(b.fields, s))
    BY <1>5, <1>6, LastFieldValue
  <2> HIDE DEF k
  <2> QED
    BY <1>2, <1>4, <2>2, <2>3 DEF Reads
<1>9. ASSUME NEW n \in SshNames PROVE OneField(b.fields, n)
  <2>1. OneSealed(e.fields, n)
    BY <1>1 DEF SealedSsh
  <2>2. ASSUME NEW i \in DOMAIN b.fields, b.fields[i].name = Plain(n)
        PROVE  i \in DOMAIN e.fields /\ e.fields[i].name.text = n /\ b.fields[i].ty = e.fields[i].ty
    <3>1. /\ i \in DOMAIN e.fields /\ b.fields[i].name = DecOrKeep(k, e.fields[i].name)
          /\ b.fields[i].ty = e.fields[i].ty
      BY <1>2 DEF Reads
    <3>2. e.fields[i].name \in Value
      BY <1>4, <3>1, FieldParts
    <3>3. Plain(n).text = n
      BY DEF Plain
    <3> QED
      BY <2>2, <3>1, <3>2, <3>3, OpenFacts
  <2> QED
    BY <2>1, <2>2 DEF OneField, OneSealed
<1>10. ASSUME b.ty = "SshKey", NEW n \in SshNames, NEW i \in DOMAIN b.fields,
              b.data[n] = None, b.fields[i].name = Plain(n)
       PROVE  b.fields[i].value = None
  <2>1. n \in Slots[e.ty]
    BY <1>4, <1>10, SshSlotsAre
  <2>2. LastField(b.fields, n) = None
    BY <1>2, <1>4, <1>10, <2>1 DEF Reads
  <2>3. \A u, v \in DOMAIN b.fields : b.fields[u].name = Plain(n) /\ b.fields[v].name = Plain(n) => u = v
    BY <1>9 DEF OneField
  <2> QED
    BY <1>5, <1>10, <2>2, <2>3, LastFieldValue
<1>11. CleanBase(b)
  BY <1>6, <1>8, <1>10 DEF CleanBase
<1> QED
  BY <1>2, <1>9, <1>11 DEF BaseOK, PlainSsh, Reads

-----------------------------------------------------------------------------
(* What a client edits                                                     *)

\* A buffer as it was read, whole or redacted.
ReadDraft(d) ==
    /\ d.dirty = {}
    /\ \/ d.full = TRUE /\ d.entry = d.base
       \/ d.full = FALSE /\ d.entry = Redact(d.base)
LEMMA ReadEdit ==
    ASSUME NEW d, NEW e, ReadDraft(d), BaseOK(d.base, e)
    PROVE  EditOK(d) /\ d.entry \in Entry
<1>1. d.base \in Entry /\ CleanBase(d.base) /\ PlainSsh(d.base.fields)
  BY DEF BaseOK
<1>2. \A i \in DOMAIN d.base.fields : ~TypedIn(d, i)
  BY DEF TypedIn, ReadDraft
<1>3. CASE d.full = TRUE /\ d.entry = d.base
  BY <1>1, <1>2, <1>3 DEF EditOK, SlotKept, FieldKept, ReadDraft
<1>4. CASE d.full = FALSE /\ d.entry = Redact(d.base)
  <2>1. Redacts(d.entry, d.base)
    BY <1>1, <1>4, RedactFacts
  <2>2. PlainSsh(d.entry.fields)
    BY <1>1, <2>1 DEF PlainSsh, OneField, Redacts
  <2>3. \A s \in Slots[d.base.ty] : SlotKept(d, s)
    BY <1>4, <2>1 DEF SlotKept, ReadDraft, Redacts
  <2>4. \A i \in DOMAIN d.base.fields : FieldKept(d, i)
    BY <1>2, <1>4, <2>1 DEF FieldKept, Redacts
  <2> QED
    BY <1>1, <2>1, <2>2, <2>3, <2>4 DEF EditOK, Redacts, SameHead
<1> QED
  BY <1>1, <1>3, <1>4 DEF ReadDraft

\* c is d, with no custom field edited so far, and one row edited in it.
EditsRow(c, d, row) ==
    /\ \A n : FieldRow(n) \notin d.dirty
    /\ c.dirty = d.dirty \cup {row} /\ c.base = d.base /\ c.full = d.full
    /\ c.entry.ty = d.entry.ty /\ c.entry.key = d.entry.key
    /\ c.entry.history = d.entry.history /\ c.entry.reprompt = d.entry.reprompt

\* Rows of different sorts differ.
LEMMA RowsDiffer ==
    ASSUME NEW s, NEW n, NEW u
    PROVE  /\ SlotRow(s) # FieldRow(n) /\ SlotRow(s) # NameRow /\ SlotRow(s) # NotesRow
           /\ FieldRow(n) # NameRow /\ FieldRow(n) # NotesRow
           /\ SlotRow(s) = SlotRow(u) => s = u
           /\ FieldRow(n) = FieldRow(u) => n = u
  BY DEF SlotRow, FieldRow, NameRow, NotesRow

\* Typing into a slot.
LEMMA SlotEdit ==
    ASSUME NEW d, NEW c, NEW s \in Slots[d.base.ty], EditOK(d), EditsRow(c, d, SlotRow(s)),
           c.entry.fields = d.entry.fields, c.entry.data[s].by = "plain",
           \A u \in Slots[d.base.ty] : u # s => c.entry.data[u] = d.entry.data[u]
    PROVE  EditOK(c)
<1>1. \A i \in DOMAIN d.base.fields : ~TypedIn(d, i) /\ ~TypedIn(c, i)
  BY RowsDiffer DEF TypedIn, EditsRow
<1>2. ASSUME NEW i \in DOMAIN d.base.fields PROVE FieldKept(c, i)
  <2>1. FieldKept(d, i)
    BY DEF EditOK
  <2> QED
    BY <1>1, <2>1 DEF FieldKept, EditsRow
<1>3. ASSUME NEW u \in Slots[d.base.ty] PROVE SlotKept(c, u)
  <2>1. SlotKept(d, u)
    BY DEF EditOK
  <2>2. CASE u = s
    BY <2>2 DEF SlotKept, EditsRow
  <2>3. CASE u # s
    <3>1. SlotRow(u) \in c.dirty <=> SlotRow(u) \in d.dirty
      BY <2>3, RowsDiffer DEF EditsRow
    <3> QED
      BY <2>1, <2>3, <3>1 DEF SlotKept, EditsRow
  <2> QED
    BY <2>2, <2>3
<1> QED
  BY <1>2, <1>3 DEF EditOK, EditsRow

\* Typing into the name or the notes.
LEMMA HeadEdit ==
    ASSUME NEW d, NEW c, NEW row \in {NameRow, NotesRow}, EditOK(d), EditsRow(c, d, row),
           c.entry.fields = d.entry.fields, c.entry.data = d.entry.data
    PROVE  EditOK(c)
<1>1. \A i \in DOMAIN d.base.fields : ~TypedIn(d, i) /\ ~TypedIn(c, i)
  BY RowsDiffer DEF TypedIn, EditsRow
<1>2. ASSUME NEW i \in DOMAIN d.base.fields PROVE FieldKept(c, i)
  <2>1. FieldKept(d, i)
    BY DEF EditOK
  <2> QED
    BY <1>1, <2>1 DEF FieldKept, EditsRow
<1>3. ASSUME NEW u \in Slots[d.base.ty] PROVE SlotKept(c, u)
  <2>1. SlotKept(d, u)
    BY DEF EditOK
  <2>2. SlotRow(u) \in c.dirty <=> SlotRow(u) \in d.dirty
    BY RowsDiffer DEF EditsRow
  <2> QED
    BY <2>1, <2>2 DEF SlotKept, EditsRow
<1> QED
  BY <1>2, <1>3 DEF EditOK, EditsRow

\* Typing into the first custom field of a name, which the CLI creates where there is none.
PutsField(new, old, n) ==
    /\ DOMAIN old \subseteq DOMAIN new
    /\ \A i \in DOMAIN old :
          /\ new[i].name = old[i].name
          /\ IF old[i].name = Plain(n) /\ (\A j \in DOMAIN old : old[j].name = Plain(n) => i <= j)
             THEN new[i].value.by = "plain" ELSE new[i] = old[i]
    /\ \A i \in DOMAIN new \ DOMAIN old : new[i].name = Plain(n)
LEMMA FieldEdit ==
    ASSUME NEW d, NEW c, NEW n, n \notin SshNames, EditOK(d), EditsRow(c, d, FieldRow(n)),
           d.entry \in Entry, d.base \in Entry,
           PutsField(c.entry.fields, d.entry.fields, n), c.entry.data = d.entry.data
    PROVE  EditOK(c)
<1> DEFINE old == d.entry.fields
           new == c.entry.fields
           base == d.base.fields
<1>1. /\ old \in Seq(CustomField) /\ base \in Seq(CustomField)
      /\ DOMAIN base \subseteq DOMAIN old /\ DOMAIN old \subseteq DOMAIN new
  BY EntryParts DEF EditOK, PutsField
<1>2. \A m \in SshNames : Plain(m) # Plain(n)
  BY DEF Plain
<1>3. \A i \in DOMAIN base : ~TypedIn(d, i) /\ FieldKept(d, i) /\ old[i].name = base[i].name
  BY DEF TypedIn, EditsRow, EditOK, FieldKept
<1>4. ASSUME NEW i \in DOMAIN base
      PROVE  TypedIn(c, i) <=> old[i].name = Plain(n) /\ (\A j \in DOMAIN old : old[j].name = Plain(n) => i <= j)
  <2>1. base[i].name \in Value
    BY <1>1, FieldParts
  <2>2. base[i].name.by = "plain" /\ FieldRow(base[i].name.text) \in c.dirty <=> base[i].name = Plain(n)
    <3>1. Plain(n).by = "plain" /\ Plain(n).text = n
      BY DEF Plain
    <3> QED
      BY <2>1, <3>1, ValueParts, RowsDiffer DEF EditsRow
  <2>3. ASSUME base[i].name = Plain(n)
        PROVE  (\A j \in DOMAIN base : base[j].name = base[i].name => i <= j)
               <=> (\A j \in DOMAIN old : old[j].name = Plain(n) => i <= j)
    <3>1. ASSUME \A j \in DOMAIN base : base[j].name = Plain(n) => i <= j,
                 NEW j \in DOMAIN old, old[j].name = Plain(n)
          PROVE  i <= j
      <4>1. CASE j \in DOMAIN base
        BY <1>3, <3>1, <4>1
      <4>2. CASE j \notin DOMAIN base
        <5>1. /\ DOMAIN base = 1 .. Len(base) /\ Len(base) \in Nat /\ DOMAIN old = 1 .. Len(old) /\ Len(old) \in Nat
          BY <1>1
        <5> QED
          BY <4>2, <5>1
      <4> QED
        BY <4>1, <4>2
    <3> QED
      BY <1>1, <1>3, <2>3, <3>1
  <2> HIDE DEF old, base
  <2> QED
    BY <1>3, <2>2, <2>3 DEF TypedIn, EditsRow, base
<1>5. ASSUME NEW i \in DOMAIN base PROVE FieldKept(c, i)
  <2>1. i \in DOMAIN old /\ FieldKept(d, i) /\ ~TypedIn(d, i)
    BY <1>1, <1>3
  <2>2. CASE TypedIn(c, i)
    BY <1>4, <2>1, <2>2 DEF FieldKept, PutsField, EditsRow
  <2>3. CASE ~TypedIn(c, i)
    BY <1>4, <2>1, <2>3 DEF FieldKept, PutsField, EditsRow
  <2> QED
    BY <2>2, <2>3
<1>6. ASSUME NEW u \in Slots[d.base.ty] PROVE SlotKept(c, u)
  <2>1. SlotKept(d, u)
    BY DEF EditOK
  <2>2. SlotRow(u) \in c.dirty <=> SlotRow(u) \in d.dirty
    BY RowsDiffer DEF EditsRow
  <2> QED
    BY <2>1, <2>2 DEF SlotKept, EditsRow
<1>7. ASSUME NEW m \in SshNames, NEW i \in DOMAIN new, new[i].name = Plain(m)
      PROVE  i \in DOMAIN old /\ new[i] = old[i]
  BY <1>2, <1>7 DEF PutsField
<1>8. PlainSsh(new)
  BY <1>7 DEF EditOK, PlainSsh, OneField
<1>9. \A i \in DOMAIN new \ DOMAIN base, m \in SshNames : new[i].name # Plain(m)
  BY <1>7 DEF EditOK
<1> QED
  BY <1>1, <1>5, <1>6, <1>8, <1>9 DEF EditOK, EditsRow

-----------------------------------------------------------------------------
(* An update carries the edit                                              *)

\* What the client sends is its buffer but for the notes.
SentAs(sent, e) ==
    /\ sent \in Entry /\ sent.live = e.live /\ sent.ty = e.ty /\ sent.key = e.key /\ sent.data = e.data
    /\ sent.fields = e.fields /\ sent.history = e.history /\ sent.reprompt = e.reprompt
\* The steps of handle_update_entry: m is what is sealed, merged from the buffer d and the
\* agent's copy.
MergedOf(sent, stored, st) == IF stored.live THEN MergeRedactedSecrets(sent, st) ELSE sent
UpdateOf(d, sent, stored, o, m) ==
    /\ d \in Drafts /\ EditOK(d) /\ SentAs(sent, d.entry) /\ SealedOK(stored)
    /\ stored.live => Kind(stored) = Kind(d.entry)
    /\ m = SyncSshFields(MergedOf(sent, stored, Decrypt(stored, o)))

\* A copy the agent can read has plaintext in every slot.
LEMMA ReadClean ==
    ASSUME NEW e \in Entry, NEW o, Readable(e, o), NEW s \in Slots[e.ty]
    PROVE  Clean(Decrypt(e, o).data[s])
<1> DEFINE b == Decrypt(e, o)
           k == EntryKey(e, o)
<1>1. Reads(b, e, k)
  BY DecryptFacts
<1> HIDE DEF b
<1>2. e.data[s] \in Value /\ s \in DOMAIN e.data /\ e.fields \in Seq(CustomField) /\ b.fields \in Seq(CustomField)
  BY <1>1, EntryParts DEF Reads
<1>3. e.data[s] = None \/ e.data[s].by = k
  BY <1>2 DEF Readable, Opens
<1>4. Clean(OpenedSlot(e, k, s))
  BY <1>2, <1>3, OpenFacts DEF OpenedSlot
<1>5. ASSUME NEW i \in DOMAIN b.fields PROVE Clean(b.fields[i].value)
  <2>1. i \in DOMAIN e.fields /\ e.fields[i].value \in Value
    BY <1>1, <1>2, FieldParts DEF Reads
  <2> QED
    BY <1>1, <2>1, OpenFacts DEF Reads
<1>6. Clean(LastField(b.fields, s))
  BY <1>2, <1>5, LastFieldValue
<1> HIDE DEF k
<1>7. Clean(b.data[s])
  BY <1>1, <1>4, <1>6 DEF Reads
<1> QED
  BY <1>7 DEF b

\* What is sealed is an entry with the head and the kind of the buffer.
LEMMA UpdateShape ==
    ASSUME NEW d, NEW sent, NEW stored, NEW o, NEW m, UpdateOf(d, sent, stored, o, m)
    PROVE  /\ m \in Entry /\ m.ty = d.base.ty /\ Kind(m) = Kind(d.entry) /\ PlainSsh(m.fields)
           /\ m.live = d.entry.live
           /\ m.history = d.base.history /\ m.reprompt = d.base.reprompt /\ m.key = d.base.key
           /\ DOMAIN d.base.fields \subseteq DOMAIN m.fields
<1> DEFINE st == Decrypt(stored, o)
           g == MergedOf(sent, stored, st)
<1>1. /\ d \in Drafts /\ EditOK(d) /\ SentAs(sent, d.entry) /\ SealedOK(stored) /\ stored \in Entry
      /\ stored.live => Kind(stored) = Kind(d.entry)
      /\ sent \in Entry /\ m = SyncSshFields(g)
  BY DEF UpdateOf, SealedOK, SentAs
<1>2. st \in Entry /\ st.key = stored.key
  BY <1>1, DecryptFacts DEF Reads
<1>3. /\ g \in Entry /\ g.ty = sent.ty /\ g.history = sent.history /\ g.reprompt = sent.reprompt
      /\ g.live = sent.live
      /\ g.key = sent.key /\ DOMAIN g.fields = DOMAIN sent.fields /\ PlainSsh(g.fields)
  <2> HIDE DEF st
  <2>1. PlainSsh(sent.fields)
    BY <1>1 DEF EditOK, SentAs
  <2>2. CASE ~stored.live
    BY <1>1, <2>1, <2>2 DEF MergedOf
  <2>3. CASE stored.live
    <3>1. Merges(g, sent, st)
      BY <1>1, <1>2, <2>3, MergeFacts DEF MergedOf
    <3> HIDE DEF g
    <3>2. PlainSsh(g.fields)
      BY <2>1, <3>1 DEF PlainSsh, OneField, Merges
    <3>3. g.key = sent.key
      BY <1>1, <1>2, <2>3, <3>1 DEF Merges, Kind, SentAs
    <3> QED
      BY <3>1, <3>2, <3>3 DEF Merges, SameHead
  <2> QED
    BY <2>2, <2>3
<1> HIDE DEF g
<1>4. Syncs(m, g)
  BY <1>1, <1>3, SyncFacts
<1> QED
  BY <1>1, <1>3, <1>4 DEF Syncs, SameHead, SentAs, EditOK, Kind

\* The custom fields of an SSH key are not edited by hand.
LEMMA SshNotTyped ==
    ASSUME NEW d, d.dirty \subseteq AllRows, NEW n \in SshNames
    PROVE  FieldRow(n) \notin d.dirty
<1> SUFFICES ASSUME FieldRow(n) \in d.dirty PROVE FALSE
  OBVIOUS
<1>1. FieldRow(n) \in Rows
  BY RowsDiffer, LabelOf DEF AllRows
<1>2. FieldRow(n)[2] = n
  BY DEF FieldRow
<1> QED
  BY <1>1, <1>2, RowsAssumption, RowsDiffer DEF SshNames

\* The value of a slot that the user means.
MeantSlot(d, st, s) ==
    IF SlotRow(s) \in d.dirty THEN d.entry.data[s]
    ELSE IF s \in RedactedSlots[d.entry.ty] /\ (~d.full \/ d.base.data[s] = None)
         THEN st.data[s]
    ELSE d.base.data[s]
\* The update carries it, in plaintext, and no custom field stands in for an empty one.
SlotsCarried(d, stored, o, m) ==
    \A s \in Slots[d.base.ty] :
        /\ m.data[s] = MeantSlot(d, Decrypt(stored, o), s) /\ Clean(m.data[s])
        /\ m.ty = "SshKey" /\ s \in SshNames /\ m.data[s] = None =>
              \A i \in DOMAIN m.fields : m.fields[i].name = Plain(s) => m.fields[i].value = None
LEMMA UpdateSlots ==
    ASSUME NEW d, NEW sent, NEW stored, NEW o, NEW m, UpdateOf(d, sent, stored, o, m),
           stored.live, Readable(stored, o), d.base.name.by = "plain"
    PROVE  SlotsCarried(d, stored, o, m)
<1> DEFINE st == Decrypt(stored, o)
           g == MergeRedactedSecrets(sent, st)
<1>1. /\ d \in Drafts /\ EditOK(d) /\ SentAs(sent, d.entry) /\ SealedOK(stored) /\ stored \in Entry
      /\ sent \in Entry /\ m = SyncSshFields(g) /\ d.entry \in Entry /\ d.base \in Entry
      /\ d.entry.ty = d.base.ty /\ stored.ty = d.base.ty /\ d.base.ty \in EntryTypes
  <2>1. Kind(stored) = Kind(d.entry) /\ d \in Drafts /\ EditOK(d)
    BY DEF UpdateOf
  <2>2. stored.ty = d.entry.ty /\ d.entry \in Entry /\ d.base \in Entry /\ d.entry.ty = d.base.ty
    BY <2>1 DEF Kind, Drafts, EditOK
  <2> QED
    BY <2>1, <2>2, EntryParts DEF UpdateOf, SealedOK, SentAs, MergedOf
<1>2. BaseOK(st, stored)
  BY <1>1, ReadBase
<1>3. \A s \in Slots[d.base.ty] : Clean(st.data[s])
  BY <1>1, ReadClean
<1> HIDE DEF st
<1>4. st \in Entry /\ st.ty = d.base.ty /\ CleanBase(st)
  BY <1>1, <1>2 DEF BaseOK, SameHead
<1>5. Merges(g, sent, st)
  BY <1>1, <1>4, MergeFacts
<1> HIDE DEF g
<1>6. Syncs(m, g)
  BY <1>1, <1>5, SyncFacts DEF Merges
<1>7. ASSUME NEW s \in Slots[d.base.ty]
      PROVE  /\ SlotKept(d, s)
             /\ m.data[s] = IF d.entry.data[s] = None /\ s \in RedactedSlots[d.base.ty]
                            THEN st.data[s] ELSE d.entry.data[s]
             /\ Clean(d.base.data[s])
  <2>1. SlotKept(d, s)
    BY <1>1 DEF EditOK
  <2>2. Clean(d.base.data[s])
    BY <1>1 DEF EditOK, CleanBase
  <2>3. m.data = g.data
    BY <1>6 DEF Syncs
  <2> QED
    BY <1>1, <1>4, <1>5, <2>1, <2>2, <2>3 DEF Merges, SentAs
<1>8. None.by = "none"
  BY DEF None
<1>9. ASSUME NEW s \in Slots[d.base.ty]
      PROVE  m.data[s] = MeantSlot(d, st, s) /\ Clean(m.data[s])
  <2>1. CASE SlotRow(s) \in d.dirty
    BY <1>7, <1>8, <2>1 DEF SlotKept, MeantSlot, Clean
  <2>2. CASE SlotRow(s) \notin d.dirty
    BY <1>1, <1>3, <1>7, <2>2 DEF SlotKept, MeantSlot
  <2> QED
    BY <2>1, <2>2
<1>10. ASSUME NEW s \in Slots[d.base.ty], m.ty = "SshKey", s \in SshNames, m.data[s] = None,
              NEW i \in DOMAIN m.fields, m.fields[i].name = Plain(s)
       PROVE  m.fields[i].value = None
  <2>1. g.ty = "SshKey" /\ d.base.ty = "SshKey" /\ g.data[s] = None
    <3>1. m.ty = g.ty /\ m.data = g.data
      BY <1>6 DEF Syncs, SameHead
    <3>2. g.ty = sent.ty /\ sent.ty = d.entry.ty
      BY <1>1, <1>5 DEF Merges, SameHead, SentAs
    <3> QED
      BY <1>1, <1>10, <3>1, <3>2
  <2>2. i \in DOMAIN g.fields /\ m.fields[i] = g.fields[i]
    BY <1>6, <1>10, <2>1 DEF Syncs
  <2>3. i \in DOMAIN d.entry.fields /\ d.entry.fields[i].name = Plain(s)
    BY <1>1, <1>5, <1>10, <2>2 DEF Merges, SentAs
  <2>4. /\ i \in DOMAIN d.base.fields /\ FieldKept(d, i) /\ d.base.fields[i].name = Plain(s)
        /\ d.entry.fields[i].ty = FieldTypeOf(s)
    BY <1>1, <1>10, <2>3 DEF EditOK, FieldKept, PlainSsh, OneField
  <2>5. ~TypedIn(d, i)
    <3>1. Plain(s).text = s
      BY DEF Plain
    <3>2. d.dirty \subseteq AllRows
      BY <1>1 DEF Drafts
    <3> QED
      BY <1>10, <2>4, <3>1, <3>2, SshNotTyped DEF TypedIn
  <2>6. d.entry.data[s] = None /\ (s \in RedactedSlots[d.base.ty] => st.data[s] = None)
    BY <1>7, <1>10
  <2>7. (~d.full /\ s \in RedactedSlots[d.base.ty]) \/ d.base.data[s] = None
    BY <1>7, <1>8, <2>6 DEF SlotKept
  <2>8. (~d.full /\ s \in RedactedSlots[d.base.ty]) \/ d.base.fields[i].value = None
    BY <1>1, <1>10, <2>1, <2>4, <2>7 DEF EditOK, CleanBase
  <2>9. CASE s = "public_key"
    <3>1. s \notin RedactedSlots[d.base.ty] /\ d.entry.fields[i].ty = "Text"
      BY <1>1, <2>4, <2>9, SlotsAgree DEF FieldTypeOf
    <3>2. d.entry.fields[i].value = None
      BY <2>4, <2>5, <2>8, <3>1 DEF FieldKept
    <3> QED
      BY <1>1, <1>5, <2>2, <2>3, <3>1, <3>2 DEF Merges, SentAs
  <2>10. CASE s = "private_key"
    <3>1. s \in RedactedSlots[d.base.ty] /\ d.entry.fields[i].ty = "Hidden"
      BY <2>1, <2>4, <2>10 DEF FieldTypeOf, RedactedSlots
    <3>2. d.entry.fields[i].value = None
      BY <2>4, <2>5, <2>8, <3>1 DEF FieldKept
    <3>3. \A j \in DOMAIN st.fields : st.fields[j].name = Plain(s) => st.fields[j].value = None
      BY <1>4, <1>10, <2>1, <2>6, <3>1 DEF CleanBase
    <3>4. StoredHidden(st, Plain(s)) = None
      BY <1>4, <3>3, StoredHiddenFacts
    <3> QED
      BY <1>1, <1>5, <2>2, <2>3, <3>1, <3>2, <3>4 DEF Merges, SentAs
  <2> QED
    BY <1>10, <2>9, <2>10 DEF SshNames
<1> QED
  BY <1>9, <1>10 DEF SlotsCarried, st

\* The value of a custom field that the user means.
MeantValue(d, st, i, v) ==
    LET f == d.base.fields[i]
        hidden == {j \in DOMAIN st.fields : st.fields[j].name = f.name /\ st.fields[j].ty = "Hidden"}
    IN IF TypedIn(d, i) \/ f.ty # "Hidden" \/ (d.full /\ f.value # None)
       THEN v = d.entry.fields[i].value
       ELSE \A j \in hidden : hidden = {j} => v = st.fields[j].value
\* The update carries it, in plaintext, but for the two fields that follow an SSH key's slots.
FieldsCarried(d, stored, o, m) ==
    \A i \in DOMAIN d.base.fields :
        ~(d.base.ty = "SshKey" /\ \E n \in SshNames : d.base.fields[i].name = Plain(n))
        => MeantValue(d, Decrypt(stored, o), i, m.fields[i].value) /\ Clean(m.fields[i].value)
LEMMA UpdateFields ==
    ASSUME NEW d, NEW sent, NEW stored, NEW o, NEW m, UpdateOf(d, sent, stored, o, m),
           stored.live, Readable(stored, o)
    PROVE  FieldsCarried(d, stored, o, m)
<1> DEFINE st == Decrypt(stored, o)
           g == MergeRedactedSecrets(sent, st)
<1>1. /\ d \in Drafts /\ EditOK(d) /\ SentAs(sent, d.entry) /\ SealedOK(stored)
      /\ sent \in Entry /\ m = SyncSshFields(g) /\ d.entry.ty = d.base.ty
  BY DEF UpdateOf, SentAs, MergedOf, EditOK
<1>2. BaseOK(st, stored)
  BY <1>1, ReadBase
<1> HIDE DEF st
<1>3. st \in Entry /\ CleanBase(st)
  BY <1>2 DEF BaseOK
<1>4. Merges(g, sent, st)
  BY <1>1, <1>3, MergeFacts
<1> HIDE DEF g
<1>5. Syncs(m, g)
  BY <1>1, <1>4, SyncFacts DEF Merges
<1>6. ASSUME NEW i \in DOMAIN d.base.fields,
             ~(d.base.ty = "SshKey" /\ \E n \in SshNames : d.base.fields[i].name = Plain(n))
      PROVE  MeantValue(d, st, i, m.fields[i].value) /\ Clean(m.fields[i].value)
  <2> DEFINE b == d.base.fields[i]
             f == d.entry.fields[i]
             v == m.fields[i].value
  <2>1. FieldKept(d, i) /\ i \in DOMAIN d.entry.fields /\ Clean(b.value) /\ f.name = b.name
    BY <1>1 DEF EditOK, CleanBase, FieldKept
  <2>2. /\ i \in DOMAIN g.fields /\ g.fields[i].name = b.name
        /\ g.fields[i].value = IF f.ty = "Hidden" /\ f.value = None THEN StoredHidden(st, b.name) ELSE f.value
    BY <1>1, <1>4, <2>1 DEF Merges, SentAs
  <2>3. g.ty = d.base.ty
    BY <1>1, <1>4 DEF Merges, SameHead, SentAs
  <2>4. m.fields[i] = g.fields[i]
    BY <1>5, <1>6, <2>2, <2>3 DEF Syncs
  <2>5. v = IF f.ty = "Hidden" /\ f.value = None THEN StoredHidden(st, b.name) ELSE f.value
    BY <2>2, <2>4
  <2>6. Clean(StoredHidden(st, b.name))
    BY <1>3, NoneValue, StoredHiddenFacts DEF CleanBase
  <2>7. None.by = "none"
    BY DEF None
  <2>8. CASE TypedIn(d, i)
    <3>1. f.value.by = "plain" /\ f.value # None
      BY <2>1, <2>7, <2>8 DEF FieldKept
    <3> HIDE DEF f, v
    <3> QED
      BY <2>5, <2>8, <3>1 DEF MeantValue, Clean, f, v
  <2>9. CASE ~TypedIn(d, i)
    <3>1. f.ty = b.ty /\ f.value = IF ~d.full /\ b.ty = "Hidden" THEN None ELSE b.value
      BY <2>1, <2>9 DEF FieldKept
    <3>2. Clean(v)
      BY <2>1, <2>5, <2>6, <3>1, NoneValue
    <3>3. CASE b.ty # "Hidden" \/ (d.full /\ b.value # None)
      <4>1. v = f.value
        BY <2>5, <3>1, <3>3
      <4> QED
        BY <3>2, <3>3, <4>1 DEF MeantValue
    <3>4. CASE ~(b.ty # "Hidden" \/ (d.full /\ b.value # None))
      <4>1. v = StoredHidden(st, b.name)
        BY <2>5, <3>1, <3>4
      <4> DEFINE hidden == {j \in DOMAIN st.fields : st.fields[j].name = b.name /\ st.fields[j].ty = "Hidden"}
      <4>2. ASSUME NEW j \in hidden, hidden = {j} PROVE v = st.fields[j].value
        BY <1>3, <4>1, <4>2, StoredHiddenFacts
      <4> QED
        BY <2>9, <3>2, <3>4, <4>2 DEF MeantValue
    <3> QED
      BY <3>3, <3>4
  <2> QED
    BY <2>8, <2>9
<1> QED
  BY <1>6 DEF FieldsCarried, st

\* The request of an update is a cipher of the entry's kind that the agent's keys open, and
\* it carries the edit.
LEMMA UpdatePut ==
    ASSUME NEW d, NEW sent, NEW stored, NEW o, NEW m, UpdateOf(d, sent, stored, o, m), PutKeyOpens(m),
           NEW r, r.req = PutRequest(m), r.stored = stored, r.edit = d, r.orgKeys = o
    PROVE  SealedOK(r.req) /\ Kind(r.req) = Kind(d.entry) /\ r.req.live = d.entry.live /\ PutOK(r)
<1> DEFINE q == PutRequest(m)
           k == PutKey(m)
           g == Decrypt(q, FALSE)
<1>1. /\ m \in Entry /\ m.ty = d.base.ty /\ Kind(m) = Kind(d.entry) /\ PlainSsh(m.fields)
      /\ m.live = d.entry.live
      /\ m.history = d.base.history /\ m.reprompt = d.base.reprompt /\ m.key = d.base.key
      /\ DOMAIN d.base.fields \subseteq DOMAIN m.fields
  BY UpdateShape
<1>2. Seals(q, m, k, PutSlots[m.ty]) /\ SealedOK(q) /\ EntryKey(q, FALSE) = k
  BY <1>1, PutFacts
<1>3. k \in {"user", "org", "item"}
  BY DEF PutKey
<1> HIDE DEF q, k
<1>4. Got(g, m, PutSlots[m.ty])
  BY <1>1, <1>2, <1>3, GotFacts
<1> HIDE DEF g
<1>5. Kind(q) = Kind(d.entry) /\ q.live = d.entry.live
  BY <1>1, <1>2 DEF Seals, Kind
<1>6. d.entry.ty = d.base.ty
  BY DEF UpdateOf, EditOK
<1>7. ASSUME Understood(r)
      PROVE  /\ \A s \in DOMAIN g.data \ {"fingerprint"} : g.data[s] = Meant(r, s)
             /\ \A i \in DOMAIN r.edit.base.fields :
                   ~FollowsSlot(r, i) => MeantField(r, i, g.fields[i].value)
  <2>1. stored.live /\ Readable(stored, o) /\ d.base.name.by = "plain"
    BY <1>7 DEF Understood
  <2>2. SlotsCarried(d, stored, o, m) /\ FieldsCarried(d, stored, o, m)
    BY <2>1, UpdateSlots, UpdateFields
  <2>3. ASSUME NEW s \in DOMAIN g.data \ {"fingerprint"} PROVE g.data[s] = Meant(r, s)
    <3>1. s \in Slots[m.ty] /\ s \in PutSlots[m.ty]
      BY <1>1, <1>4, <2>3, EntryParts, SlotsAgree DEF Got
    <3>2. g.data[s] = m.data[s] /\ m.data[s] = MeantSlot(d, Decrypt(stored, o), s)
      BY <1>1, <1>4, <2>2, <3>1 DEF SlotsCarried, Got
    <3> QED
      BY <3>2 DEF MeantSlot, Meant
  <2>4. ASSUME NEW i \in DOMAIN d.base.fields, ~FollowsSlot(r, i)
        PROVE  MeantField(r, i, g.fields[i].value)
    <3>1. ~(d.base.ty = "SshKey" /\ \E n \in SshNames : d.base.fields[i].name = Plain(n))
      BY <1>6, <2>4 DEF FollowsSlot, SshNames
    <3>2. MeantValue(d, Decrypt(stored, o), i, m.fields[i].value) /\ g.fields[i].value = m.fields[i].value
      BY <1>1, <1>4, <2>2, <3>1 DEF FieldsCarried, Got
    <3> QED
      BY <3>2 DEF MeantValue, MeantField, Typed, TypedIn
  <2> QED
    BY <2>3, <2>4
<1>8. PutOK(r)
  BY <1>1, <1>4, <1>7 DEF PutOK, Got, g, q
<1> QED
  BY <1>2, <1>5, <1>8 DEF q

-----------------------------------------------------------------------------
(* A new entry goes as it was typed                                        *)

\* What the client types are words.
LEMMA TextsWords ==
    ASSUME NEW x \in Texts
    PROVE  x \in Words /\ (x = "" \/ x = "new")
  BY TextsAssumption DEF Words

\* An entry without anything is one.
LEMMA BlankFacts ==
    ASSUME NEW ty \in EntryTypes
    PROVE  /\ Blank(ty) \in Entry /\ Blank(ty).live = FALSE /\ Blank(ty).trashed = FALSE /\ Blank(ty).ty = ty
           /\ Blank(ty).org = FALSE /\ Blank(ty).key = None /\ Blank(ty).fields = <<>>
           /\ Blank(ty).fav = FALSE
<1> DEFINE da == [s \in Slots[ty] |-> None]
<1>1. da \in [Slots[ty] -> Value] /\ da \in Datas
  BY NoneValue, DataTyped
<1> HIDE DEF da
<1>2. Blank(ty) = [live |-> FALSE, trashed |-> FALSE, ty |-> ty, org |-> FALSE,
                   folder |-> FALSE, fav |-> FALSE, reprompt |-> FALSE, key |-> None,
                   name |-> None, notes |-> None, data |-> da,
                   match |-> "none", fields |-> <<>>, history |-> {}]
  BY DEF Blank, da
<1>3. <<>> \in Seq(CustomField)
  OBVIOUS
<1> QED
  BY <1>1, <1>2, <1>3, NoneValue DEF Entry

\* handle_add_*: the entry that is posted, slot by slot.
AddsAs(h, e) ==
    /\ h \in Entry /\ h.ty = e.ty /\ h.key = None /\ h.org = FALSE /\ h.live = TRUE
    /\ h.notes = NonEmpty(e.notes)
    /\ \A s \in AddActionSlots[e.ty] :
          h.data[s] = IF s \in {"uri", "private_key"} THEN e.data[s] ELSE NonEmpty(e.data[s])
    /\ PlainSsh(h.fields)
    /\ \A n \in SshNames, i \in DOMAIN h.fields :
          h.data[n] = None /\ h.fields[i].name = Plain(n) => h.fields[i].value = None
LEMMA AddFacts ==
    ASSUME NEW e \in Entry, NewForm(e)
    PROVE  AddsAs(HandleAdd(SaveAction(Saved(e))), e)
<1> DEFINE sv == Saved(e)
           sa == SaveAction(sv)
           h == HandleAdd(sa)
<1> SUFFICES AddsAs(h, e)
  OBVIOUS
<1>1. PICK x \in Texts : e.notes = Plain(x) /\ e.fields = <<>> /\ e.data = [s \in Slots[e.ty] |-> Plain(x)]
  BY DEF NewForm
<1>2. /\ e.name \in Value /\ e.ty \in EntryTypes /\ e.match \in {"none", "Domain", "Never"} /\ e.key \in Value
      /\ e.data \in [Slots[e.ty] -> Value]
  BY EntryParts
<1> DEFINE y == NonEmpty(Plain(x))
<1>3. /\ Plain(x) \in Value /\ Plain(x) # None /\ Plain(x).text = x /\ y \in Value
      /\ y = IF x = "" THEN None ELSE Plain(x)
  BY TextsWords, PlainValue, NoneValue DEF NonEmpty
<1>4. /\ sv.name = e.name /\ sv.ty = e.ty /\ sv.match = e.match /\ sv.notes = y /\ sv.data = e.data
      /\ sv.fields = <<>> /\ sv = [e EXCEPT !.notes = y]
  BY <1>1 DEF Saved, Entry
<1> DEFINE sd == [s \in Slots[e.ty] |-> IF s \notin AddActionSlots[e.ty] THEN None
                                        ELSE IF s \in {"uri", "private_key"} THEN Plain(x) ELSE y]
<1>5. sa = [sv EXCEPT !.data = sd]
  <2>1. ASSUME NEW s \in Slots[e.ty]
        PROVE  (IF s \notin AddActionSlots[sv.ty] THEN None
                ELSE IF s = "uri" THEN sv.data[s]
                ELSE IF s = "private_key" /\ NonEmpty(sv.data[s]) = None THEN Plain("")
                ELSE NonEmpty(sv.data[s])) = sd[s]
    <3>1. sv.ty = e.ty /\ sv.data[s] = Plain(x)
      BY <1>1, <1>4
    <3>2. sd[s] = IF s \notin AddActionSlots[e.ty] THEN None
                  ELSE IF s \in {"uri", "private_key"} THEN Plain(x) ELSE y
      OBVIOUS
    <3>3. y = NonEmpty(Plain(x))
      OBVIOUS
    <3>4. (y = None => x = "") /\ (y # None => y = Plain(x))
      <4> HIDE DEF y
      <4> QED
        BY <1>3
    <3>5. IF y = None THEN Plain(x) = Plain("") ELSE y = Plain(x)
      BY <3>4
    <3> HIDE DEF sv, sd, y
    <3>6. CASE s \notin AddActionSlots[e.ty]
      BY <3>1, <3>2, <3>6
    <3>7. CASE s \in AddActionSlots[e.ty] /\ s = "uri"
      BY <3>1, <3>2, <3>7
    <3>8. CASE s \in AddActionSlots[e.ty] /\ s = "private_key"
      <4>1. NonEmpty(sv.data[s]) = y
        BY <3>1, <3>3
      <4>2. sd[s] = Plain(x)
        BY <3>2, <3>8
      <4> QED
        BY <3>1, <3>5, <3>8, <4>1, <4>2
    <3>9. CASE s \in AddActionSlots[e.ty] /\ s \notin {"uri", "private_key"}
      <4>1. NonEmpty(sv.data[s]) = y
        BY <3>1, <3>3
      <4> QED
        BY <3>1, <3>2, <3>9, <4>1
    <3> QED
      BY <3>6, <3>7, <3>8, <3>9
  <2>2. DOMAIN sv.data = Slots[e.ty]
    BY <1>2, <1>4
  <2>3. [s \in DOMAIN sv.data |-> IF s \notin AddActionSlots[sv.ty] THEN None
                ELSE IF s = "uri" THEN sv.data[s]
                ELSE IF s = "private_key" /\ NonEmpty(sv.data[s]) = None THEN Plain("")
                ELSE NonEmpty(sv.data[s])] = sd
    BY <2>1, <2>2
  <2> HIDE DEF sv, sd
  <2>4. sa = [sv EXCEPT !.data = [s \in DOMAIN sv.data |-> IF s \notin AddActionSlots[sv.ty] THEN None
                ELSE IF s = "uri" THEN sv.data[s]
                ELSE IF s = "private_key" /\ NonEmpty(sv.data[s]) = None THEN Plain("")
                ELSE NonEmpty(sv.data[s])]]
    <3>1. sv \in [live : BOOLEAN, trashed : BOOLEAN, ty : EntryTypes, org : BOOLEAN,
            folder : BOOLEAN, fav : BOOLEAN, reprompt : BOOLEAN, key : Value,
            name : Value, notes : Value, data : Datas, match : {"none", "Domain", "Never"},
            fields : Seq(CustomField), history : SUBSET {"h"}]
      <4> HIDE DEF y
      <4> QED
        BY <1>3, <1>4 DEF Entry
    <3> QED
      BY <3>1 DEF SaveAction
  <2> QED
    BY <2>3, <2>4
<1>6. sd \in [Slots[e.ty] -> Value]
  BY <1>3, NoneValue
<1>7. /\ sa.name = e.name /\ sa.ty = e.ty /\ sa.match = e.match /\ sa.notes = y /\ sa.data = sd /\ sa.fields = <<>>
  <2> HIDE DEF sd, y, sa
  <2> QED
    BY <1>4, <1>5 DEF Entry
<1> HIDE DEF sv, sa
<1> DEFINE hd == [s \in Slots[e.ty] |-> IF s \in HandleAddSlots[e.ty] THEN sd[s] ELSE None]
           hf == IF e.ty = "SshKey" THEN SshKeyFields(sa) ELSE <<>>
           b == Blank(e.ty)
<1>8. hd \in [Slots[e.ty] -> Value] /\ hd \in Datas
  <2> HIDE DEF sd
  <2>1. hd \in [Slots[e.ty] -> Value]
    BY <1>6, NoneValue
  <2> HIDE DEF hd
  <2> QED
    BY <1>2, <2>1, DataTyped
<1>9. h = [b EXCEPT !.live = TRUE, !.name = e.name, !.notes = y, !.match = e.match, !.data = hd, !.fields = hf]
  <2>1. [s \in DOMAIN sa.data |-> IF s \in HandleAddSlots[sa.ty] THEN sa.data[s] ELSE None] = hd
    BY <1>6, <1>7
  <2> HIDE DEF hd, y, sd, b
  <2> QED
    BY <1>7, <2>1 DEF HandleAdd, b
<1>10. \A s \in AddActionSlots[e.ty] : hd[s] = IF s \in {"uri", "private_key"} THEN e.data[s] ELSE NonEmpty(e.data[s])
  <2>1. ASSUME NEW s \in AddActionSlots[e.ty]
        PROVE  hd[s] = IF s \in {"uri", "private_key"} THEN e.data[s] ELSE NonEmpty(e.data[s])
    <3>1. s \in Slots[e.ty] /\ s \in HandleAddSlots[e.ty]
      BY <1>2, AddSlotsSent
    <3> QED
      BY <1>1, <3>1
  <2> QED
    BY <2>1
<1>11. /\ hf \in Seq(CustomField) /\ PlainSsh(hf)
       /\ \A n \in SshNames, i \in DOMAIN hf : hd[n] = None /\ hf[i].name = Plain(n) => hf[i].value = None
  <2>1. CASE e.ty # "SshKey"
    BY <2>1 DEF PlainSsh, OneField
  <2>2. CASE e.ty = "SshKey"
    <3> DEFINE fa == [name |-> Plain("private_key"), value |-> Plain(x), ty |-> "Hidden"]
               fb == [name |-> Plain("public_key"), value |-> y, ty |-> "Text"]
    <3>1. "private_key" \in AddActionSlots[e.ty] /\ "public_key" \in AddActionSlots[e.ty]
      BY <2>2 DEF AddActionSlots
    <3>2. "private_key" \in Slots[e.ty] /\ "public_key" \in Slots[e.ty]
      BY <1>2, <3>1, AddSlotsSent
    <3>3. sd["private_key"] = Plain(x) /\ sd["public_key"] = y
      BY <3>1, <3>2
    <3>4. hd["private_key"] = Plain(x)
      BY <1>1, <1>10, <3>1, <3>2
    <3>5. "private_key" \in Words /\ "public_key" \in Words
      BY DEF Words
    <3>6. fa \in CustomField /\ fb \in CustomField
      BY <1>3, <3>5, PlainValue DEF CustomField, Field, Value, FieldTypes
    <3>7. /\ fa.name = Plain("private_key") /\ fa.ty = "Hidden" /\ fb.name = Plain("public_key") /\ fb.ty = "Text"
          /\ fb.value = y /\ Plain("private_key") # Plain("public_key")
      BY DEF Plain
    <3>8. hf = <<>> \o <<fa>> \o (IF y = None THEN <<>> ELSE <<fb>>)
      BY <1>7, <2>2, <3>3 DEF SshKeyFields
    <3> HIDE DEF fa, fb, hf, y, hd, sd
    <3>9. <<fa>> \in Seq(CustomField) /\ DOMAIN <<fa>> = {1} /\ Len(<<fa>>) = 1 /\ <<fa>>[1] = fa
      BY <3>6
    <3>10. hf = IF y = None THEN <<fa>> ELSE Append(<<fa>>, fb)
      <4>1. <<>> \o <<fa>> = <<fa>> /\ <<fa>> \o <<>> = <<fa>>
        BY <3>9, ConcatEmptySeq
      <4>2. Append(<<fa>>, fb) = <<fa>> \o <<fb>>
        BY <3>6, <3>9, AppendIsConcat
      <4> QED
        BY <3>8, <4>1, <4>2
    <3>11. /\ hf \in Seq(CustomField)
           /\ \A i \in DOMAIN hf : i \in {1, 2} /\ (i = 1 => hf[i] = fa) /\ (i = 2 => hf[i] = fb /\ y # None)
      <4>1. CASE y = None
        BY <3>9, <3>10, <4>1
      <4>2. CASE y # None
        <5>1. hf \in Seq(CustomField) /\ Len(hf) = 2 /\ hf[1] = fa /\ hf[2] = fb
          BY <3>6, <3>9, <3>10, <4>2
        <5>2. DOMAIN hf = 1 .. 2
          BY <5>1
        <5>3. DOMAIN hf = {1, 2}
          BY <5>2
        <5> QED
          BY <4>2, <5>1, <5>3
      <4> QED
        BY <4>1, <4>2
    <3>12. PlainSsh(hf)
      BY <3>7, <3>11 DEF PlainSsh, OneField, FieldTypeOf, SshNames
    <3>13. hd["public_key"] = y
      BY <1>1, <1>10, <3>1, <3>2 DEF y
    <3>14. ASSUME NEW n \in SshNames, NEW i \in DOMAIN hf, hd[n] = None, hf[i].name = Plain(n)
           PROVE  FALSE
      BY <1>3, <3>4, <3>7, <3>11, <3>13, <3>14 DEF SshNames
    <3> QED
      BY <3>11, <3>12, <3>14
  <2> QED
    BY <2>1, <2>2
<1>12. b \in Entry /\ b.ty = e.ty /\ b.key = None /\ b.org = FALSE
  BY <1>2, BlankFacts
<1> HIDE DEF hd, hf, b, sd, y, h
<1>13. /\ h.ty = e.ty /\ h.key = None /\ h.org = FALSE /\ h.live = TRUE /\ h.notes = y /\ h.data = hd /\ h.fields = hf
  BY <1>9, <1>12 DEF Entry
<1>14. h \in [live : BOOLEAN, trashed : BOOLEAN, ty : EntryTypes, org : BOOLEAN,
            folder : BOOLEAN, fav : BOOLEAN, reprompt : BOOLEAN, key : Value,
            name : Value, notes : Value, data : Datas, match : {"none", "Domain", "Never"},
            fields : Seq(CustomField), history : SUBSET {"h"}]
  BY <1>2, <1>3, <1>8, <1>9, <1>11, <1>12 DEF Entry
<1>15. h \in Entry
  BY <1>8, <1>13, <1>14 DEF Entry
<1>16. y = NonEmpty(e.notes)
  BY <1>1 DEF y
<1> QED
  BY <1>10, <1>11, <1>13, <1>15, <1>16 DEF AddsAs

\* The request of a new entry is a cipher that the user's key opens, with what was typed.
LEMMA AddPost ==
    ASSUME NEW e \in Entry, NewForm(e), NEW r, r.edit.entry = e,
           r.req = PostRequest(HandleAdd(SaveAction(Saved(e))))
    PROVE  SealedOK(r.req) /\ r.req.live = TRUE /\ r.req.ty = e.ty /\ r.req.key = None /\ PostOK(r)
<1> DEFINE h == HandleAdd(SaveAction(Saved(e)))
           sent == PostSlots[h.ty] \cap PostBody[h.ty]
           q == PostRequest(h)
           g == Decrypt(q, FALSE)
<1>1. AddsAs(h, e)
  BY AddFacts
<1> HIDE DEF h
<1>2. h \in Entry /\ h.ty = e.ty /\ h.key = None /\ h.org = FALSE /\ h.live = TRUE /\ PlainSsh(h.fields)
  BY <1>1 DEF AddsAs
<1>3. Seals(q, h, "user", sent) /\ SameHead(q, h)
  <2>1. q = Sealed(h, "user", sent)
    BY DEF PostRequest, Sealed
  <2> HIDE DEF q, sent
  <2> QED
    BY <1>2, <2>1, EncryptFacts
<1> HIDE DEF q, sent
<1>4. q.key = None /\ q.org = FALSE /\ q.live = TRUE /\ q.ty = e.ty
  BY <1>2, <1>3 DEF Seals, SameHead
<1>5. EntryKey(q, FALSE) = "user" /\ EntryKey(q, TRUE) = "user"
  BY <1>4 DEF EntryKey
<1>6. SealedOK(q)
  BY <1>2, <1>3, <1>5, SealsOK
<1>7. Got(g, h, sent)
  BY <1>2, <1>3, <1>5, GotFacts
<1> HIDE DEF g
<1>8. PICK x \in Texts : e.notes = Plain(x) /\ e.data = [s \in Slots[e.ty] |-> Plain(x)]
  BY DEF NewForm
<1>9. /\ Plain(x) # None /\ Clean(Plain(x)) /\ Clean(NonEmpty(Plain(x)))
  BY TextsWords, PlainValue, NoneValue DEF NonEmpty
<1>10. e.ty \in EntryTypes /\ g.ty = e.ty /\ g.data \in [Slots[e.ty] -> Value]
  BY <1>2, <1>7, EntryParts DEF Got
<1>11. ASSUME NEW s \in AddActionSlots[e.ty]
       PROVE  g.data[s] = IF s \in {"uri", "private_key"} THEN e.data[s] ELSE NonEmpty(e.data[s])
  <2>1. s \in Slots[h.ty] /\ s \in sent
    BY <1>2, <1>10, AddSlotsSent DEF sent
  <2>2. h.data[s] = IF s \in {"uri", "private_key"} THEN e.data[s] ELSE NonEmpty(e.data[s])
    BY <1>1 DEF AddsAs
  <2>3. Clean(h.data[s])
    BY <1>2, <1>8, <1>9, <2>1, <2>2
  <2>4. s \in SshNames /\ h.data[s] = None =>
           \A i \in DOMAIN h.fields : h.fields[i].name = Plain(s) => h.fields[i].value = None
    BY <1>1 DEF AddsAs
  <2>5. g.data[s] = h.data[s]
    BY <1>7, <2>1, <2>3, <2>4 DEF Got
  <2> QED
    BY <2>2, <2>5
<1>12. g.notes = NonEmpty(e.notes)
  BY <1>1, <1>7, <1>8, <1>9 DEF Got, AddsAs
<1>13. ASSUME NEW s \in {"uri", "private_key"} \cap DOMAIN g.data PROVE g.data[s] = e.data[s]
  <2>1. s \in AddActionSlots[e.ty]
    BY <1>10, <1>13, SpecialSlotsSent
  <2> QED
    BY <1>11, <2>1
<1>14. PostOK(r)
  <2>1. g = Decrypt(r.req, FALSE)
    BY DEF g, q, h
  <2>2. g.ty = e.ty
    BY <1>10
  <2> QED
    BY <1>11, <1>12, <1>13, <2>1, <2>2 DEF PostOK
<1>15. r.req = q
  BY DEF q, h
<1> QED
  BY <1>4, <1>6, <1>14, <1>15

-----------------------------------------------------------------------------
(* The server and the other device                                         *)

\* Nothing is a cipher that needs no key.
LEMMA MissingOK ==
    /\ Missing \in Entry /\ SealedOK(Missing) /\ Missing.live = FALSE /\ Missing.trashed = FALSE
    /\ Gone \in Entry /\ SealedOK(Gone) /\ Gone.live = FALSE /\ Gone.trashed = TRUE
    /\ Missing # Gone
<1>1. /\ Missing \in Entry /\ Missing.live = FALSE /\ Missing.trashed = FALSE /\ Missing.fields = <<>>
  BY BlankFacts, TypesListed DEF Missing
<1>2. Gone \in Entry /\ Gone.live = FALSE /\ Gone.trashed = TRUE /\ Gone.fields = <<>>
  <2> DEFINE g == Gone
  <2>1. g = [Missing EXCEPT !.trashed = TRUE]
    BY DEF Gone
  <2> HIDE DEF g
  <2>2. g \in Entry /\ g.live = FALSE /\ g.trashed = TRUE /\ g.fields = <<>>
    BY <1>1, <2>1 DEF Entry
  <2> QED
    BY <2>2 DEF g
<1>3. SealedOK(Missing) /\ SealedOK(Gone)
  <2>1. SealedSsh(<<>>)
    BY DEF SealedSsh, OneSealed
  <2> QED
    BY <1>1, <1>2, <2>1 DEF SealedOK
<1> QED
  BY <1>1, <1>2, <1>3

\* Flags, folder and favourite have no part in what is sealed.
SameSecrets(d, e) ==
    /\ d.live = e.live /\ d.ty = e.ty /\ d.key = e.key /\ d.name = e.name /\ d.notes = e.notes
    /\ d.org = e.org /\ d.data = e.data /\ d.fields = e.fields
LEMMA SameSecretsOK ==
    ASSUME NEW e, NEW d \in Entry, SealedOK(e), SameSecrets(d, e)
    PROVE  SealedOK(d) /\ Kind(d) = Kind(e)
<1>1. EntryKey(d, TRUE) = EntryKey(e, TRUE)
  BY DEF EntryKey, SameSecrets
<1>2. Readable(e, TRUE) => Readable(d, TRUE)
  BY <1>1 DEF Readable, SameSecrets
<1> QED
  BY <1>2 DEF SealedOK, SameSecrets, Kind

\* to_entry keeps what is sealed, or gives nothing.
LEMMA ToEntryOK ==
    ASSUME NEW c, SealedOK(c)
    PROVE  /\ SealedOK(ToEntry(c)) /\ ToEntry(c) \in Entry
           /\ ToEntry(c).live => c.live /\ Kind(ToEntry(c)) = Kind(c)
<1>1. c \in Entry
  BY DEF SealedOK
<1>2. CASE ~c.live \/ c.trashed
  BY <1>2, MissingOK DEF ToEntry
<1>3. CASE ~(~c.live \/ c.trashed) /\ c.ty # "Login"
  BY <1>1, <1>3 DEF ToEntry, ToEntryData
<1>4. CASE ~(~c.live \/ c.trashed) /\ c.ty = "Login"
  <2> DEFINE d == ToEntry(c)
  <2>1. ReadMatch(c) \in {"none", "Domain"}
    BY DEF ReadMatch
  <2>2. d = [c EXCEPT !.match = ReadMatch(c)]
    BY <1>4 DEF ToEntry, ToEntryData
  <2> HIDE DEF d
  <2>3. d \in Entry /\ SameSecrets(d, c)
    BY <1>1, <2>1, <2>2 DEF Entry, SameSecrets
  <2> QED
    BY <1>4, <2>3, SameSecretsOK DEF d
<1> QED
  BY <1>2, <1>3, <1>4

\* A stocked entry is sealed with its own key.
LEMMA StockedOK ==
    ASSUME NEW ty \in EntryTypes, NEW b \in BOOLEAN
    PROVE  SealedOK(Stocked(ty, b)) /\ Stocked(ty, b) \in Entry /\ Stocked(ty, b) # Missing
<1> DEFINE k == IF b THEN "item" ELSE "user"
           v == Enc(k, Plain("old"))
           w == Enc(k, Plain("f1"))
           key == IF b THEN Enc("user", Plain("item")) ELSE None
           da == [s \in Slots[ty] |-> v]
           fa == [name |-> w, value |-> v, ty |-> "Hidden"]
           fb == [name |-> w, value |-> v, ty |-> "Text"]
           pw == Enc(k, Label["password"])
           fc == [name |-> pw, value |-> v, ty |-> "Hidden"]
           ma == IF ty = "Login" THEN "Never" ELSE "none"
           bl == Blank(ty)
           e == Stocked(ty, b)
<1>1. "old" \in Words /\ "f1" \in Words /\ "item" \in Words /\ "Password" \in Words
  BY DEF Words
<1>0. Label["password"] = Plain("Password")
  BY DEF Label
<1>2. /\ Plain("Password") \in Value /\ Plain("Password") # None
      /\ Plain("Password").by = "plain" /\ Plain("Password").text = "Password"
      /\ Plain("old") \in Value /\ Plain("f1") \in Value /\ Plain("item") \in Value
      /\ Plain("old") # None /\ Plain("f1") # None /\ Plain("item") # None
      /\ Plain("f1").by = "plain" /\ Plain("f1").text = "f1"
  BY <1>1, PlainValue
<1>3. /\ v \in Value /\ w \in Value /\ v.by = k /\ w.by = k /\ w.text = "f1"
      /\ pw \in Value /\ pw.by = k /\ pw.text = "Password"
  BY <1>0, <1>2, EncFacts
<1>4. key \in Value /\ (b => key # None /\ key.by = "user") /\ (~b => key = None)
  BY <1>2, EncFacts, NoneValue
<1>5. bl \in Entry /\ bl.org = FALSE /\ bl.ty = ty
  BY BlankFacts
<1>6. e = [bl EXCEPT !.live = TRUE, !.folder = TRUE, !.history = {"h"}, !.reprompt = b, !.key = key,
              !.name = v, !.notes = v, !.data = da, !.match = ma, !.fields = <<fa, fb, fc>>]
  BY DEF Stocked
<1>7. ma \in {"none", "Domain", "Never"} /\ {"h"} \in SUBSET {"h"}
  OBVIOUS
<1>8. fa \in CustomField /\ fb \in CustomField /\ fa.name = w /\ fb.name = w /\ fa.value = v /\ fb.value = v
      /\ fc \in CustomField /\ fc.name = pw /\ fc.value = v
  <2> HIDE DEF v, w, pw
  <2> QED
    BY <1>3 DEF CustomField, Field, Value, FieldTypes
<1> HIDE DEF fa, fb, fc, pw, v, w, key, k, ma, bl
<1>9. da \in [Slots[ty] -> Value]
  BY <1>3
<1>10. da \in Datas
  <2> HIDE DEF da
  <2> QED
    BY <1>9, DataTyped
<1>11. /\ <<fa, fb, fc>> \in Seq(CustomField) /\ DOMAIN <<fa, fb, fc>> = {1, 2, 3}
       /\ <<fa, fb, fc>>[1] = fa /\ <<fa, fb, fc>>[2] = fb /\ <<fa, fb, fc>>[3] = fc
  BY <1>8
<1> DEFINE fs == <<fa, fb, fc>>
<1> HIDE DEF fs, e, da
<1>12. e = [bl EXCEPT !.live = TRUE, !.folder = TRUE, !.history = {"h"}, !.reprompt = b, !.key = key,
              !.name = v, !.notes = v, !.data = da, !.match = ma, !.fields = fs]
  BY <1>6 DEF fs
<1>13. fs \in Seq(CustomField)
  BY <1>11 DEF fs
<1>14. /\ e.live = TRUE /\ e.ty = ty /\ e.org = FALSE /\ e.key = key /\ e.name = v /\ e.notes = v
       /\ e.data = da /\ e.fields = fs
  BY <1>5, <1>12 DEF Entry
<1>15. e \in [live : BOOLEAN, trashed : BOOLEAN, ty : EntryTypes, org : BOOLEAN,
            folder : BOOLEAN, fav : BOOLEAN, reprompt : BOOLEAN, key : Value,
            name : Value, notes : Value, data : Datas, match : {"none", "Domain", "Never"},
            fields : Seq(CustomField), history : SUBSET {"h"}]
  BY <1>3, <1>4, <1>5, <1>7, <1>10, <1>12, <1>13 DEF Entry
<1>16. e \in Entry
  BY <1>9, <1>14, <1>15 DEF Entry
<1>17. EntryKey(e, TRUE) = k
  BY <1>4, <1>14 DEF EntryKey, Opens, k
<1>18. \A i \in DOMAIN fs : fs[i].name \in {w, pw} /\ fs[i].value = v
  BY <1>8, <1>11 DEF fs
<1>19. \A s \in DOMAIN da : da[s] = v
  BY DEF da
<1>20. Readable(e, TRUE)
  BY <1>3, <1>14, <1>17, <1>18, <1>19 DEF Readable, Opens
<1>21. SealedSsh(e.fields)
  BY <1>3, <1>14, <1>18 DEF SealedSsh, OneSealed, SshNames
<1>22. SealedOK(e) /\ e # Missing
  BY <1>14, <1>16, <1>20, <1>21, MissingOK DEF SealedOK
<1> QED
  BY <1>16, <1>22 DEF e

\* Moving an entry to the organization seals it anew: its item key, or else its values.
LEMMA ResealedFacts ==
    ASSUME NEW v \in Value
    PROVE  /\ Resealed(v) \in Value /\ Resealed(v).text = v.text
           /\ Resealed(v).by = IF v.by = "user" THEN "org" ELSE v.by
           /\ Resealed(v) = None <=> v = None
<1>1. None.by = "none"
  BY DEF None
<1>2. CASE v.by = "user"
  BY <1>1, <1>2 DEF Resealed, Value, Values
<1>3. CASE v.by # "user"
  BY <1>3 DEF Resealed
<1> QED
  BY <1>2, <1>3
LEMMA SharedOK ==
    ASSUME NEW e, SealedOK(e), e.live, ~e.org
    PROVE  /\ SealedOK(Shared(e)) /\ Shared(e) \in Entry /\ Shared(e).live = TRUE
           /\ Kind(Shared(e)) = Kind(e)
<1> DEFINE d == Shared(e)
           da == [s \in Slots[e.ty] |-> Resealed(e.data[s])]
           fs == [i \in DOMAIN e.fields |-> [e.fields[i] EXCEPT !.name = Resealed(e.fields[i].name),
                                                               !.value = Resealed(e.fields[i].value)]]
           m == [e EXCEPT !.key = Resealed(e.key), !.name = Resealed(e.name), !.notes = Resealed(e.notes),
                          !.data = da, !.fields = fs]
<1>1. e \in Entry /\ Readable(e, TRUE) /\ SealedSsh(e.fields)
  BY DEF SealedOK
<1>2. /\ e.key \in Value /\ e.name \in Value /\ e.notes \in Value /\ e.data \in [Slots[e.ty] -> Value]
      /\ e.fields \in Seq(CustomField) /\ e.live \in BOOLEAN
  BY <1>1, EntryParts
<1>3. Resealed(e.key) \in Value /\ Resealed(e.name) \in Value /\ Resealed(e.notes) \in Value
  BY <1>2, ResealedFacts
<1>4. da \in [Slots[e.ty] -> Value] /\ \A s \in Slots[e.ty] : da[s] = Resealed(e.data[s])
  BY <1>2, ResealedFacts
<1>5. ASSUME NEW i \in DOMAIN e.fields
      PROVE  /\ fs[i] \in CustomField /\ fs[i].ty = e.fields[i].ty
             /\ fs[i].name = Resealed(e.fields[i].name) /\ fs[i].value = Resealed(e.fields[i].value)
             /\ e.fields[i].name \in Value /\ e.fields[i].value \in Value
  <2>1. e.fields[i] \in CustomField /\ e.fields[i].name \in Value /\ e.fields[i].value \in Value
    BY <1>2, FieldParts
  <2>2. Resealed(e.fields[i].name) \in Value /\ Resealed(e.fields[i].value) \in Value
    BY <2>1, ResealedFacts
  <2>3. RewritesField(fs[i], e.fields[i], Resealed(e.fields[i].name), Resealed(e.fields[i].value))
    BY <2>1, <2>2 DEF RewritesField
  <2> HIDE DEF fs
  <2> QED
    BY <2>1, <2>3, FieldRewritten
<1>6. fs \in Seq(CustomField) /\ DOMAIN fs = DOMAIN e.fields
  <2>1. Maps(fs, e.fields)
    BY DEF Maps
  <2> HIDE DEF fs
  <2> QED
    BY <1>2, <1>5, <2>1, MapSeq
<1>7. d = [e EXCEPT !.org = TRUE, !.key = Resealed(e.key), !.name = Resealed(e.name), !.notes = Resealed(e.notes),
                    !.data = da, !.fields = fs]
  <2>1. [s \in DOMAIN e.data |-> Resealed(e.data[s])] = da
    BY <1>2
  <2>2. [i \in DOMAIN e.fields |-> [e.fields[i] EXCEPT !.name = Resealed(@), !.value = Resealed(@)]] = fs
    BY <1>2 DEF CustomField, Field
  <2> HIDE DEF da, fs
  <2>3. d = [e EXCEPT !.org = TRUE, !.key = Resealed(e.key), !.name = Resealed(e.name), !.notes = Resealed(e.notes),
                      !.data = [s \in DOMAIN e.data |-> Resealed(e.data[s])],
                      !.fields = [i \in DOMAIN e.fields |->
                                     [e.fields[i] EXCEPT !.name = Resealed(@), !.value = Resealed(@)]]]
    BY <1>1 DEF Shared, Entry
  <2> QED
    BY <2>1, <2>2, <2>3
<1> HIDE DEF da, fs
<1>8. /\ m \in Entry /\ SameHead(m, e) /\ m.key = Resealed(e.key) /\ m.name = Resealed(e.name)
      /\ m.notes = Resealed(e.notes) /\ m.data = da /\ m.fields = fs
  <2>1. Rewrites(m, e, Resealed(e.key), Resealed(e.name), Resealed(e.notes), da, fs)
    BY <1>1, <1>3, <1>4, <1>6 DEF Rewrites
  <2> HIDE DEF m
  <2> QED
    BY <2>1, Rewritten
<1>9. d = [m EXCEPT !.org = TRUE]
  <2> HIDE DEF d
  <2> QED
    BY <1>1, <1>7 DEF Entry
<1> HIDE DEF d, m
<1>10. /\ d \in Entry /\ d.org = TRUE /\ d.live = e.live /\ d.ty = e.ty /\ d.key = Resealed(e.key)
       /\ d.name = Resealed(e.name) /\ d.notes = Resealed(e.notes) /\ d.data = da /\ d.fields = fs
  <2>1. d \in Entry /\ d.org = TRUE /\ d.live = m.live /\ d.ty = m.ty /\ d.key = m.key /\ d.name = m.name
        /\ d.notes = m.notes /\ d.data = m.data /\ d.fields = m.fields
    BY <1>8, <1>9 DEF Entry
  <2> QED
    BY <1>8, <2>1 DEF SameHead
<1> DEFINE k == EntryKey(e, TRUE)
           j == EntryKey(d, TRUE)
<1>11. Kind(d) = Kind(e)
  BY <1>2, <1>10, ResealedFacts DEF Kind
<1>12. ASSUME NEW v \in Value, v = None \/ Opens(k, v) PROVE Resealed(v) = None \/ Opens(j, Resealed(v))
  <2>1. Resealed(e.key) = None <=> e.key = None
    BY <1>2, ResealedFacts
  <2>2. /\ Resealed(e.key).by = IF e.key.by = "user" THEN "org" ELSE e.key.by
        /\ Resealed(v) = None <=> v = None
        /\ Resealed(v).by = IF v.by = "user" THEN "org" ELSE v.by
    BY <1>2, ResealedFacts
  <2>3. CASE e.key = None
    <3>1. k = "user" /\ j = "org"
      BY <1>10, <2>1, <2>3 DEF EntryKey
    <3> QED
      BY <1>12, <2>2, <3>1 DEF Opens
  <2>4. CASE e.key # None /\ e.key.by = "user"
    <3>1. k = "item" /\ j = "item"
      BY <1>10, <2>1, <2>2, <2>4 DEF EntryKey, Opens
    <3> QED
      BY <1>12, <2>2, <3>1 DEF Opens
  <2>5. CASE e.key # None /\ e.key.by # "user"
    <3>1. k = "unreadable"
      BY <2>5 DEF EntryKey, Opens
    <3>2. v = None
      BY <1>12, <3>1, ValueParts DEF Opens
    <3> QED
      BY <2>2, <3>2
  <2> QED
    BY <2>3, <2>4, <2>5
<1> HIDE DEF k, j
<1>13. Readable(d, TRUE)
  <2> DEFINE OK(v) == v = None \/ Opens(j, v)
  <2>1. OK(d.name) /\ OK(d.notes)
    BY <1>1, <1>2, <1>10, <1>12 DEF Readable, k
  <2>2. ASSUME NEW s \in DOMAIN d.data PROVE OK(d.data[s])
    <3>1. s \in Slots[e.ty] /\ e.data[s] \in Value /\ d.data[s] = Resealed(e.data[s])
      BY <1>2, <1>4, <1>10
    <3>2. e.data[s] = None \/ Opens(k, e.data[s])
      BY <1>1, <1>2, <3>1 DEF Readable, k
    <3> QED
      BY <1>12, <3>1, <3>2
  <2>3. ASSUME NEW i \in DOMAIN d.fields PROVE OK(d.fields[i].name) /\ OK(d.fields[i].value)
    <3>1. i \in DOMAIN e.fields
      BY <1>6, <1>10
    <3>2. /\ e.fields[i].name = None \/ Opens(k, e.fields[i].name)
          /\ e.fields[i].value = None \/ Opens(k, e.fields[i].value)
      BY <1>1, <3>1 DEF Readable, k
    <3>3. /\ d.fields[i].name = Resealed(e.fields[i].name) /\ d.fields[i].value = Resealed(e.fields[i].value)
          /\ e.fields[i].name \in Value /\ e.fields[i].value \in Value
      BY <1>5, <1>10, <3>1
    <3> QED
      BY <1>12, <3>2, <3>3
  <2> QED
    BY <2>1, <2>2, <2>3 DEF Readable, j
<1>14. SealedSsh(d.fields)
  <2>1. \A i \in DOMAIN e.fields : fs[i].name.text = e.fields[i].name.text /\ fs[i].ty = e.fields[i].ty
    BY <1>5, ResealedFacts
  <2> QED
    BY <1>1, <1>6, <1>10, <2>1 DEF SealedSsh, OneSealed
<1>15. SealedOK(d) /\ d.live = TRUE
  BY <1>2, <1>10, <1>13, <1>14 DEF SealedOK
<1> QED
  BY <1>10, <1>11, <1>15 DEF d

\* Another device writes other texts into the slots.
Overwritten(v) == IF v = None THEN None ELSE [v EXCEPT !.text = "other"]
OtherTexts(e) == [e EXCEPT !.data = [s \in DOMAIN @ |-> Overwritten(@[s])]]
LEMMA OtherTextsOK ==
    ASSUME NEW e, SealedOK(e)
    PROVE  /\ SealedOK(OtherTexts(e)) /\ OtherTexts(e) \in Entry /\ OtherTexts(e).live = e.live
           /\ Kind(OtherTexts(e)) = Kind(e)
<1> DEFINE d == OtherTexts(e)
           da == [s \in Slots[e.ty] |-> Overwritten(e.data[s])]
<1>1. e \in Entry /\ (e.live => Readable(e, TRUE)) /\ SealedSsh(e.fields)
  BY DEF SealedOK
<1>2. /\ e.key \in Value /\ e.name \in Value /\ e.notes \in Value /\ e.data \in [Slots[e.ty] -> Value]
      /\ e.fields \in Seq(CustomField)
  BY <1>1, EntryParts
<1>3. "other" \in Words
  BY DEF Words
<1>4. \A v \in Value : Overwritten(v) \in Value /\ (v = None => Overwritten(v) = None)
                       /\ (v # None => Overwritten(v).by = v.by)
  BY <1>3, NoneValue DEF Overwritten, Value, Values
<1>5. da \in [Slots[e.ty] -> Value] /\ \A s \in Slots[e.ty] : da[s] = Overwritten(e.data[s])
  BY <1>2, <1>4
<1>6. d = [e EXCEPT !.key = e.key, !.name = e.name, !.notes = e.notes, !.data = da, !.fields = e.fields]
  <2>1. [s \in DOMAIN e.data |-> Overwritten(e.data[s])] = da
    BY <1>2
  <2> HIDE DEF da
  <2>2. d = [e EXCEPT !.data = da]
    BY <1>1, <2>1 DEF OtherTexts, Entry
  <2> HIDE DEF d
  <2> QED
    BY <1>1, <2>2 DEF Entry
<1> HIDE DEF d, da
<1>7. /\ d \in Entry /\ SameHead(d, e) /\ d.key = e.key /\ d.name = e.name /\ d.notes = e.notes /\ d.data = da
      /\ d.fields = e.fields
  <2>1. Rewrites(d, e, e.key, e.name, e.notes, da, e.fields)
    BY <1>1, <1>2, <1>5, <1>6 DEF Rewrites
  <2> QED
    BY <2>1, Rewritten
<1>8. EntryKey(d, TRUE) = EntryKey(e, TRUE) /\ d.live = e.live /\ Kind(d) = Kind(e)
  BY <1>7 DEF EntryKey, SameHead, Kind
<1>9. ASSUME Readable(e, TRUE) PROVE Readable(d, TRUE)
  <2>1. ASSUME NEW s \in DOMAIN d.data PROVE d.data[s] = None \/ Opens(EntryKey(e, TRUE), d.data[s])
    <3>1. s \in Slots[e.ty] /\ e.data[s] \in Value /\ d.data[s] = Overwritten(e.data[s]) /\ s \in DOMAIN e.data
      BY <1>2, <1>5, <1>7
    <3>2. e.data[s] = None \/ Opens(EntryKey(e, TRUE), e.data[s])
      BY <1>9, <3>1 DEF Readable
    <3> QED
      BY <1>4, <3>1, <3>2 DEF Opens
  <2> QED
    BY <1>7, <1>8, <1>9, <2>1 DEF Readable
<1> QED
  BY <1>1, <1>7, <1>8, <1>9 DEF SealedOK, d

-----------------------------------------------------------------------------
(* Buffers and requests                                                    *)

\* An empty buffer, and an agent with nothing to do.
LEMMA NoneTyped ==
    /\ NoDraft \in Drafts /\ DraftOK(NoDraft) /\ NoDraft.open = FALSE
    /\ NoTask \in TaskRecords /\ NoTask.req = Missing /\ NoTask.edit = NoDraft
    /\ NoTask.snap = [i \in Ids |-> Missing] /\ NoTask.op = "idle"
<1>1. NoDraft \in Drafts /\ NoDraft.open = FALSE
  BY MissingOK DEF NoDraft, Drafts
<1>2. DraftOK(NoDraft)
  BY <1>1 DEF DraftOK
<1>3. [i \in Ids |-> Missing] \in [Ids -> Entry]
  BY MissingOK
<1> DEFINE sn == [i \in Ids |-> Missing]
<1> HIDE DEF sn
<1>4. NoTask = [op |-> "idle", id |-> NoId, fav |-> FALSE, req |-> Missing, snap |-> sn, snapOrg |-> FALSE,
                stored |-> Missing, edit |-> NoDraft, orgKeys |-> FALSE]
  BY DEF NoTask, sn
<1>5. NoTask \in TaskRecords /\ NoTask.req = Missing /\ NoTask.edit = NoDraft /\ NoTask.snap = sn /\ NoTask.op = "idle"
  BY <1>1, <1>3, <1>4, MissingOK DEF TaskRecords, Ops, sn
<1> QED
  BY <1>1, <1>2, <1>5 DEF sn

\* A request that carries no entry.
Carrying(r) == r.req # Missing \/ r.edit # NoDraft \/ r.snap # [i \in Ids |-> Missing] \/ r.op \in {"put", "post"}
LEMMA LightTask ==
    ASSUME NEW r \in TaskRecords, ~Carrying(r)
    PROVE  /\ TaskOK(r)
           /\ \A K, srv : (r.op \in Writes => r.id \in Ids /\ srv[r.id] # Missing) => TaskOf(K, srv, r)
<1>1. r.req = Missing /\ r.edit = NoDraft /\ r.snap = [i \in Ids |-> Missing] /\ r.op \notin {"put", "post"}
  BY DEF Carrying
<1>2. SealedAll(r.snap) /\ \A i \in Ids : r.snap[i] = Missing
  BY <1>1, MissingOK DEF SealedAll
<1>3. TaskOK(r)
  BY <1>1, <1>2, MissingOK, NoneTyped DEF TaskOK, PutOK, PostOK
<1>4. ASSUME NEW K, NEW srv, r.op \in Writes => r.id \in Ids /\ srv[r.id] # Missing PROVE TaskOf(K, srv, r)
  <2>1. \A i \in Ids : ~r.snap[i].live
    BY <1>2, MissingOK
  <2>2. DraftOf(K, srv, r.edit)
    BY <1>1, NoneTyped DEF DraftOf
  <2> QED
    BY <1>1, <1>4, <2>1, <2>2 DEF TaskOf, Writes
<1> QED
  BY <1>3, <1>4

\* The lightest of them.
LEMMA IdleTasks ==
    ASSUME NEW r \in {NoTask, [NoTask EXCEPT !.op = "sync"]}
    PROVE  TaskOK(r) /\ r.op \notin Writes /\ \A K, srv : TaskOf(K, srv, r)
<1>1. /\ r \in TaskRecords /\ r.req = Missing /\ r.edit = NoDraft /\ r.snap = [i \in Ids |-> Missing]
      /\ r.op \in {"idle", "sync"}
  <2>1. CASE r = NoTask
    BY <2>1, NoneTyped
  <2>2. CASE r = [NoTask EXCEPT !.op = "sync"]
    BY <2>2, NoneTyped DEF TaskRecords, Ops
  <2> QED
    BY <2>1, <2>2
<1>2. ~Carrying(r) /\ r.op \notin Writes
  BY <1>1 DEF Carrying, Writes
<1> QED
  BY <1>1, <1>2, LightTask

\* One request replaced.
TaskSet(k2, ks, t, r) == k2 = [ks EXCEPT ![t] = r]
LEMMA TaskSetOK ==
    ASSUME NEW ks, TasksOK(ks), NEW t \in Tasks, NEW r, TaskOK(r), NEW k2, TaskSet(k2, ks, t, r)
    PROVE  TasksOK(k2) /\ k2[t] = r /\ \A u \in Tasks : u # t => k2[u] = ks[u]
<1>1. ks \in [Tasks -> TaskRecords] /\ r \in TaskRecords
  BY DEF TasksOK, TaskOK
<1>2. k2 \in [Tasks -> TaskRecords] /\ k2[t] = r /\ \A u \in Tasks : u # t => k2[u] = ks[u]
  BY <1>1 DEF TaskSet
<1> QED
  BY <1>2 DEF TasksOK

\* The kinds of the entries after a request is replaced.
LEMMA TaskSetKinds ==
    ASSUME NEW ks, NEW k2, NEW t \in Tasks, NEW K, NEW srv, NEW d, NEW dr, KindsAre(K, srv, d, dr, ks),
           TaskOf(K, srv, k2[t]), \A u \in Tasks : u # t => k2[u] = ks[u]
    PROVE  KindsAre(K, srv, d, dr, k2)
<1>1. ASSUME NEW u \in Tasks PROVE TaskOf(K, srv, k2[u])
  <2>1. TaskOf(K, srv, ks[u])
    BY DEF KindsAre
  <2> QED
    BY <2>1
<1> QED
  BY <1>1 DEF KindsAre

\* No second POST for an id.
LEMMA TaskSetPost ==
    ASSUME NEW ks, NEW k2, NEW t \in Tasks, OnePost(ks), \A u \in Tasks : u # t => k2[u] = ks[u],
           k2[t].op = "post" => \A u \in Tasks : ~(ks[u].op = "post" /\ ks[u].id = k2[t].id)
    PROVE  OnePost(k2)
<1> SUFFICES ASSUME NEW u \in Tasks, NEW v \in Tasks, k2[u].op = "post", k2[v].op = "post", k2[u].id = k2[v].id
             PROVE  u = v
  BY DEF OnePost
<1>1. CASE u = t /\ v # t
  BY <1>1
<1>2. CASE u # t /\ v = t
  BY <1>2
<1>3. CASE u # t /\ v # t
  BY <1>3 DEF OnePost
<1> QED
  BY <1>1, <1>2, <1>3

\* An entry of the server replaced: ids that exist go on existing, with their kind.
LEMMA ServerSetKinds ==
    ASSUME NEW ks, NEW K, NEW K2, NEW srv, NEW s2, NEW d, NEW dr, KindsAre(K, srv, d, dr, ks), NEW id \in Ids,
           TasksOK(ks), DraftOK(dr),
           \A i \in Ids : i # id => s2[i] = srv[i] /\ K2[i] = K[i],
           s2[id] # Missing, srv[id] # Missing => K2[id] = K[id],
           s2[id].live => Kind(s2[id]) = K2[id],
           \A u \in Tasks : ~(ks[u].op = "post" /\ ks[u].id = id)
    PROVE  KindsAre(K2, s2, d, dr, ks)
<1>1. ASSUME NEW i \in Ids, NEW e, Of(K, srv, i, e) PROVE Of(K2, s2, i, e)
  BY <1>1 DEF Of
<1>2. ASSUME NEW x, x.id \in Ids \cup {NoId}, DraftOf(K, srv, x) PROVE DraftOf(K2, s2, x)
  BY <1>1, <1>2 DEF DraftOf
<1>3. ASSUME NEW i \in Ids, s2[i].live PROVE Of(K2, s2, i, s2[i])
  <2>1. CASE i = id
    BY <1>3, <2>1 DEF Of
  <2>2. CASE i # id
    BY <1>1, <1>3, <2>2 DEF KindsAre
  <2> QED
    BY <2>1, <2>2
<1>4. ASSUME NEW i \in Ids, d[i].live PROVE Of(K2, s2, i, d[i])
  BY <1>1, <1>4 DEF KindsAre
<1>5. DraftOf(K2, s2, dr)
  BY <1>2 DEF KindsAre, DraftOK, Drafts
<1>6. ASSUME NEW u \in Tasks PROVE TaskOf(K2, s2, ks[u])
  <2> DEFINE r == ks[u]
  <2>1. TaskOf(K, srv, r) /\ TaskOK(r) /\ ~(r.op = "post" /\ r.id = id)
    BY DEF KindsAre, TasksOK
  <2> HIDE DEF r
  <2>2. DraftOf(K2, s2, r.edit)
    <3>1. r.edit.id \in Ids \cup {NoId}
      BY <2>1 DEF TaskOK, DraftOK, Drafts
    <3> QED
      BY <1>2, <2>1, <3>1 DEF TaskOf
  <2>3. \A i \in Ids : r.snap[i].live => Of(K2, s2, i, r.snap[i])
    BY <1>1, <2>1 DEF TaskOf
  <2>4. r.op \in Writes => r.id \in Ids
    BY <2>1 DEF TaskOf
  <2>5. r.op \in {"put", "delete", "fav"} => s2[r.id] # Missing
    BY <2>1, <2>4 DEF TaskOf, Writes
  <2>6. r.op = "put" => Of(K2, s2, r.id, r.req)
    BY <1>1, <2>1, <2>4 DEF TaskOf, Writes
  <2>7. r.op = "post" => s2[r.id] = Missing
    BY <2>1, <2>4 DEF TaskOf, Writes
  <2> QED
    BY <2>2, <2>3, <2>4, <2>5, <2>6, <2>7 DEF TaskOf, r
<1> QED
  BY <1>3, <1>4, <1>5, <1>6 DEF KindsAre

-----------------------------------------------------------------------------
(* The client's steps                                                      *)

\* A step on the client's buffer alone.
OnlyDraft == UNCHANGED <<server, serverOrg, db, protOrg, orgKeys, unlocked, pinned, task, ops>>
LEMMA DraftStep ==
    ASSUME Inv, OnlyDraft, DraftOK(draft'),
           \A K \in Kinds : KindsAre(K, server, db, draft, task) => DraftOf(K, server, draft')
    PROVE  Inv'
<1>1. \A K \in Kinds : KindsAre(K, server, db, draft, task) => KindsAre(K, server, db, draft', task)
  BY DEF KindsAre
<1>2. KindsOK(server, db, draft', task)
  BY <1>1 DEF Inv, KindsOK
<1> QED
  BY <1>2 DEF Inv, OnlyDraft, PinsMatchEntries

\* The buffer of a read.
ReadInto(d, id, e, o) ==
    /\ d \in [open : {TRUE}, id : {id}, entry : Entry, base : {Decrypt(e, o)}, full : BOOLEAN, dirty : {{}}]
    /\ d.entry = IF d.full THEN d.base ELSE Redact(d.base)
LEMMA ReadIntoOK ==
    ASSUME NEW id \in Ids, NEW e, SealedOK(e), e.live, NEW o, NEW d, ReadInto(d, id, e, o)
    PROVE  /\ DraftOK(d)
           /\ \A K, srv : Of(K, srv, id, e) => DraftOf(K, srv, d)
<1>1. BaseOK(Decrypt(e, o), e)
  BY ReadBase
<1>2. /\ d.open = TRUE /\ d.id = id /\ d.base = Decrypt(e, o) /\ d.full \in BOOLEAN /\ d.dirty = {}
      /\ d.entry = (IF d.full THEN d.base ELSE Redact(d.base)) /\ d.entry \in Entry
  BY DEF ReadInto
<1>3. BaseOK(d.base, e) /\ d.base \in Entry
  BY <1>1, <1>2 DEF BaseOK
<1>4. EditOK(d)
  <2>1. ReadDraft(d)
    BY <1>2 DEF ReadDraft
  <2> QED
    BY <1>3, <2>1, ReadEdit
<1>5. d \in Drafts
  BY <1>2, <1>3 DEF ReadInto, Drafts
<1>6. id # NoId
  BY IdsAssumption
<1>7. SameHead(d.entry, e) /\ d.entry.key = e.key
  <2>1. CASE d.full
    BY <1>2, <1>3, <2>1 DEF BaseOK
  <2>2. CASE ~d.full
    <3>1. Redacts(d.entry, d.base)
      BY <1>2, <1>3, <2>2, RedactFacts
    <3> QED
      BY <1>3, <3>1 DEF Redacts, BaseOK, SameHead
  <2> QED
    BY <2>1, <2>2
<1>8. ASSUME NEW K, NEW srv, Of(K, srv, id, e) PROVE DraftOf(K, srv, d)
  BY <1>2, <1>3, <1>7, <1>8 DEF DraftOf, Of, Kind, SameHead, BaseOK
<1> QED
  BY <1>2, <1>4, <1>5, <1>6, <1>8 DEF DraftOK

\* Reading an entry, redacted.
LEMMA GetEntryMetaInv ==
    ASSUME Inv, NEW id \in Ids, GetEntryMeta(id)
    PROVE  Inv'
<1> DEFINE b == Decrypt(db[id], orgKeys)
<1>1. SealedOK(db[id]) /\ db[id].live
  BY DEF Inv, SealedAll, GetEntryMeta
<1>2. b \in Entry
  BY <1>1, ReadBase DEF BaseOK
<1>3. Redact(b) \in Entry
  BY <1>2, RedactFacts DEF Redacts
<1>4. ReadInto(draft', id, db[id], orgKeys)
  <2>1. draft' = [NoDraft EXCEPT !.open = TRUE, !.id = id, !.full = FALSE, !.entry = Redact(b), !.base = b]
    BY DEF GetEntryMeta, Clear
  <2> HIDE DEF b
  <2>2. draft' = [open |-> TRUE, id |-> id, entry |-> Redact(b), base |-> b, full |-> FALSE, dirty |-> {}]
    BY <2>1 DEF NoDraft
  <2> QED
    BY <1>3, <2>2 DEF ReadInto, b
<1>5. DraftOK(draft') /\ \A K, srv : Of(K, srv, id, db[id]) => DraftOf(K, srv, draft')
  BY <1>1, <1>4, ReadIntoOK
<1>6. OnlyDraft
  BY DEF OnlyDraft, GetEntryMeta
<1>7. \A K \in Kinds : KindsAre(K, server, db, draft, task) => DraftOf(K, server, draft')
  BY <1>1, <1>5 DEF KindsAre
<1> QED
  BY <1>5, <1>6, <1>7, DraftStep

\* Reading an entry, whole.
LEMMA GetEntryInv ==
    ASSUME Inv, NEW id \in Ids, NEW p \in BOOLEAN, GetEntry(id, p)
    PROVE  Inv'
<1> DEFINE b == Decrypt(db[id], orgKeys)
<1>1. SealedOK(db[id]) /\ db[id].live
  BY DEF Inv, SealedAll, GetEntry
<1>2. b \in Entry
  BY <1>1, ReadBase DEF BaseOK
<1>3. ReadInto(draft', id, db[id], orgKeys)
  <2>1. draft' = [NoDraft EXCEPT !.open = TRUE, !.id = id, !.entry = b, !.base = b]
    BY DEF GetEntry, Clear
  <2> HIDE DEF b
  <2>2. draft' = [open |-> TRUE, id |-> id, entry |-> b, base |-> b, full |-> TRUE, dirty |-> {}]
    BY <2>1 DEF NoDraft
  <2> QED
    BY <1>2, <2>2 DEF ReadInto, b
<1>4. DraftOK(draft') /\ \A K, srv : Of(K, srv, id, db[id]) => DraftOf(K, srv, draft')
  BY <1>1, <1>3, ReadIntoOK
<1>5. OnlyDraft
  BY DEF OnlyDraft, GetEntry
<1>6. \A K \in Kinds : KindsAre(K, server, db, draft, task) => DraftOf(K, server, draft')
  BY <1>1, <1>4 DEF KindsAre
<1> QED
  BY <1>4, <1>5, <1>6, DraftStep

\* A buffer that is closed, or that of a new entry, is of no id.
LEMMA CancelEditInv ==
    ASSUME Inv, CancelEdit
    PROVE  Inv'
<1>1. draft' = NoDraft /\ OnlyDraft
  BY DEF CancelEdit, OnlyDraft
<1>2. \A K \in Kinds : DraftOf(K, server, draft')
  BY <1>1, NoneTyped DEF DraftOf
<1> QED
  BY <1>1, <1>2, NoneTyped, DraftStep

\* AddEntryRequested.
LEMMA NewDraftInv ==
    ASSUME Inv, NEW ty \in Types, NEW x \in Texts, NewDraft(ty, x)
    PROVE  Inv'
<1> DEFINE da == [s \in Slots[ty] |-> Plain(x)]
           ma == IF ty = "Login" THEN "Domain" ELSE "none"
           bl == Blank(ty)
           e == [bl EXCEPT !.live = TRUE, !.name = Plain("new"), !.notes = Plain(x), !.data = da, !.match = ma]
<1>1. ty \in EntryTypes /\ Plain(x) \in Value /\ Plain("new") \in Value
  <2>1. "new" \in Words
    BY DEF Words
  <2> QED
    BY <2>1, TypesAssumption, TextsWords, PlainValue
<1>2. bl \in Entry /\ bl.ty = ty /\ bl.fields = <<>>
  BY <1>1, BlankFacts
<1>3. da \in [Slots[ty] -> Value]
  BY <1>1
<1>4. da \in Datas
  <2> HIDE DEF da
  <2> QED
    BY <1>1, <1>3, DataTyped
<1>5. draft' = [NoDraft EXCEPT !.open = TRUE, !.entry = e]
  BY DEF NewDraft
<1>6. ma \in {"none", "Domain", "Never"}
  OBVIOUS
<1> HIDE DEF bl, ma, da
<1>7. e.ty = ty /\ e.fields = <<>> /\ e.notes = Plain(x) /\ e.data = da
  BY <1>2 DEF Entry
<1>8. e \in [live : BOOLEAN, trashed : BOOLEAN, ty : EntryTypes, org : BOOLEAN,
            folder : BOOLEAN, fav : BOOLEAN, reprompt : BOOLEAN, key : Value,
            name : Value, notes : Value, data : Datas, match : {"none", "Domain", "Never"},
            fields : Seq(CustomField), history : SUBSET {"h"}]
  BY <1>1, <1>2, <1>4, <1>6 DEF Entry
<1> HIDE DEF e
<1>9. e \in Entry
  BY <1>3, <1>7, <1>8 DEF Entry
<1>10. NewForm(e)
  BY <1>7 DEF NewForm, da
<1>11. draft' \in Drafts /\ draft'.id = NoId /\ draft'.entry = e
  BY <1>5, <1>9, NoneTyped DEF NoDraft, Drafts
<1>12. DraftOK(draft') /\ \A K \in Kinds : DraftOf(K, server, draft')
  BY <1>10, <1>11 DEF DraftOK, DraftOf
<1>13. OnlyDraft
  BY DEF OnlyDraft, NewDraft
<1> QED
  BY <1>12, <1>13, DraftStep

\* One row of an entry edited.
RowEdit(x, e, row) ==
    /\ x \in Entry /\ SameHead(x, e) /\ x.key = e.key
    /\ \/ \E s \in Slots[e.ty] : /\ row = SlotRow(s) /\ x.fields = e.fields /\ x.data[s].by = "plain"
                                 /\ \A u \in Slots[e.ty] : u # s => x.data[u] = e.data[u]
       \/ row \in {NameRow, NotesRow} /\ x.fields = e.fields /\ x.data = e.data
       \/ \E n : n \notin SshNames /\ row = FieldRow(n) /\ PutsField(x.fields, e.fields, n) /\ x.data = e.data
LEMMA RowEditOK ==
    ASSUME NEW d \in Drafts, NEW c, NEW x, NEW row, EditOK(d), \A n : FieldRow(n) \notin d.dirty,
           RowEdit(x, d.entry, row), c.entry = x, c.base = d.base, c.full = d.full, c.dirty = d.dirty \cup {row}
    PROVE  EditOK(c)
<1>1. d.entry \in Entry /\ d.base \in Entry /\ d.entry.ty = d.base.ty
  BY DEF Drafts, EditOK
<1>2. EditsRow(c, d, row)
  BY DEF EditsRow, RowEdit, SameHead
<1>3. CASE \E s \in Slots[d.entry.ty] : /\ row = SlotRow(s) /\ x.fields = d.entry.fields /\ x.data[s].by = "plain"
                                        /\ \A u \in Slots[d.entry.ty] : u # s => x.data[u] = d.entry.data[u]
  BY <1>1, <1>2, <1>3, SlotEdit
<1>4. CASE row \in {NameRow, NotesRow} /\ x.fields = d.entry.fields /\ x.data = d.entry.data
  BY <1>2, <1>4, HeadEdit
<1>5. ASSUME NEW n, n \notin SshNames, row = FieldRow(n), PutsField(x.fields, d.entry.fields, n),
             x.data = d.entry.data
      PROVE  EditOK(c)
  BY <1>1, <1>2, <1>5, FieldEdit
<1> QED
  BY <1>3, <1>4, <1>5 DEF RowEdit

\* A slot, the name, the notes and the custom fields, replaced.
LEMMA EntrySlot ==
    ASSUME NEW e \in Entry, NEW s \in Slots[e.ty], NEW v \in Value, v.by = "plain"
    PROVE  RowEdit([e EXCEPT !.data[s] = v], e, SlotRow(s))
<1> DEFINE da == [e.data EXCEPT ![s] = v]
           x == [e EXCEPT !.data[s] = v]
<1>1. e.key \in Value /\ e.name \in Value /\ e.notes \in Value /\ e.data \in [Slots[e.ty] -> Value] /\ e.fields \in Seq(CustomField)
  BY EntryParts
<1>2. da \in [Slots[e.ty] -> Value] /\ da[s] = v /\ \A u \in Slots[e.ty] : u # s => da[u] = e.data[u]
  BY <1>1
<1> HIDE DEF da
<1>3. x = [e EXCEPT !.key = e.key, !.name = e.name, !.notes = e.notes, !.data = da, !.fields = e.fields]
  BY DEF Entry, da
<1> HIDE DEF x
<1>4. Rewrites(x, e, e.key, e.name, e.notes, da, e.fields)
  BY <1>1, <1>2, <1>3 DEF Rewrites
<1>5. x \in Entry /\ SameHead(x, e) /\ x.key = e.key /\ x.data = da /\ x.fields = e.fields
  BY <1>4, Rewritten
<1>6. RowEdit(x, e, SlotRow(s))
  BY <1>2, <1>5 DEF RowEdit
<1> QED
  BY <1>6 DEF x
LEMMA EntryHead ==
    ASSUME NEW e \in Entry, NEW v \in Value, NEW row, NEW x,
           \/ row = NameRow /\ x = [e EXCEPT !.name = v]
           \/ row = NotesRow /\ x = [e EXCEPT !.notes = v]
    PROVE  RowEdit(x, e, row)
<1>1. x \in Entry /\ SameHead(x, e) /\ x.key = e.key /\ x.data = e.data /\ x.fields = e.fields
  <2>1. CASE row = NameRow /\ x = [e EXCEPT !.name = v]
    BY <2>1 DEF Entry, SameHead
  <2>2. CASE row = NotesRow /\ x = [e EXCEPT !.notes = v]
    BY <2>2 DEF Entry, SameHead
  <2> QED
    BY <2>1, <2>2
<1> QED
  BY <1>1 DEF RowEdit
LEMMA EntryField ==
    ASSUME NEW e \in Entry, NEW fs \in Seq(CustomField), NEW n, n \notin SshNames, PutsField(fs, e.fields, n),
           NEW x, x = [e EXCEPT !.fields = fs]
    PROVE  RowEdit(x, e, FieldRow(n))
<1>1. x \in Entry /\ SameHead(x, e) /\ x.key = e.key /\ x.data = e.data /\ x.fields = fs
  BY DEF Entry, SameHead
<1> QED
  BY <1>1 DEF RowEdit

\* The form's custom field: the first of its name.
LEMMA FirstNamedFacts ==
    ASSUME NEW fields \in Seq(CustomField), NEW n, NEW v \in Value, v.by = "plain"
    PROVE  /\ SetFirstNamed(fields, Plain(n), v) \in Seq(CustomField)
           /\ PutsField(SetFirstNamed(fields, Plain(n), v), fields, n)
<1> DEFINE fs == SetFirstNamed(fields, Plain(n), v)
           First(i) == fields[i].name = Plain(n) /\ \A j \in DOMAIN fields : fields[j].name = Plain(n) => i <= j
<1>1. DOMAIN fs = DOMAIN fields /\ Maps(fs, fields)
  BY DEF SetFirstNamed, Maps
<1>2. ASSUME NEW i \in DOMAIN fields
      PROVE  /\ fs[i] \in CustomField /\ fs[i].name = fields[i].name
             /\ IF First(i) THEN fs[i].value.by = "plain" ELSE fs[i] = fields[i]
  <2>1. fields[i] \in CustomField
    OBVIOUS
  <2>2. CASE First(i)
    <3>1. fs[i] = [fields[i] EXCEPT !.value = v]
      BY <2>2 DEF SetFirstNamed
    <3> HIDE DEF fs
    <3> QED
      BY <2>1, <2>2, <3>1 DEF CustomField, Field, Value
  <2>3. CASE ~First(i)
    <3>1. fs[i] = fields[i]
      BY <2>3 DEF SetFirstNamed
    <3> QED
      BY <2>1, <2>3, <3>1
  <2> QED
    BY <2>2, <2>3
<1> HIDE DEF fs
<1>3. fs \in Seq(CustomField)
  BY <1>1, <1>2, MapSeq
<1>4. PutsField(fs, fields, n)
  BY <1>1, <1>2 DEF PutsField
<1> QED
  BY <1>3, <1>4 DEF fs

\* One row more typed into a buffer.
WithRow(d, e, r) == [d EXCEPT !.entry = e, !.dirty = d.dirty \cup {r}]
LEMMA RowTyped ==
    ASSUME NEW d \in Drafts, EditOK(d), \A n : FieldRow(n) \notin d.dirty, NEW e, NEW r \in AllRows,
           RowEdit(e, d.entry, r), NEW c, c = WithRow(d, e, r)
    PROVE  c \in Drafts /\ EditOK(c) /\ c.entry = e /\ c.dirty = d.dirty \cup {r}
<1>1. e \in Entry
  BY DEF RowEdit
<1>2. c \in Drafts /\ c.entry = e /\ c.base = d.base /\ c.full = d.full /\ c.dirty = d.dirty \cup {r}
  BY <1>1 DEF Drafts, WithRow
<1>3. EditOK(c)
  BY <1>2, RowEditOK
<1> QED
  BY <1>2, <1>3

\* What typing into the form makes of the buffer.
Edited(c, e, ds) ==
    /\ e \in Entry /\ SameHead(e, draft.entry) /\ e.key = draft.entry.key
    /\ ds \subseteq AllRows /\ c = [draft EXCEPT !.entry = e, !.dirty = ds] /\ EditOK(c)

\* Typing into the edit form.
LEMMA EditFieldChangedInv ==
    ASSUME Inv, NEW row \in Rows, NEW x \in Texts, EditFieldChanged(row, x)
    PROVE  Inv'
<1>1. /\ draft \in Drafts /\ EditOK(draft) /\ draft.dirty = {} /\ draft.open /\ draft.id # NoId
      /\ draft.entry \in Entry /\ draft.entry.ty \in EntryTypes /\ draft.entry.fields \in Seq(CustomField)
  <2>1. draft \in Drafts /\ EditOK(draft) /\ draft.dirty = {} /\ draft.open /\ draft.id # NoId
    BY DEF Inv, DraftOK, EditFieldChanged
  <2>2. draft.entry \in Entry
    BY <2>1 DEF Drafts
  <2> QED
    BY <2>1, <2>2, EntryParts
<1>2. Plain(x) \in Value /\ Plain(x).by = "plain"
  BY TextsWords, PlainValue
<1>4. row \in AllRows /\ \A n : FieldRow(n) \notin draft.dirty
  BY <1>1 DEF AllRows
<1>5. ASSUME NEW e, RowEdit(e, draft.entry, row), draft' = [draft EXCEPT !.entry = e, !.dirty = {row}]
      PROVE  Edited(draft', e, {row})
  <2>1. draft.dirty \cup {row} = {row}
    BY <1>1
  <2>2. draft' = WithRow(draft, e, row)
    BY <1>5, <2>1 DEF WithRow
  <2>3. EditOK(draft')
    BY <1>1, <1>4, <1>5, <2>2, RowTyped
  <2> QED
    BY <1>4, <1>5, <2>3 DEF RowEdit, Edited
<1>6. \E e, ds : Edited(draft', e, ds)
  <2>1. ASSUME NEW s \in Editable[draft.entry.ty], row = SlotRow(s),
               draft' = [draft EXCEPT !.entry.data[s] = Plain(x),
                                      !.entry.fields = SetFirstNamed(@, Label[s], Plain(x)),
                                      !.dirty = {row, FieldRow(Label[s].text)}]
        PROVE  \E e, ds : Edited(draft', e, ds)
    <3> DEFINE n == Label[s].text
               fs == SetFirstNamed(draft.entry.fields, Label[s], Plain(x))
               e1 == [draft.entry EXCEPT !.data[s] = Plain(x)]
               c1 == [draft EXCEPT !.entry = e1, !.dirty = {row}]
               e == [e1 EXCEPT !.fields = fs]
    <3>1. s \in Slots[draft.entry.ty] /\ s \in DOMAIN Label
      BY <1>1, EditedSlots, Labelled
    <3>2. Label[s] = Plain(n) /\ n \notin SshNames /\ FieldRow(n) \in AllRows
      BY <3>1, LabelOf DEF AllRows
    <3>3. RowEdit(e1, draft.entry, row)
      BY <1>1, <1>2, <2>1, <3>1, EntrySlot
    <3>4. e1 \in Entry /\ e1.fields = draft.entry.fields /\ SameHead(e1, draft.entry) /\ e1.key = draft.entry.key
      BY <1>1, <3>3 DEF RowEdit, Entry
    <3>5. fs \in Seq(CustomField) /\ PutsField(fs, e1.fields, n)
      BY <1>1, <1>2, <3>2, <3>4, FirstNamedFacts
    <3>6. draft' = [draft EXCEPT !.entry = e, !.dirty = {row, FieldRow(n)}]
      BY <1>1, <2>1 DEF Drafts, Entry
    <3>7. draft.dirty \cup {row} = {row}
      BY <1>1
    <3>8. c1 \in Drafts /\ EditOK(c1) /\ c1.entry = e1 /\ c1.dirty = {row}
        <4>1. c1 = WithRow(draft, e1, row)
        BY <3>7 DEF WithRow
      <4> HIDE DEF c1, e1
      <4> QED
        BY <1>1, <1>4, <3>3, <3>7, <4>1, RowTyped
    <3>9. draft' = WithRow(c1, e, FieldRow(n))
      <4>1. c1.dirty \cup {FieldRow(n)} = {row, FieldRow(n)}
        BY <3>8
      <4> HIDE DEF e1, fs, e, n
      <4> QED
        BY <1>1, <3>6, <4>1 DEF Drafts, WithRow
    <3> HIDE DEF e1, fs, c1, n
    <3>10. RowEdit(e, e1, FieldRow(n))
      BY <3>2, <3>4, <3>5, EntryField
    <3>11. \A m : FieldRow(m) \notin c1.dirty
      BY <2>1, <3>8, RowsDiffer
    <3> HIDE DEF e
    <3>12. EditOK(draft')
      BY <3>2, <3>4, <3>8, <3>9, <3>10, <3>11, RowTyped
    <3>13. e \in Entry /\ SameHead(e, draft.entry) /\ e.key = draft.entry.key
      BY <3>4, <3>10 DEF RowEdit, SameHead
    <3> QED
      BY <1>4, <3>2, <3>6, <3>12, <3>13 DEF Edited
  <2>2. ASSUME row = FieldRow("f1"),
               draft' = [draft EXCEPT !.entry.fields = SetFirstNamed(@, Plain("f1"), Plain(x)), !.dirty = {row}]
        PROVE  \E e, ds : Edited(draft', e, ds)
    <3> DEFINE fs == SetFirstNamed(draft.entry.fields, Plain("f1"), Plain(x))
               e == [draft.entry EXCEPT !.fields = fs]
    <3>1. fs \in Seq(CustomField) /\ PutsField(fs, draft.entry.fields, "f1")
      BY <1>1, <1>2, FirstNamedFacts
    <3>2. "f1" \notin SshNames
      BY DEF SshNames
    <3>3. draft' = [draft EXCEPT !.entry = e, !.dirty = {row}]
      BY <1>1, <2>2 DEF Drafts, Entry
    <3> HIDE DEF fs
    <3>4. RowEdit(e, draft.entry, row)
      BY <1>1, <2>2, <3>1, <3>2, EntryField
    <3> QED
      <4> HIDE DEF e
      <4> QED
        BY <1>5, <3>3, <3>4
  <2>3. ASSUME row = NotesRow, draft' = [draft EXCEPT !.entry.notes = Plain(x), !.dirty = {row}]
        PROVE  \E e, ds : Edited(draft', e, ds)
    <3> DEFINE e == [draft.entry EXCEPT !.notes = Plain(x)]
    <3>1. RowEdit(e, draft.entry, row)
      BY <1>1, <1>2, <2>3, EntryHead
    <3>2. draft' = [draft EXCEPT !.entry = e, !.dirty = {row}]
      BY <1>1, <2>3 DEF Drafts, Entry
    <3> QED
      <4> HIDE DEF e
      <4> QED
        BY <1>5, <3>1, <3>2
  <2>4. ASSUME row = NameRow, draft' = [draft EXCEPT !.entry.name = Plain(x), !.dirty = {row}]
        PROVE  \E e, ds : Edited(draft', e, ds)
    <3> DEFINE e == [draft.entry EXCEPT !.name = Plain(x)]
    <3>1. RowEdit(e, draft.entry, row)
      BY <1>1, <1>2, <2>4, EntryHead
    <3>2. draft' = [draft EXCEPT !.entry = e, !.dirty = {row}]
      BY <1>1, <2>4 DEF Drafts, Entry
    <3> QED
      <4> HIDE DEF e
      <4> QED
        BY <1>5, <3>1, <3>2
  <2> QED
    BY <2>1, <2>2, <2>3, <2>4 DEF EditFieldChanged
<1>7. PICK e, ds : Edited(draft', e, ds)
  BY <1>6
<1>8. /\ draft' \in Drafts /\ draft'.entry = e /\ draft'.base = draft.base
      /\ draft'.id = draft.id /\ draft'.open = draft.open
  BY <1>1, <1>7 DEF Drafts, Edited
<1>9. DraftOK(draft')
  BY <1>1, <1>7, <1>8 DEF DraftOK, Edited
<1>10. \A K \in Kinds : KindsAre(K, server, db, draft, task) => DraftOf(K, server, draft')
  BY <1>1, <1>7, <1>8 DEF Edited, KindsAre, DraftOf, Of, Kind, SameHead
<1>11. OnlyDraft
  BY DEF OnlyDraft, EditFieldChanged
<1> QED
  BY <1>9, <1>10, <1>11, DraftStep

-----------------------------------------------------------------------------
(* Requests                                                                *)

\* A step on the requests and the client's buffer.
OnlyTasks == UNCHANGED <<server, serverOrg, db, protOrg, orgKeys, unlocked, pinned>>
TasksGood(ks) ==
    /\ TasksOK(ks) /\ OnePost(ks)
    /\ \A K \in Kinds : KindsAre(K, server, db, draft, task) => KindsAre(K, server, db, draft, ks)
LEMMA TaskStep ==
    ASSUME Inv, OnlyTasks, ops' \in Nat, TasksGood(task'), DraftOK(draft'),
           \A K \in Kinds : KindsAre(K, server, db, draft, task') => DraftOf(K, server, draft')
    PROVE  Inv'
<1>1. \A K \in Kinds : KindsAre(K, server, db, draft, task) => KindsAre(K, server, db, draft', task')
  BY DEF KindsAre, TasksGood
<1>2. KindsOK(server, db, draft', task')
  BY <1>1 DEF Inv, KindsOK, TasksGood
<1> QED
  BY <1>2 DEF Inv, OnlyTasks, PinsMatchEntries, TasksGood

\* A counted operation.
LEMMA CountedOps ==
    ASSUME Inv, Counted
    PROVE  ops' \in Nat
  BY DEF Inv, Counted

\* One request replaced.
LEMMA TasksGoodSet ==
    ASSUME Inv, NEW t \in Tasks, NEW r, TaskOK(r), TaskSet(task', task, t, r),
           r.op = "post" => \A u \in Tasks : ~(task[u].op = "post" /\ task[u].id = r.id),
           \A K \in Kinds : KindsAre(K, server, db, draft, task) => TaskOf(K, server, r)
    PROVE  TasksGood(task')
<1>2. TasksOK(task') /\ task'[t] = r /\ \A u \in Tasks : u # t => task'[u] = task[u]
  <2>1. TasksOK(task)
    BY DEF Inv
  <2> QED
    BY <2>1, TaskSetOK
<1>3. OnePost(task')
  <2>1. OnePost(task)
    BY DEF Inv, KindsOK
  <2> QED
    BY <1>2, <2>1, TaskSetPost
<1>4. ASSUME NEW K \in Kinds, KindsAre(K, server, db, draft, task) PROVE KindsAre(K, server, db, draft, task')
  BY <1>2, <1>4, TaskSetKinds
<1> QED
  BY <1>2, <1>3, <1>4 DEF TasksGood

\* handle_update_entry's request, or none.
LEMMA UpdateWithGood ==
    ASSUME Inv, NEW t \in Tasks, NEW id \in Ids, NEW sent, NEW edit, edit \in Drafts, EditOK(edit), DraftOK(edit),
           SentAs(sent, edit.entry), UpdateWith(t, id, sent, edit),
           \A K \in Kinds : KindsAre(K, server, db, draft, task)
                               => Of(K, server, id, edit.entry) /\ DraftOf(K, server, edit)
    PROVE  TasksGood(task')
<1> DEFINE m == SyncSshFields(MergedOf(sent, db[id], Decrypt(db[id], orgKeys)))
           q == PutRequest(m)
           r == [NoTask EXCEPT !.op = "put", !.id = id, !.req = q, !.stored = db[id],
                               !.edit = edit, !.orgKeys = orgKeys]
<1>1. TasksOK(task) /\ OnePost(task) /\ SealedOK(db[id]) /\ orgKeys \in BOOLEAN
  BY DEF Inv, KindsOK, SealedAll
<1>2. CASE ~PutKeyOpens(m)
  <2>1. task' = task
    BY <1>2 DEF UpdateWith, MergedOf, Clear
  <2> QED
    BY <1>1, <2>1 DEF TasksGood
<1>3. CASE PutKeyOpens(m)
  <2>1. TaskSet(task', task, t, r)
    BY <1>3 DEF UpdateWith, MergedOf, Clear, Started, TaskSet
  <2>2. PICK K \in Kinds : KindsAre(K, server, db, draft, task)
    BY DEF Inv, KindsOK
  <2>3. db[id].live => Kind(db[id]) = Kind(edit.entry)
    BY <2>2 DEF KindsAre, Of
  <2>4. UpdateOf(edit, sent, db[id], orgKeys, m)
    BY <1>1, <2>3 DEF UpdateOf
  <2> HIDE DEF m
  <2>5. /\ r.req = q /\ q = PutRequest(m) /\ r.stored = db[id] /\ r.edit = edit /\ r.orgKeys = orgKeys /\ r.op = "put" /\ r.id = id
        /\ r.snap = [i \in Ids |-> Missing]
    BY NoneTyped DEF TaskRecords
  <2> HIDE DEF q, r
  <2>6. SealedOK(q) /\ Kind(q) = Kind(edit.entry) /\ q.live = edit.entry.live /\ PutOK(r)
    BY <1>3, <2>4, <2>5, UpdatePut
  <2>7. r \in TaskRecords
    <3>1. q \in Entry /\ db[id] \in Entry
      BY <1>1, <2>6 DEF SealedOK
    <3> QED
      BY <1>1, <3>1, NoneTyped DEF TaskRecords, Ops, r
  <2>8. SealedAll(r.snap) /\ \A i \in Ids : ~r.snap[i].live
    BY <2>5, MissingOK DEF SealedAll
  <2>9. TaskOK(r)
    BY <2>5, <2>6, <2>7, <2>8 DEF TaskOK, PostOK
  <2>10. ASSUME NEW L \in Kinds, KindsAre(L, server, db, draft, task) PROVE TaskOf(L, server, r)
    <3>1. Of(L, server, id, edit.entry) /\ DraftOf(L, server, edit)
      BY <2>10
    <3>2. Of(L, server, id, q)
      BY <2>6, <3>1 DEF Of
    <3> QED
      BY <2>5, <2>8, <3>1, <3>2 DEF TaskOf, Of, Writes
  <2> QED
    BY <2>1, <2>5, <2>9, <2>10, TasksGoodSet
<1> QED
  BY <1>2, <1>3

\* The client's buffer saved.
LEMMA HandleUpdateEntryInv ==
    ASSUME Inv, NEW t \in Tasks, HandleUpdateEntry(t)
    PROVE  Inv'
<1>1. draft \in Drafts /\ DraftOK(draft) /\ EditOK(draft) /\ draft.open /\ draft.id # NoId
  BY DEF Inv, DraftOK, HandleUpdateEntry
<1>2. draft.id \in Ids /\ draft.entry \in Entry
  BY <1>1 DEF Drafts
<1>3. SentAs(Saved(draft.entry), draft.entry)
  <2>1. draft.entry.notes \in Value
    BY <1>2, EntryParts
  <2>2. NonEmpty(draft.entry.notes) \in Value
    BY <2>1, NoneValue DEF NonEmpty
  <2> DEFINE e == draft.entry
             s == Saved(e)
  <2>3. s = [e EXCEPT !.notes = NonEmpty(e.notes)]
    BY <1>2 DEF Saved, Entry
  <2> HIDE DEF s
  <2>4. s \in Entry /\ SentAs(s, e)
    BY <1>2, <2>2, <2>3 DEF Entry, SentAs
  <2> QED
    BY <2>4 DEF s
<1>4. \A K \in Kinds : KindsAre(K, server, db, draft, task)
                          => Of(K, server, draft.id, draft.entry) /\ DraftOf(K, server, draft)
  BY <1>1 DEF KindsAre, DraftOf
<1>5. UpdateWith(t, draft.id, Saved(draft.entry), draft)
  BY DEF HandleUpdateEntry
<1>6. TasksGood(task')
  BY <1>1, <1>2, <1>3, <1>4, <1>5, UpdateWithGood
<1>7. OnlyTasks /\ draft' \in {NoDraft, draft} /\ ops' \in Nat
  BY CountedOps DEF OnlyTasks, HandleUpdateEntry
<1>8. DraftOK(draft')
  BY <1>1, <1>7, NoneTyped
<1>9. \A K \in Kinds : KindsAre(K, server, db, draft, task') => DraftOf(K, server, draft')
  BY <1>7, NoneTyped DEF KindsAre, DraftOf
<1> QED
  BY <1>6, <1>7, <1>8, <1>9, TaskStep

\* The CLI's edit command.
LEMMA CliEditInv ==
    ASSUME Inv, NEW t \in Tasks, NEW row \in Rows, NEW x \in Texts, NEW ty \in FieldTypes, CliEdit(t, row, x, ty)
    PROVE  Inv'
<1> DEFINE e == draft.entry
           sent == CliSet(e, row, x, ty)
           c == [draft EXCEPT !.open = FALSE, !.entry = sent, !.dirty = {row}]
<1>1. /\ draft \in Drafts /\ EditOK(draft) /\ draft.open /\ draft.id # NoId /\ draft.dirty = {}
      /\ row[1] = "slot" => row[2] \in CliArguments[e.ty]
  BY DEF Inv, DraftOK, CliEdit
<1>2. draft.id \in Ids /\ e \in Entry /\ e.ty \in EntryTypes /\ e.fields \in Seq(CustomField)
  BY <1>1, EntryParts DEF Drafts
<1>3. Plain(x) \in Value /\ Plain(x).by = "plain"
  BY TextsWords, PlainValue
<1>4. RowEdit(sent, e, row)
  <2>1. CASE row = NameRow
    <3>1. row # NotesRow /\ row[1] # "field"
      BY <2>1 DEF NameRow, NotesRow
    <3>2. sent = [e EXCEPT !.name = Plain(x)]
      BY <2>1, <3>1 DEF CliSet
    <3> QED
      BY <1>2, <1>3, <2>1, <3>2, EntryHead
  <2>2. CASE row = NotesRow
    <3>1. row # NameRow /\ row[1] # "field"
      BY <2>2 DEF NameRow, NotesRow
    <3>2. sent = [e EXCEPT !.notes = Plain(x)]
      BY <2>2, <3>1 DEF CliSet
    <3> QED
      BY <1>2, <1>3, <2>2, <3>2, EntryHead
  <2>3. CASE row = SlotRow(row[2])
    <3>1. row[1] = "slot"
      BY <2>3 DEF SlotRow
    <3>2. row # NameRow /\ row # NotesRow /\ row[2] \in Slots[e.ty]
      BY <1>1, <1>2, <2>3, <3>1, EditedSlots, RowsDiffer
    <3>3. sent = [e EXCEPT !.data[row[2]] = Plain(x)]
      BY <3>1, <3>2 DEF CliSet
    <3>4. RowEdit([e EXCEPT !.data[row[2]] = Plain(x)], e, SlotRow(row[2]))
      BY <1>2, <1>3, <3>2, EntrySlot
    <3> QED
      BY <2>3, <3>3, <3>4
  <2>4. CASE row = FieldRow(row[2]) /\ row[2] \notin {"private_key", "public_key"}
    <3> DEFINE fs == SetField(e.fields, row[2], Plain(x), ty)
    <3>1. row[1] = "field"
      BY <2>4 DEF FieldRow
    <3>2. row # NameRow /\ row # NotesRow
      BY <2>4, RowsDiffer
    <3>3. row[2] \in Words
      BY DEF Words
    <3>4. SetsField(fs, e.fields, row[2], Plain(x), ty)
      BY <1>2, <1>3, <3>3, SetFieldFacts
    <3>5. sent = [e EXCEPT !.fields = fs]
      BY <1>2, <3>1, <3>2 DEF CliSet, Entry
    <3> HIDE DEF fs
    <3>6. fs \in Seq(CustomField) /\ PutsField(fs, e.fields, row[2]) /\ row[2] \notin SshNames
      BY <1>3, <2>4, <3>4 DEF SetsField, PutsField, SshNames
    <3>7. RowEdit(sent, e, FieldRow(row[2]))
      BY <1>2, <3>5, <3>6, EntryField
    <3> QED
      BY <2>4, <3>7
  <2> QED
    BY <2>1, <2>2, <2>3, <2>4, RowsAssumption
<1>5. UpdateWith(t, draft.id, sent, c)
  BY DEF CliEdit
<1> HIDE DEF sent
<1>6. sent \in Entry /\ SameHead(sent, e) /\ sent.key = e.key
  BY <1>4 DEF RowEdit
<1>7. /\ c \in Drafts /\ c.entry = sent /\ c.base = draft.base /\ c.full = draft.full
      /\ c.dirty = {row} /\ c.open = FALSE
  BY <1>1, <1>6 DEF Drafts, AllRows
<1> HIDE DEF c
<1>8. EditOK(c)
  <2>1. c.dirty = draft.dirty \cup {row} /\ \A n : FieldRow(n) \notin draft.dirty
    BY <1>1, <1>7
  <2> QED
    BY <1>1, <1>4, <1>7, <2>1, RowEditOK
<1>9. DraftOK(c)
  BY <1>7 DEF DraftOK
<1>10. SentAs(sent, c.entry)
  BY <1>6, <1>7 DEF SentAs
<1>11. \A K \in Kinds : KindsAre(K, server, db, draft, task)
                          => Of(K, server, draft.id, c.entry) /\ DraftOf(K, server, c)
  BY <1>1, <1>6, <1>7 DEF KindsAre, DraftOf, Of, Kind, SameHead
<1>12. TasksGood(task')
  BY <1>2, <1>5, <1>7, <1>8, <1>9, <1>10, <1>11, UpdateWithGood
<1>13. OnlyTasks /\ draft' = NoDraft /\ ops' \in Nat
  BY CountedOps DEF OnlyTasks, CliEdit
<1>14. \A K \in Kinds : KindsAre(K, server, db, draft, task') => DraftOf(K, server, draft')
  BY <1>13, NoneTyped DEF DraftOf
<1> QED
  BY <1>12, <1>13, <1>14, NoneTyped, TaskStep

\* The agent's own edit of a password.
LEMMA HandleUpdateLoginPasswordInv ==
    ASSUME Inv, NEW t \in Tasks, NEW id \in Ids, HandleUpdateLoginPassword(t, id)
    PROVE  Inv'
<1> DEFINE b == Clear(db[id], orgKeys)
           e == [b EXCEPT !.data["password"] = Plain("new")]
           d == [NoDraft EXCEPT !.id = id, !.entry = b, !.base = b]
           c == [NoDraft EXCEPT !.id = id, !.entry = e, !.base = b, !.dirty = {SlotRow("password")}]
<1>1. SealedOK(db[id]) /\ db[id].live /\ db[id].ty = "Login" /\ DraftOK(draft)
  BY DEF Inv, SealedAll, HandleUpdateLoginPassword
<1>2. UpdateWith(t, id, e, c)
  BY DEF HandleUpdateLoginPassword
<1>3. BaseOK(b, db[id])
  BY <1>1, ReadBase DEF Clear
<1> HIDE DEF b
<1>4. b \in Entry /\ b.ty = "Login" /\ SameHead(b, db[id]) /\ b.key = db[id].key
  BY <1>1, <1>3 DEF BaseOK, SameHead
<1>5. /\ d \in Drafts /\ d.dirty = {} /\ d.full = TRUE /\ d.entry = b /\ d.base = b
  BY <1>4, NoneTyped DEF NoDraft, Drafts
<1> HIDE DEF d
<1>6. EditOK(d)
  <2>1. ReadDraft(d)
    BY <1>5 DEF ReadDraft
  <2> QED
    BY <1>3, <1>5, <2>1, ReadEdit
<1>7. "password" \in Slots[b.ty] /\ Plain("new") \in Value /\ Plain("new").by = "plain"
  <2>1. "new" \in Words
    BY DEF Words
  <2> QED
    BY <1>4, <2>1, PlainValue DEF Slots, LoginSlots
<1>8. RowEdit(e, b, SlotRow("password"))
  BY <1>4, <1>7, EntrySlot
<1> HIDE DEF e
<1>9. e \in Entry /\ SameHead(e, b) /\ e.key = b.key
  BY <1>8 DEF RowEdit
<1>10. /\ c \in Drafts /\ c.entry = e /\ c.base = b /\ c.full = TRUE /\ c.dirty = {SlotRow("password")}
       /\ c.open = FALSE
  BY <1>4, <1>9, NoneTyped DEF NoDraft, Drafts, AllRows
<1> HIDE DEF c
<1>11. EditOK(c)
  <2>1. RowEdit(e, d.entry, SlotRow("password"))
    BY <1>5, <1>8
  <2>2. /\ c.entry = e /\ c.base = d.base /\ c.full = d.full /\ c.dirty = d.dirty \cup {SlotRow("password")}
        /\ \A n : FieldRow(n) \notin d.dirty
    BY <1>5, <1>10
  <2> QED
    BY <1>5, <1>6, <2>1, <2>2, RowEditOK
<1>12. DraftOK(c) /\ SentAs(e, c.entry)
  BY <1>9, <1>10 DEF DraftOK, SentAs
<1>13. ASSUME NEW K \in Kinds, KindsAre(K, server, db, draft, task)
       PROVE  Of(K, server, id, c.entry) /\ DraftOf(K, server, c)
  <2>1. Of(K, server, id, db[id])
    BY <1>1, <1>13 DEF KindsAre
  <2>2. Kind(e) = Kind(db[id]) /\ e.live = db[id].live
    BY <1>4, <1>9 DEF Kind, SameHead
  <2> QED
    BY <1>10, <2>1, <2>2 DEF Of, DraftOf
<1>14. TasksGood(task')
  BY <1>2, <1>10, <1>11, <1>12, <1>13, UpdateWithGood
<1>15. OnlyTasks /\ draft' = draft /\ ops' \in Nat
  BY CountedOps DEF OnlyTasks, HandleUpdateLoginPassword
<1>16. \A K \in Kinds : KindsAre(K, server, db, draft, task') => DraftOf(K, server, draft')
  BY <1>15 DEF KindsAre
<1> QED
  BY <1>1, <1>14, <1>15, <1>16, TaskStep

\* A new entry sent to the server.
LEMMA HandleAddEntryInv ==
    ASSUME Inv, NEW t \in Tasks, NEW id \in Ids, HandleAddEntry(t, id)
    PROVE  Inv'
<1> DEFINE q == PostRequest(HandleAdd(SaveAction(Saved(draft.entry))))
           r == [NoTask EXCEPT !.op = "post", !.id = id, !.edit = draft, !.req = q]
<1>1. /\ draft \in Drafts /\ DraftOK(draft) /\ NewForm(draft.entry) /\ draft.id = NoId /\ draft.entry \in Entry
      /\ server[id] = Missing /\ \A u \in Tasks : ~(task[u].op = "post" /\ task[u].id = id)
  BY DEF Inv, DraftOK, HandleAddEntry, Drafts
<1>2. TaskSet(task', task, t, r)
  BY DEF HandleAddEntry, Started, TaskSet
<1>3. /\ r.req = q /\ q = PostRequest(HandleAdd(SaveAction(Saved(draft.entry)))) /\ r.edit = draft
      /\ r.op = "post" /\ r.id = id /\ r.snap = [i \in Ids |-> Missing]
  BY NoneTyped DEF TaskRecords
<1> HIDE DEF q, r
<1>4. SealedOK(q) /\ PostOK(r) /\ q \in Entry /\ q.live = TRUE
  <2>1. SealedOK(r.req) /\ PostOK(r) /\ r.req.live = TRUE
    BY <1>1, <1>3, AddPost
  <2> QED
    BY <1>3, <2>1 DEF SealedOK
<1>5. r \in TaskRecords
  BY <1>1, <1>4, NoneTyped DEF TaskRecords, Ops, r
<1>6. SealedAll(r.snap) /\ \A i \in Ids : ~r.snap[i].live
  BY <1>3, MissingOK DEF SealedAll
<1>7. TaskOK(r)
  BY <1>1, <1>3, <1>4, <1>5, <1>6 DEF TaskOK, PutOK
<1>8. \A K \in Kinds : TaskOf(K, server, r)
  BY <1>1, <1>3, <1>6 DEF TaskOf, DraftOf, Writes
<1>9. TasksGood(task')
  BY <1>1, <1>2, <1>3, <1>7, <1>8, TasksGoodSet
<1>10. OnlyTasks /\ draft' = NoDraft /\ ops' \in Nat
  BY CountedOps DEF OnlyTasks, HandleAddEntry
<1>11. \A K \in Kinds : DraftOf(K, server, draft')
  BY <1>10, NoneTyped DEF DraftOf
<1> QED
  BY <1>9, <1>10, <1>11, NoneTyped, TaskStep

\* A delete, and a sync, carry no entry.
LEMMA HandleDeleteEntryInv ==
    ASSUME Inv, NEW t \in Tasks, NEW id \in Ids, HandleDeleteEntry(t, id)
    PROVE  Inv'
<1> DEFINE r == [NoTask EXCEPT !.op = "delete", !.id = id]
<1>1. DraftOK(draft) /\ db[id].live
  BY DEF Inv, HandleDeleteEntry
<1>2. TaskSet(task', task, t, r)
  BY DEF HandleDeleteEntry, TaskSet
<1>3. /\ r \in TaskRecords /\ r.req = Missing /\ r.edit = NoDraft /\ r.op = "delete" /\ r.id = id
      /\ r.snap = [i \in Ids |-> Missing]
  BY NoneTyped DEF TaskRecords, Ops
<1> HIDE DEF r
<1>4. ~Carrying(r)
  BY <1>3 DEF Carrying
<1>5. \A K \in Kinds : KindsAre(K, server, db, draft, task) => TaskOf(K, server, r)
  BY <1>1, <1>3, <1>4, LightTask DEF KindsAre, Of
<1>6. TasksGood(task')
  BY <1>2, <1>3, <1>4, <1>5, LightTask, TasksGoodSet
<1>7. OnlyTasks /\ draft' = draft /\ ops' \in Nat
  BY CountedOps DEF OnlyTasks, HandleDeleteEntry
<1>8. \A K \in Kinds : KindsAre(K, server, db, draft, task') => DraftOf(K, server, draft')
  BY <1>7 DEF KindsAre
<1> QED
  BY <1>1, <1>6, <1>7, <1>8, TaskStep
LEMMA IdleGood ==
    ASSUME Inv, NEW t \in Tasks, NEW r \in {NoTask, [NoTask EXCEPT !.op = "sync"]}, TaskSet(task', task, t, r)
    PROVE  TasksGood(task')
<1>1. TaskOK(r) /\ r.op \notin Writes /\ \A K, srv : TaskOf(K, srv, r)
  BY IdleTasks
<1> QED
  BY <1>1, TasksGoodSet DEF Writes
LEMMA HandleSyncInv ==
    ASSUME Inv, NEW t \in Tasks, HandleSync(t)
    PROVE  Inv'
<1> DEFINE r == IF unlocked THEN [NoTask EXCEPT !.op = "sync"] ELSE NoTask
<1>1. TaskSet(task', task, t, r)
  BY DEF HandleSync, SyncBegin, Started, TaskSet
<1>2. TasksGood(task')
  BY <1>1, IdleGood
<1>3. OnlyTasks /\ draft' = draft /\ ops' = ops /\ DraftOK(draft) /\ ops \in Nat
  BY DEF OnlyTasks, HandleSync, Inv
<1>4. \A K \in Kinds : KindsAre(K, server, db, draft, task') => DraftOf(K, server, draft')
  BY <1>3 DEF KindsAre
<1> QED
  BY <1>2, <1>3, <1>4, TaskStep

\* A favourite: in memory and in the pinned ids before the server.
LEMMA SetFavoriteInv ==
    ASSUME Inv, NEW t \in Tasks, NEW id \in Ids, NEW on \in BOOLEAN, SetFavorite(t, id, on)
    PROVE  Inv'
<1> DEFINE r == [NoTask EXCEPT !.op = "fav", !.id = id, !.fav = on, !.stored = db[id]]
           e == [db[id] EXCEPT !.fav = on]
<1>1. /\ DraftOK(draft) /\ db[id].live /\ SealedOK(db[id]) /\ db[id] \in Entry
      /\ db \in [Ids -> Entry] /\ \A i \in Ids : SealedOK(db[i])
  BY DEF Inv, SetFavorite, SealedAll, SealedOK
<1>2. TaskSet(task', task, t, r)
  BY DEF SetFavorite, TaskSet
<1>3. /\ r \in TaskRecords /\ r.req = Missing /\ r.edit = NoDraft /\ r.op = "fav" /\ r.id = id
      /\ r.snap = [i \in Ids |-> Missing]
  BY <1>1, NoneTyped DEF TaskRecords, Ops
<1> HIDE DEF r
<1>4. ~Carrying(r)
  BY <1>3 DEF Carrying
<1>5. \A K \in Kinds : KindsAre(K, server, db, draft, task) => TaskOf(K, server, r)
  BY <1>1, <1>3, <1>4, LightTask DEF KindsAre, Of
<1>6. TasksGood(task')
  BY <1>2, <1>3, <1>4, <1>5, LightTask, TasksGoodSet
<1>7. e \in Entry /\ SameSecrets(e, db[id]) /\ e.fav = on
  BY <1>1 DEF Entry, SameSecrets
<1>8. db'[id] = e /\ db' \in [Ids -> Entry] /\ \A i \in Ids : i # id => db'[i] = db[i]
  <2>1. db' = [db EXCEPT ![id] = e]
    BY <1>1 DEF SetFavorite, Entry
  <2> HIDE DEF e
  <2> QED
    BY <1>1, <1>7, <2>1
<1> HIDE DEF e
<1>9. SealedOK(e) /\ Kind(e) = Kind(db[id]) /\ e.live = db[id].live
  BY <1>1, <1>7, SameSecretsOK DEF SameSecrets
<1>10. SealedAll(db')
  BY <1>1, <1>8, <1>9 DEF SealedAll
<1>11. ASSUME NEW K \in Kinds, KindsAre(K, server, db, draft, task) PROVE KindsAre(K, server, db', draft, task')
  <2>1. KindsAre(K, server, db, draft, task')
    BY <1>6, <1>11 DEF TasksGood
  <2>2. ASSUME NEW i \in Ids, db'[i].live PROVE Of(K, server, i, db'[i])
    BY <1>8, <1>9, <2>1, <2>2 DEF KindsAre, Of
  <2> QED
    BY <2>1, <2>2 DEF KindsAre
<1>12. KindsOK(server, db', draft, task')
  BY <1>6, <1>11 DEF Inv, KindsOK, TasksGood
<1>13. PinsMatchEntries'
  <2>1. unlocked /\ unlocked' = unlocked /\ pinned = {i \in Ids : db[i].live /\ db[i].fav}
    BY DEF SetFavorite, Inv, PinsMatchEntries
  <2>2. pinned' = IF on THEN pinned \cup {id} ELSE pinned \ {id}
    BY DEF SetFavorite
  <2>3. pinned' = {i \in Ids : db'[i].live /\ db'[i].fav}
    BY <1>1, <1>7, <1>8, <1>9, <2>1, <2>2
  <2> QED
    BY <2>3 DEF PinsMatchEntries
<1>14. UNCHANGED <<server, serverOrg, protOrg, orgKeys, unlocked, draft>> /\ ops' \in Nat
  BY CountedOps DEF SetFavorite
<1> QED
  BY <1>6, <1>10, <1>12, <1>13, <1>14 DEF Inv, TasksGood

-----------------------------------------------------------------------------
(* Answers                                                                 *)

\* What the server makes of a write: a cipher the agent's keys open, of the kind the
\* id has.
LEMMA ApplyOK ==
    ASSUME Inv, NEW t \in Tasks, task[t].op \in Writes,
           task[t].op \in {"put", "fav"} => server[task[t].id].live,
           NEW K \in Kinds, NEW dr, KindsAre(K, server, db, dr, task)
    PROVE  /\ SealedOK(Apply(t, task[t].id)) /\ Apply(t, task[t].id) # Missing
           /\ task[t].op # "post" /\ Apply(t, task[t].id).live => Kind(Apply(t, task[t].id)) = K[task[t].id]
<1> DEFINE r == task[t]
           i == r.id
           a == Apply(t, i)
<1> SUFFICES SealedOK(a) /\ a # Missing /\ (r.op # "post" /\ a.live => Kind(a) = K[i])
  OBVIOUS
<1>1. TaskOK(r) /\ TaskOf(K, server, r) /\ r \in TaskRecords
  BY DEF Inv, TasksOK, KindsAre, TaskOK
<1>2. i \in Ids /\ SealedOK(server[i]) /\ server[i] \in Entry /\ SealedOK(r.req) /\ r.req \in Entry
  BY <1>1 DEF TaskOf, Inv, SealedAll, TaskOK, SealedOK
<1>3. a = CASE r.op = "put" -> [r.req EXCEPT !.trashed = server[i].trashed]
            [] r.op = "post" -> r.req
            [] r.op = "delete" -> Gone
            [] r.op = "fav" -> [server[i] EXCEPT !.fav = r.fav, !.folder = r.stored.folder]
  BY DEF Apply
<1>4. r.fav \in BOOLEAN /\ r.stored \in Entry
  BY <1>1 DEF TaskRecords
<1>5. (r.op = "put" => Of(K, server, i, r.req)) /\ (r.op = "post" => r.req.live)
      /\ (r.op = "fav" => Of(K, server, i, server[i]))
  BY <1>1, <1>2 DEF TaskOf, TaskOK, KindsAre
<1>6. r.op \in Writes
  OBVIOUS
<1> HIDE DEF a, i, r
<1>7. CASE r.op = "put"
  <2> DEFINE tr == server[i].trashed
             e == r.req
  <2>1. a = [e EXCEPT !.trashed = tr]
    BY <1>3, <1>7
  <2>2. tr \in BOOLEAN /\ e \in Entry /\ SealedOK(e) /\ e.live /\ Kind(e) = K[i]
    BY <1>2, <1>5, <1>7 DEF Entry, Of
  <2> HIDE DEF tr, e
  <2>3. a \in Entry /\ SameSecrets(a, e)
    BY <2>1, <2>2 DEF Entry, SameSecrets
  <2>4. SealedOK(a) /\ Kind(a) = Kind(e) /\ a.live
    BY <2>2, <2>3, SameSecretsOK DEF SameSecrets
  <2> QED
    BY <2>2, <2>4, MissingOK
<1>8. CASE r.op = "post"
  <2>1. a = r.req
    BY <1>3, <1>8
  <2> QED
    BY <1>2, <1>5, <1>8, <2>1, MissingOK
<1>9. CASE r.op = "delete"
  <2>1. a = Gone
    BY <1>3, <1>9
  <2> QED
    BY <2>1, MissingOK
<1>10. CASE r.op = "fav"
  <2> DEFINE fo == r.stored.folder
             fa == r.fav
             e == server[i]
  <2>1. a = [e EXCEPT !.fav = fa, !.folder = fo]
    BY <1>3, <1>10
  <2>2. fo \in BOOLEAN /\ fa \in BOOLEAN /\ e \in Entry /\ SealedOK(e) /\ e.live /\ Kind(e) = K[i]
    BY <1>2, <1>4, <1>5, <1>10 DEF Entry, Of
  <2> HIDE DEF fo, fa, e
  <2>3. a \in Entry /\ SameSecrets(a, e)
    BY <2>1, <2>2 DEF Entry, SameSecrets
  <2>4. SealedOK(a) /\ Kind(a) = Kind(e) /\ a.live
    BY <2>2, <2>3, SameSecretsOK DEF SameSecrets
  <2> QED
    BY <2>2, <2>4, MissingOK
<1> QED
  BY <1>6, <1>7, <1>8, <1>9, <1>10 DEF Writes

\* One cipher of the server replaced.
ServerSet(s2, srv, id, e) == s2 = [srv EXCEPT ![id] = e]
LEMMA ServerSetOK ==
    ASSUME NEW srv, SealedAll(srv), NEW id \in Ids, NEW e, SealedOK(e), NEW s2, ServerSet(s2, srv, id, e)
    PROVE  SealedAll(s2) /\ s2[id] = e /\ \A i \in Ids : i # id => s2[i] = srv[i]
<1>1. srv \in [Ids -> Entry] /\ e \in Entry /\ \A i \in Ids : SealedOK(srv[i])
  BY DEF SealedAll, SealedOK
<1>2. s2 \in [Ids -> Entry] /\ s2[id] = e /\ \A i \in Ids : i # id => s2[i] = srv[i]
  BY <1>1 DEF ServerSet
<1> QED
  BY <1>1, <1>2 DEF SealedAll

\* A write that the server applies, whatever the agent makes of the answer.
LEMMA WriteApplied ==
    ASSUME Inv, NEW t \in Tasks, task[t].op \in Writes,
           task[t].op \in {"put", "fav"} => server[task[t].id].live,
           NEW dr, DraftOK(dr), NEW K \in Kinds, KindsAre(K, server, db, dr, task),
           NEW r \in {NoTask, [NoTask EXCEPT !.op = "sync"]}, NEW k2, TaskSet(k2, task, t, r),
           NEW s2, ServerSet(s2, server, task[t].id, Apply(t, task[t].id))
    PROVE  SealedAll(s2) /\ \E L \in Kinds : KindsAre(L, s2, db, dr, k2)
<1> DEFINE id == task[t].id
           a == Apply(t, id)
           L == [K EXCEPT ![id] = IF task[t].op = "post" THEN Kind(a) ELSE K[id]]
<1>1. TasksOK(task) /\ OnePost(task) /\ SealedAll(server) /\ TaskOf(K, server, task[t])
  BY DEF Inv, KindsOK, KindsAre
<1>2. id \in Ids /\ (task[t].op \in {"put", "delete", "fav"} => server[id] # Missing)
      /\ (task[t].op = "post" => server[id] = Missing)
  BY <1>1 DEF TaskOf
<1>3. SealedOK(a) /\ a # Missing /\ (task[t].op # "post" /\ a.live => Kind(a) = K[id])
  BY ApplyOK
<1>4. SealedAll(s2) /\ s2[id] = a /\ \A i \in Ids : i # id => s2[i] = server[i]
  BY <1>1, <1>2, <1>3, ServerSetOK
<1>5. TaskOK(r) /\ r.op \notin Writes /\ TaskOf(K, server, r)
  BY IdleTasks
<1>6. TasksOK(k2) /\ k2[t] = r /\ \A u \in Tasks : u # t => k2[u] = task[u]
  BY <1>1, <1>5, TaskSetOK
<1>7. KindsAre(K, server, db, dr, k2)
  BY <1>5, <1>6, TaskSetKinds
<1>8. Kind(a) \in EntryTypes \X BOOLEAN
  BY <1>3 DEF SealedOK, Kind, Entry
<1> HIDE DEF a
<1>9. /\ L \in Kinds /\ (\A i \in Ids : i # id => L[i] = K[i])
      /\ L[id] = IF task[t].op = "post" THEN Kind(a) ELSE K[id]
  BY <1>2, <1>8 DEF Kinds
<1> HIDE DEF L
<1>10. ASSUME NEW u \in Tasks PROVE ~(k2[u].op = "post" /\ k2[u].id = id)
  <2>1. CASE u = t
    BY <1>5, <1>6, <2>1 DEF Writes
  <2>2. CASE u # t /\ task[t].op = "post"
    BY <1>1, <1>6, <2>2 DEF OnePost
  <2>3. CASE u # t /\ task[t].op # "post"
    <3>1. k2[u] = task[u] /\ TaskOf(K, server, task[u])
      BY <1>6, <2>3 DEF KindsAre
    <3>2. server[id] # Missing
      BY <1>2, <2>3 DEF Writes
    <3> QED
      BY <3>1, <3>2 DEF TaskOf
  <2> QED
    BY <2>1, <2>2, <2>3
<1>11. server[id] # Missing => L[id] = K[id]
  BY <1>2, <1>9
<1>12. s2[id] # Missing /\ (s2[id].live => Kind(s2[id]) = L[id])
  BY <1>3, <1>4, <1>9
<1> HIDE DEF id
<1>13. KindsAre(L, s2, db, dr, k2)
  BY <1>2, <1>4, <1>6, <1>7, <1>9, <1>10, <1>11, <1>12, ServerSetKinds
<1> QED
  BY <1>4, <1>9, <1>13

\* The write is done.
LEMMA WriteDoneInv ==
    ASSUME Inv, NEW t \in Tasks, WriteDone(t)
    PROVE  Inv'
<1> DEFINE r == IF task[t].op # "fav" /\ unlocked THEN [NoTask EXCEPT !.op = "sync"] ELSE NoTask
<1>1. /\ task[t].op \in Writes /\ (task[t].op \in {"put", "fav"} => server[task[t].id].live)
      /\ ServerSet(server', server, task[t].id, Apply(t, task[t].id)) /\ TaskSet(task', task, t, r)
  BY DEF WriteDone, Writes, ServerSet, SyncBegin, Started, TaskSet
<1>2. r \in {NoTask, [NoTask EXCEPT !.op = "sync"]}
  OBVIOUS
<1> HIDE DEF r
<1>3. PICK K \in Kinds : KindsAre(K, server, db, draft, task)
  BY DEF Inv, KindsOK
<1>4. DraftOK(draft)
  BY DEF Inv
<1>5. SealedAll(server') /\ \E L \in Kinds : KindsAre(L, server', db, draft, task')
  BY <1>1, <1>2, <1>3, <1>4, WriteApplied
<1>6. TasksOK(task') /\ OnePost(task')
  BY <1>1, <1>2, IdleGood DEF TasksGood
<1>7. UNCHANGED <<serverOrg, db, protOrg, orgKeys, unlocked, pinned, draft, ops>>
  BY DEF WriteDone
<1> QED
  BY <1>5, <1>6, <1>7 DEF Inv, KindsOK, PinsMatchEntries

\* The write failed, and the client may have its buffer back.
LEMMA WriteFailedInv ==
    ASSUME Inv, NEW t \in Tasks, WriteFailed(t)
    PROVE  Inv'
<1>1. task[t].op \in Writes /\ TaskSet(task', task, t, NoTask) /\ draft' \in {draft, task[t].edit}
      /\ UNCHANGED <<serverOrg, db, protOrg, orgKeys, unlocked, pinned, ops>>
  BY DEF WriteFailed, Writes, TaskSet
<1>2. PICK K \in Kinds : KindsAre(K, server, db, draft, task)
  BY DEF Inv, KindsOK
<1>3. DraftOK(draft) /\ DraftOK(task[t].edit)
  BY DEF Inv, TasksOK, TaskOK
<1>4. DraftOK(draft') /\ KindsAre(K, server, db, draft', task)
  BY <1>1, <1>2, <1>3 DEF KindsAre, TaskOf
<1>5. TasksOK(task') /\ OnePost(task') /\ task'[t] = NoTask /\ \A u \in Tasks : u # t => task'[u] = task[u]
  <2>1. TasksOK(task) /\ TaskOK(NoTask)
    BY IdleTasks DEF Inv
  <2> QED
    BY <1>1, <2>1, IdleGood, TaskSetOK DEF TasksGood
<1>6. SealedAll(server') /\ \E L \in Kinds : KindsAre(L, server', db, draft', task')
  <2>1. CASE server' = server
    <3>1. TaskOf(K, server, task'[t])
      BY <1>5, IdleTasks
    <3>2. KindsAre(K, server, db, draft', task')
      BY <1>4, <1>5, <3>1, TaskSetKinds
    <3> QED
      BY <2>1, <3>2 DEF Inv
  <2>2. CASE /\ task[t].op \in {"put", "fav"} => server[task[t].id].live
             /\ ServerSet(server', server, task[t].id, Apply(t, task[t].id))
    BY <1>1, <1>4, <2>2, WriteApplied
  <2> QED
    BY <2>1, <2>2 DEF WriteFailed, ServerSet
<1> QED
  BY <1>1, <1>4, <1>5, <1>6 DEF Inv, KindsOK, PinsMatchEntries

\* The server has answered a sync.
LEMMA SyncAnsweredInv ==
    ASSUME Inv, NEW t \in Tasks, SyncAnswered(t)
    PROVE  Inv'
<1> DEFINE k == task[t]
           r == [k EXCEPT !.op = "answered", !.snapOrg = serverOrg, !.snap = server]
<1>1. /\ k \in TaskRecords /\ TaskOK(k) /\ SealedAll(server) /\ server \in [Ids -> Entry] /\ serverOrg \in BOOLEAN
      /\ task \in [Tasks -> TaskRecords]
  BY DEF Inv, TasksOK, TaskOK, SealedAll
<1>2. TaskSet(task', task, t, r)
  BY <1>1 DEF SyncAnswered, TaskSet, TaskRecords
<1> HIDE DEF k
<1>3. /\ r \in TaskRecords /\ r.op = "answered" /\ r.snap = server /\ r.req = k.req /\ r.edit = k.edit
      /\ r.id = k.id
  BY <1>1 DEF TaskRecords, Ops
<1> HIDE DEF r
<1>4. TaskOK(r)
  BY <1>1, <1>3 DEF TaskOK, PutOK, PostOK
<1>5. ASSUME NEW K \in Kinds, KindsAre(K, server, db, draft, task) PROVE TaskOf(K, server, r)
  <2>1. TaskOf(K, server, k)
    BY <1>5 DEF KindsAre, k
  <2> QED
    BY <1>3, <1>5, <2>1 DEF TaskOf, KindsAre, Writes
<1>6. TasksGood(task')
  BY <1>2, <1>3, <1>4, <1>5, TasksGoodSet
<1>7. OnlyTasks /\ draft' = draft /\ ops' = ops /\ DraftOK(draft) /\ ops \in Nat
  BY DEF OnlyTasks, SyncAnswered, Inv
<1>8. \A K \in Kinds : KindsAre(K, server, db, draft, task') => DraftOf(K, server, draft')
  BY <1>7 DEF KindsAre
<1> QED
  BY <1>6, <1>7, <1>8, TaskStep

\* handle_sync takes the answer over, whatever happened since the request.
LEMMA SyncAppliedInv ==
    ASSUME Inv, NEW t \in Tasks, SyncApplied(t)
    PROVE  Inv'
<1> DEFINE sn == task[t].snap
<1>1. TaskOK(task[t]) /\ task[t] \in TaskRecords
  BY DEF Inv, TasksOK, TaskOK
<1>2. SealedAll(sn) /\ task[t].snapOrg \in BOOLEAN
  BY <1>1 DEF TaskOK, TaskRecords
<1>3. /\ db' = [i \in Ids |-> ToEntry(sn[i])] /\ pinned' = {i \in Ids : db'[i].live /\ db'[i].fav}
      /\ protOrg' = task[t].snapOrg /\ TaskSet(task', task, t, NoTask)
      /\ UNCHANGED <<server, serverOrg, orgKeys, unlocked, draft, ops>>
  BY DEF SyncApplied, TaskSet
<1>4. ASSUME NEW K \in Kinds, KindsAre(K, server, db, draft, task), NEW i \in Ids, sn[i].live
      PROVE  Of(K, server, i, sn[i])
  <2>1. TaskOf(K, server, task[t])
    BY <1>4 DEF KindsAre
  <2> QED
    BY <1>4, <2>1 DEF TaskOf
<1> HIDE DEF sn
<1>5. ASSUME NEW i \in Ids
      PROVE  /\ db'[i] = ToEntry(sn[i]) /\ SealedOK(db'[i]) /\ db'[i] \in Entry
             /\ db'[i].live => sn[i].live /\ Kind(db'[i]) = Kind(sn[i])
  <2>1. db'[i] = ToEntry(sn[i]) /\ SealedOK(sn[i])
    BY <1>2, <1>3 DEF SealedAll
  <2>2. CASE ~ToEntry(sn[i]).live
    BY <2>1, <2>2, ToEntryOK
  <2>3. CASE ToEntry(sn[i]).live
    BY <2>1, <2>3, ToEntryOK
  <2> QED
    BY <2>2, <2>3
<1>6. SealedAll(db')
  BY <1>3, <1>5 DEF SealedAll
<1>7. TasksGood(task')
  BY <1>3, IdleGood
<1>8. ASSUME NEW K \in Kinds, KindsAre(K, server, db, draft, task) PROVE KindsAre(K, server, db', draft, task')
  <2>1. KindsAre(K, server, db, draft, task')
    BY <1>7, <1>8 DEF TasksGood
  <2>2. ASSUME NEW i \in Ids, db'[i].live PROVE Of(K, server, i, db'[i])
    <3>1. sn[i].live /\ Kind(db'[i]) = Kind(sn[i]) /\ Of(K, server, i, sn[i])
      BY <1>4, <1>5, <1>8, <2>2
    <3> QED
      BY <2>2, <3>1 DEF Of
  <2> QED
    BY <2>1, <2>2 DEF KindsAre
<1>9. KindsOK(server, db', draft, task')
  BY <1>7, <1>8 DEF Inv, KindsOK, TasksGood
<1> QED
  BY <1>2, <1>3, <1>6, <1>7, <1>9 DEF Inv, PinsMatchEntries, TasksGood

\* A sync that fails changes nothing.
LEMMA SyncFailsInv ==
    ASSUME Inv, NEW t \in Tasks, SyncFails(t)
    PROVE  Inv'
<1>1. TaskSet(task', task, t, NoTask) /\ OnlyTasks /\ draft' = draft /\ ops' = ops /\ DraftOK(draft) /\ ops \in Nat
  BY DEF SyncFails, TaskSet, OnlyTasks, Inv
<1>2. TasksGood(task')
  BY <1>1, IdleGood
<1>3. \A K \in Kinds : KindsAre(K, server, db, draft, task') => DraftOf(K, server, draft')
  BY <1>1 DEF KindsAre
<1> QED
  BY <1>1, <1>2, <1>3, TaskStep

-----------------------------------------------------------------------------
(* Lock, unlock and the other device                                       *)

\* Locking forgets the pinned ids.
LEMMA LockInv ==
    ASSUME Inv, Lock
    PROVE  Inv'
  BY DEF Inv, Lock, PinsMatchEntries

\* Unlocking finds them again, in the entries of the last sync.
LEMMA UnlockInv ==
    ASSUME Inv, NEW t \in Tasks, Unlock(t)
    PROVE  Inv'
<1>1. /\ TaskSet(task', task, t, [NoTask EXCEPT !.op = "sync"])
      /\ UNCHANGED <<server, serverOrg, db, protOrg, draft, ops>> /\ unlocked' = TRUE /\ orgKeys' = protOrg
      /\ pinned' = {i \in Ids : db[i].live /\ db[i].fav}
  BY DEF Unlock, TaskSet
<1>2. TasksGood(task')
  BY <1>1, IdleGood
<1>3. KindsOK(server, db, draft, task')
  BY <1>2 DEF Inv, KindsOK, TasksGood
<1> QED
  BY <1>1, <1>2, <1>3 DEF Inv, PinsMatchEntries, TasksGood

\* What another device does to a cipher leaves it one the agent's keys open, of the
\* same kind.
LEMMA OtherDeviceOK ==
    ASSUME Inv, NEW id \in Ids, OtherDevice(id)
    PROVE  \E e : /\ SealedOK(e) /\ e.live /\ Kind(e) = Kind(server[id]) /\ ServerSet(server', server, id, e)
                  /\ serverOrg' \in BOOLEAN
<1> DEFINE c == server[id]
<1>1. c \in Entry /\ SealedOK(c) /\ c.live /\ serverOrg \in BOOLEAN /\ server \in [Ids -> Entry]
  BY DEF OtherDevice, Inv, SealedAll, SealedOK
<1>2. CASE ~server[id].org /\ serverOrg' = TRUE /\ server' = [server EXCEPT ![id] = Shared(@)]
  <2>1. ServerSet(server', server, id, Shared(c))
    BY <1>2 DEF ServerSet
  <2>2. SealedOK(Shared(c)) /\ Shared(c).live /\ Kind(Shared(c)) = Kind(c)
    BY <1>1, <1>2, SharedOK
  <2> QED
    BY <1>2, <2>1, <2>2
<1>3. CASE UNCHANGED serverOrg /\ server' = [server EXCEPT ![id].trashed = TRUE]
  <2> DEFINE e == [c EXCEPT !.trashed = TRUE]
  <2>1. ServerSet(server', server, id, e)
    BY <1>3 DEF ServerSet
  <2>2. e \in Entry /\ SameSecrets(e, c)
    BY <1>1 DEF Entry, SameSecrets
  <2> HIDE DEF e, c
  <2>3. SealedOK(e) /\ Kind(e) = Kind(c) /\ e.live
    BY <1>1, <2>2, SameSecretsOK DEF SameSecrets
  <2> QED
    BY <1>1, <1>3, <2>1, <2>3 DEF c
<1>4. CASE UNCHANGED serverOrg /\ server' = [server EXCEPT ![id].folder = ~@, ![id].fav = ~@]
  <2> DEFINE e == [c EXCEPT !.folder = ~c.folder, !.fav = ~c.fav]
  <2>1. ServerSet(server', server, id, e)
    BY <1>1, <1>4 DEF ServerSet, Entry
  <2>2. e \in Entry /\ SameSecrets(e, c)
    BY <1>1 DEF Entry, SameSecrets
  <2> HIDE DEF e, c
  <2>3. SealedOK(e) /\ Kind(e) = Kind(c) /\ e.live
    BY <1>1, <2>2, SameSecretsOK DEF SameSecrets
  <2> QED
    BY <1>1, <1>4, <2>1, <2>3 DEF c
<1>5. CASE UNCHANGED serverOrg /\ server' = [server EXCEPT ![id].data = [s \in DOMAIN @ |->
                  IF @[s] = None THEN None ELSE [@[s] EXCEPT !.text = "other"]]]
  <2> DEFINE e == OtherTexts(c)
  <2>1. ServerSet(server', server, id, e)
    BY <1>1, <1>5 DEF ServerSet, OtherTexts, Overwritten
  <2>2. SealedOK(e) /\ Kind(e) = Kind(c) /\ e.live
    BY <1>1, OtherTextsOK
  <2> QED
    BY <1>1, <1>5, <2>1, <2>2
<1> QED
  BY <1>2, <1>3, <1>4, <1>5 DEF OtherDevice

\* Another device changes a cipher.
LEMMA OtherDeviceInv ==
    ASSUME Inv, NEW id \in Ids, OtherDevice(id)
    PROVE  Inv'
<1>1. PICK e : /\ SealedOK(e) /\ e.live /\ Kind(e) = Kind(server[id]) /\ ServerSet(server', server, id, e)
               /\ serverOrg' \in BOOLEAN
  BY OtherDeviceOK
<1>2. SealedAll(server) /\ TasksOK(task) /\ DraftOK(draft) /\ server[id].live
  BY DEF Inv, OtherDevice
<1>3. SealedAll(server') /\ server'[id] = e /\ \A i \in Ids : i # id => server'[i] = server[i]
  BY <1>1, <1>2, ServerSetOK
<1>4. UNCHANGED <<db, protOrg, orgKeys, unlocked, pinned, draft, task>> /\ ops' \in Nat
  BY CountedOps DEF OtherDevice
<1>5. PICK K \in Kinds : KindsAre(K, server, db, draft, task)
  BY DEF Inv, KindsOK
<1>6. Of(K, server, id, server[id])
  BY <1>2, <1>5 DEF KindsAre
<1>7. ASSUME NEW u \in Tasks PROVE ~(task[u].op = "post" /\ task[u].id = id)
  <2>1. TaskOf(K, server, task[u])
    BY <1>5 DEF KindsAre
  <2> QED
    BY <1>6, <2>1 DEF TaskOf, Of
<1>8. server'[id] # Missing /\ Kind(server'[id]) = K[id]
  BY <1>1, <1>3, <1>6, MissingOK DEF Of
<1>9. KindsAre(K, server', db, draft, task)
  BY <1>2, <1>3, <1>5, <1>7, <1>8, ServerSetKinds
<1> QED
  BY <1>1, <1>3, <1>4, <1>9 DEF Inv, KindsOK, PinsMatchEntries

-----------------------------------------------------------------------------
(* What a meta read announces                                              *)

\* "Notes" is no label of a slot, and the master secret and the TOTP code have their own.
LEMMA LabelSorts ==
    ASSUME NEW s \in DOMAIN Label
    PROVE  /\ Label[s] # Notes
           /\ Label[s] = Label["password"] => s = "password"
           /\ Label[s] = Label["totp"] => s = "totp"
<1>1. "password" \in DOMAIN Label /\ "totp" \in DOMAIN Label
  BY DEF Label
<1>2. Plain("Notes").text = "Notes"
  BY DEF Plain
<1> QED
  BY <1>1, <1>2, LabelOf, MainLabels DEF Notes

\* A filled secret slot is fetched with its own value.
LEMMA SlotFetched ==
    ASSUME NEW e \in Entry, NEW s \in RedactedSlots[e.ty], e.data[s] # None
    PROVE  Fetched(e, Label[s]) = e.data[s]
<1> DEFINE label == Label[s]
<1>1. e.ty \in EntryTypes /\ s \in DOMAIN Label
  BY EntryParts, Labelled
<1>2. CASE s = "password"
  <2>0. e.ty = "Login" /\ label = Label["password"]
    BY <1>1, <1>2, RedactedFetched
  <2>1. e.ty = "Login" /\ OnDemandSecret(label) = "GetPassword"
    <3>1. label # Label["totp"]
      BY <1>1, <1>2, LabelSorts
    <3> HIDE DEF label
    <3> QED
      BY <2>0, <3>1 DEF OnDemandSecret
  <2>2. MainSecret(e) = e.data[s]
    BY <1>2, <2>1 DEF MainSecret
  <2> QED
    BY <2>1, <2>2 DEF Fetched
<1>3. CASE s = "totp"
  <2>1. e.ty = "Login"
    BY <1>1, <1>3, RedactedFetched
  <2>2. label # Label["password"] /\ label = Label["totp"]
    BY <1>1, <1>3, LabelSorts
  <2>3. OnDemandSecret(label) = "GetTotp"
    BY <2>2 DEF OnDemandSecret
  <2>4. TotpSecret(e) = e.data[s]
    BY <1>3, <2>1 DEF TotpSecret
  <2> QED
    BY <2>3, <2>4 DEF Fetched
<1>4. CASE s \notin {"password", "totp"}
  <2>1. s \in PlaintextSlots[e.ty] /\ PlaintextSlots[e.ty] \subseteq DOMAIN Label
    BY <1>1, <1>4, Labelled, RedactedFetched
  <2>2. label # Notes /\ label # Label["password"] /\ label # Label["totp"]
    BY <1>1, <1>4, LabelSorts
  <2>3. OnDemandSecret(label) = "GetEntry"
    BY <2>2 DEF OnDemandSecret
  <2>4. SlotsLabelled(e, label) = {s}
    BY <1>1, <2>1, LabelsDiffer DEF SlotsLabelled
  <2> HIDE DEF label
  <2>5. (CHOOSE u \in SlotsLabelled(e, label) : TRUE) = s
    BY <2>4
  <2>6. FieldPlaintext(e, label) = e.data[s]
    BY <2>2, <2>4, <2>5 DEF FieldPlaintext
  <2> QED
    BY <2>3, <2>6 DEF Fetched, label
<1> QED
  BY <1>2, <1>3, <1>4

\* It is not in the redacted entry, unless a visible field has its label.
LEMMA SlotRedacted ==
    ASSUME NEW e \in Entry, NEW s \in RedactedSlots[e.ty], SecretIsLoaded(Redact(e), Label[s])
    PROVE  \E i \in DOMAIN e.fields : e.fields[i].name = Label[s] /\ e.fields[i].ty = "Text"
<1> DEFINE label == Label[s]
           d == Redact(e)
<1>1. e.ty \in EntryTypes /\ s \in Slots[e.ty] /\ s \in DOMAIN Label /\ PlaintextSlots[e.ty] \subseteq DOMAIN Label
  BY EntryParts, SlotsAgree, Labelled
<1>2. Redacts(d, e)
  BY RedactFacts
<1>3. d.ty = e.ty /\ d.data[s] = None
  BY <1>1, <1>2 DEF Redacts, SameHead
<1>4. label # Notes
  BY <1>1, LabelSorts
<1>5. SecretIsLoaded(d, label)
  OBVIOUS
<1> HIDE DEF d
<1>6. SlotsLabelled(d, label) = {}
  <2>1. \A u \in PlaintextSlots[e.ty] : Label[u] = Label[s] => u = s
    <3>1. CASE s \in {"password", "totp"}
      BY <1>1, <3>1, MainLabels
    <3>2. CASE s \notin {"password", "totp"}
      BY <1>1, <3>2, RedactedFetched, LabelsDiffer
    <3> QED
      BY <3>1, <3>2
  <2> QED
    BY <1>3, <2>1 DEF SlotsLabelled
<1> HIDE DEF label
<1>7. PICK i \in DOMAIN d.fields : d.fields[i].name = label /\ d.fields[i].value # None
  BY <1>4, <1>5, <1>6 DEF SecretIsLoaded, FieldsNamed
<1>8. e.fields[i].name = label /\ e.fields[i].ty # "Hidden" /\ i \in DOMAIN e.fields
  BY <1>2, <1>7 DEF Redacts
<1>9. e.fields[i] \in CustomField
  BY <1>8, EntryParts, FieldParts
<1>10. e.fields[i].ty = "Text"
  BY <1>8, <1>9 DEF CustomField, Field, FieldTypes
<1> QED
  BY <1>8, <1>10 DEF label

\* Notes are fetched, and are not in the redacted entry.
LEMMA NotesLoad ==
    ASSUME NEW e \in Entry
    PROVE  Fetched(e, Notes) = e.notes /\ ~SecretIsLoaded(Redact(e), Notes)
<1>1. Redacts(Redact(e), e)
  BY RedactFacts
<1>2. ~SecretIsLoaded(Redact(e), Notes)
  BY <1>1 DEF SecretIsLoaded, Redacts
<1>3. "password" \in DOMAIN Label /\ "totp" \in DOMAIN Label
  BY DEF Label
<1>4. Notes # Label["password"] /\ Notes # Label["totp"]
  BY <1>3, LabelSorts
<1>5. OnDemandSecret(Notes) = "GetEntry"
  BY <1>4 DEF OnDemandSecret
<1> QED
  BY <1>2, <1>5 DEF Fetched, FieldPlaintext

\* A filled hidden field with a name of its own is fetched with its own value, and is not in
\* the redacted entry.
LEMMA FieldLoads ==
    ASSUME NEW e \in Entry, NEW i \in DOMAIN e.fields, NEW label, label = e.fields[i].name,
           e.fields[i].ty = "Hidden", e.fields[i].value # None,
           \A j \in DOMAIN e.fields : e.fields[j].name = label => j = i,
           label \notin {Label["password"], Label["totp"], Notes}, SlotsLabelled(e, label) = {}
    PROVE  Fetched(e, label) = e.fields[i].value /\ ~SecretIsLoaded(Redact(e), label)
<1> DEFINE d == Redact(e)
<1>1. OnDemandSecret(label) = "GetEntry"
  BY DEF OnDemandSecret
<1>2. FieldsNamed(e, label) = {i} /\ i \in Nat
  <2>1. e.fields \in Seq(CustomField)
    BY EntryParts
  <2> QED
    BY <2>1 DEF FieldsNamed
<1>3. (CHOOSE j \in FieldsNamed(e, label) : \A k \in FieldsNamed(e, label) : j <= k) = i
  BY <1>2
<1>4. FieldPlaintext(e, label) = e.fields[i].value
  BY <1>2, <1>3 DEF FieldPlaintext
<1>5. Redacts(d, e) /\ e.ty \in EntryTypes
  BY RedactFacts, EntryParts
<1> HIDE DEF d
<1>6. FieldsNamed(d, label) = {}
  BY <1>5 DEF FieldsNamed, Redacts
<1>7. SlotsLabelled(d, label) = {}
  <2> SUFFICES ASSUME NEW u \in PlaintextSlots[e.ty], Label[u] = label, d.data[u] # None PROVE FALSE
    BY <1>5 DEF SlotsLabelled, Redacts, SameHead
  <2>1. u \in Slots[e.ty]
    BY <1>5, PlaintextAreSlots
  <2>2. d.data[u] = e.data[u]
    BY <1>5, <2>1 DEF Redacts
  <2> QED
    BY <2>2 DEF SlotsLabelled
<1>8. ~SecretIsLoaded(d, label)
  BY <1>6, <1>7 DEF SecretIsLoaded
<1> QED
  BY <1>1, <1>4, <1>8 DEF Fetched, d

-----------------------------------------------------------------------------
(* The theorems                                                            *)

\* Initially the agent knows no entry, and every cipher is sealed with its own key.
LEMMA InitInv == Init => Inv
<1> SUFFICES ASSUME Init PROVE Inv
  OBVIOUS
<1>1. ASSUME NEW i \in Ids PROVE SealedOK(server[i]) /\ server[i] \in Entry
  <2>1. server[i] \in {Missing} \cup {Stocked(ty, itemKey) : ty \in Types, itemKey \in BOOLEAN}
    BY DEF Init
  <2>2. CASE server[i] = Missing
    BY <2>2, MissingOK
  <2>3. ASSUME NEW ty \in Types, NEW b \in BOOLEAN, server[i] = Stocked(ty, b)
        PROVE  SealedOK(server[i]) /\ server[i] \in Entry
    <3>1. ty \in EntryTypes
      BY TypesAssumption
    <3> QED
      BY <2>3, <3>1, StockedOK
  <2> QED
    BY <2>1, <2>2, <2>3
<1>2. SealedAll(server)
  BY <1>1 DEF Init, SealedAll
<1>3. SealedAll(db) /\ \A i \in Ids : ~db[i].live
  BY MissingOK DEF Init, SealedAll
<1>4. task = [t \in Tasks |-> NoTask] /\ draft = NoDraft
  BY DEF Init
<1>5. TasksOK(task) /\ \A t \in Tasks : task[t] = NoTask
  <2>1. TaskOK(NoTask) /\ NoTask \in TaskRecords
    BY IdleTasks, NoneTyped
  <2> QED
    BY <1>4, <2>1 DEF TasksOK
<1>6. PinsMatchEntries
  BY <1>3 DEF Init, PinsMatchEntries
<1>7. KindsOK(server, db, draft, task)
  <2> DEFINE K == [i \in Ids |-> Kind(server[i])]
  <2>1. K \in Kinds
    BY <1>1, EntryParts DEF Kinds, Kind
  <2>2. \A i \in Ids : K[i] = Kind(server[i])
    OBVIOUS
  <2> HIDE DEF K
  <2>3. \A i \in Ids : server[i].live => Of(K, server, i, server[i])
    BY <2>2, MissingOK DEF Of
  <2>4. \A t \in Tasks : TaskOf(K, server, task[t])
    BY <1>5, IdleTasks
  <2>5. DraftOf(K, server, draft)
    BY <1>4, NoneTyped DEF DraftOf
  <2>6. OnePost(task)
    BY <1>5, NoneTyped DEF OnePost
  <2> QED
    BY <1>3, <2>1, <2>3, <2>4, <2>5, <2>6 DEF KindsOK, KindsAre
<1> QED
  BY <1>2, <1>3, <1>4, <1>5, <1>6, <1>7, NoneTyped DEF Init, Inv

\* Every step keeps it.
LEMMA NextInv == Inv /\ [Next]_vars => Inv'
<1> SUFFICES ASSUME Inv, [Next]_vars PROVE Inv'
  OBVIOUS
<1>1. CASE UNCHANGED vars
  BY <1>1 DEF vars, Inv, PinsMatchEntries
<1>2. ASSUME ClientStep PROVE Inv'
  BY <1>2, GetEntryMetaInv, GetEntryInv, NewDraftInv, EditFieldChangedInv, CancelEditInv DEF ClientStep
<1>3. ASSUME NEW t \in Tasks, Request(t) PROVE Inv'
  <2>1. CASE HandleUpdateEntry(t) \/ HandleSync(t)
    BY <2>1, HandleUpdateEntryInv, HandleSyncInv
  <2>2. CASE \E row \in Rows, x \in Texts, ty \in FieldTypes : CliEdit(t, row, x, ty)
    BY <2>2, CliEditInv
  <2>3. ASSUME NEW id \in Ids, AddRequest(t, id) \/ AddNewTypeRequest(t, id) PROVE Inv'
    BY <2>3, HandleAddEntryInv DEF AddRequest, AddNewTypeRequest
  <2>4. ASSUME NEW id \in Ids, HandleDeleteEntry(t, id) \/ HandleUpdateLoginPassword(t, id) PROVE Inv'
    BY <2>4, HandleDeleteEntryInv, HandleUpdateLoginPasswordInv
  <2>5. CASE \E id \in Ids, on \in BOOLEAN : SetFavorite(t, id, on)
    BY <2>5, SetFavoriteInv
  <2> QED
    BY <1>3, <2>1, <2>2, <2>3, <2>4, <2>5 DEF Request
<1>4. ASSUME NEW t \in Tasks, Answer(t) PROVE Inv'
  BY <1>4, WriteDoneInv, WriteFailedInv, SyncAnsweredInv, SyncAppliedInv, SyncFailsInv DEF Answer
<1>5. CASE Lock
  BY <1>5, LockInv
<1>6. ASSUME NEW t \in Tasks, Unlock(t) PROVE Inv'
  BY <1>6, UnlockInv
<1>7. ASSUME NEW id \in Ids, OtherDevice(id) PROVE Inv'
  BY <1>7, OtherDeviceInv
<1> QED
  BY <1>1, <1>2, <1>3, <1>4, <1>5, <1>6, <1>7 DEF Next

\* The inductive invariant: whatever the order of reads, edits, writes, syncs, locks and
\* other devices' changes, every entry in the agent, on the server or on its way is one
\* the agent's keys open, of the type and key kind its id was created with.
THEOREM VaultEditsInductive == Spec => []Inv
  BY InitInv, NextInv, PTL DEF Spec

\* An update carries exactly the edit, for any entry types, rows and requests in flight
\* (handle_update_entry, update_entry_on_server).
THEOREM UpdatesCarryTheEdit == Spec => []UpdateCarriesTheEdit
<1>1. Inv => UpdateCarriesTheEdit
  <2> SUFFICES ASSUME Inv, NEW t \in Tasks, task[t].op = "put", Understood(task[t])
               PROVE  LET r == task[t] got == Decrypt(r.req, FALSE) IN
                        /\ \A s \in DOMAIN got.data \ {"fingerprint"} : got.data[s] = Meant(r, s)
                        /\ \A i \in DOMAIN r.edit.base.fields :
                              ~FollowsSlot(r, i) => MeantField(r, i, got.fields[i].value)
                        /\ got.history = r.edit.base.history
                        /\ got.reprompt = r.edit.base.reprompt
                        /\ got.key = r.edit.base.key
    BY DEF UpdateCarriesTheEdit
  <2>1. PutOK(task[t])
    BY DEF Inv, TasksOK, TaskOK
  <2> QED
    BY <2>1 DEF PutOK
<1> QED
  BY <1>1, VaultEditsInductive, PTL

\* No write of the agent leaves a cipher on the server that its own keys do not open
\* (update_entry_on_server, add_entry_on_server).
THEOREM ServerStaysReadable == Spec => []ServerReadable
<1>1. Inv => ServerReadable
  BY DEF Inv, SealedAll, SealedOK, ServerReadable
<1> QED
  BY <1>1, VaultEditsInductive, PTL

\* A new entry reaches the server with every slot the user filled in, and no other
\* (save_action, handle_add_*, add_entry_on_server).
THEOREM EntriesCreatedAsTyped == Spec => []CreatedAsTyped
<1>1. Inv => CreatedAsTyped
  <2> SUFFICES ASSUME Inv, NEW t \in Tasks, task[t].op = "post"
               PROVE  LET r == task[t] got == Decrypt(r.req, FALSE) IN
                        /\ got.notes = NonEmpty(r.edit.entry.notes)
                        /\ \A s \in AddActionSlots[got.ty] \ {"uri", "private_key"} :
                              got.data[s] = NonEmpty(r.edit.entry.data[s])
                        /\ \A s \in {"uri", "private_key"} \cap DOMAIN got.data :
                              got.data[s] = r.edit.entry.data[s]
    BY DEF CreatedAsTyped
  <2>1. PostOK(task[t])
    BY DEF Inv, TasksOK, TaskOK
  <2> QED
    BY <2>1 DEF PostOK
<1> QED
  BY <1>1, VaultEditsInductive, PTL

\* A meta read announces every filled secret, and the copy and reveal buttons fetch the
\* value of that one: always that of a slot or of the notes, and that of a hidden custom field
\* whose name no other field and no filled slot has, and none of the three labels that have a
\* request or an arm of their own.  A slot seems loaded already only by a visible field of its
\* label (filled_secret_keys, on_demand_secret, field_plaintext, secret_is_loaded).
THEOREM AnnouncedSecretsAlwaysLoad == Spec => []AnnouncedSecretsLoad
<1>1. Inv => AnnouncedSecretsLoad
  <2> SUFFICES ASSUME Inv, NEW id \in Ids, db[id].live
               PROVE  LET e == Decrypt(db[id], orgKeys)
                          Loads(label, v) == label \in FilledSecretKeys(e) /\ Fetched(e, label) = v
                          Loaded(label) == SecretIsLoaded(Redact(e), label)
                          Named(label) == {i \in DOMAIN e.fields : e.fields[i].name = label}
                          Shadowed(label) == label \in {Label["password"], Label["totp"], Notes}
                                             \/ SlotsLabelled(e, label) # {}
                      IN /\ \A s \in {s \in RedactedSlots[e.ty] : e.data[s] # None} :
                               /\ Loads(Label[s], e.data[s])
                               /\ Loaded(Label[s]) => \E i \in Named(Label[s]) : e.fields[i].ty = "Text"
                         /\ e.notes # None => Loads(Notes, e.notes) /\ ~Loaded(Notes)
                         /\ \A i \in DOMAIN e.fields : LET f == e.fields[i] IN
                               /\ f.ty = "Hidden" /\ f.value # None /\ f.name # None
                               /\ Named(f.name) = {i} /\ ~Shadowed(f.name)
                               => Loads(f.name, f.value) /\ ~Loaded(f.name)
    BY DEF AnnouncedSecretsLoad
  <2> DEFINE e == Decrypt(db[id], orgKeys)
  <2>1. e \in Entry
    <3>1. SealedOK(db[id])
      BY DEF Inv, SealedAll
    <3>2. BaseOK(e, db[id])
      BY <3>1, ReadBase
    <3> QED
      BY <3>2 DEF BaseOK
  <2> HIDE DEF e
  <2>2. ASSUME NEW s \in RedactedSlots[e.ty], e.data[s] # None
        PROVE  /\ Label[s] \in FilledSecretKeys(e) /\ Fetched(e, Label[s]) = e.data[s]
               /\ SecretIsLoaded(Redact(e), Label[s]) =>
                     \E i \in {i \in DOMAIN e.fields : e.fields[i].name = Label[s]} : e.fields[i].ty = "Text"
    <3>1. Label[s] \in FilledSecretKeys(e)
      BY <2>2 DEF FilledSecretKeys
    <3>2. Fetched(e, Label[s]) = e.data[s]
      BY <2>1, <2>2, SlotFetched
    <3>3. ASSUME SecretIsLoaded(Redact(e), Label[s])
          PROVE  \E i \in {i \in DOMAIN e.fields : e.fields[i].name = Label[s]} : e.fields[i].ty = "Text"
      BY <2>1, <3>3, SlotRedacted
    <3> QED
      BY <3>1, <3>2, <3>3
  <2>3. ASSUME e.notes # None
        PROVE  Notes \in FilledSecretKeys(e) /\ Fetched(e, Notes) = e.notes /\ ~SecretIsLoaded(Redact(e), Notes)
    BY <2>1, <2>3, NotesLoad DEF FilledSecretKeys
  <2>4. ASSUME NEW i \in DOMAIN e.fields, e.fields[i].ty = "Hidden", e.fields[i].value # None, e.fields[i].name # None,
               {j \in DOMAIN e.fields : e.fields[j].name = e.fields[i].name} = {i},
               e.fields[i].name \notin {Label["password"], Label["totp"], Notes},
               SlotsLabelled(e, e.fields[i].name) = {}
        PROVE  /\ e.fields[i].name \in FilledSecretKeys(e) /\ Fetched(e, e.fields[i].name) = e.fields[i].value
               /\ ~SecretIsLoaded(Redact(e), e.fields[i].name)
    <3>1. e.fields[i].name \in FilledSecretKeys(e)
      BY <2>4 DEF FilledSecretKeys
    <3>2. \A j \in DOMAIN e.fields : e.fields[j].name = e.fields[i].name => j = i
      BY <2>4
    <3> QED
      BY <2>1, <2>4, <3>1, <3>2, FieldLoads
  <2> QED
    BY <2>2, <2>3, <2>4 DEF e
<1> QED
  BY <1>1, VaultEditsInductive, PTL

\* The pinned ids are those of the favourite entries, after a pin, a sync and an unlock
\* alike (set_favorite, handle_sync, handle_unlock).
THEOREM PinsAlwaysMatch == Spec => []PinsMatchEntries
<1>1. Inv => PinsMatchEntries
  BY DEF Inv
<1> QED
  BY <1>1, VaultEditsInductive, PTL
=============================================================================
