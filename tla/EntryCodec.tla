----------------------------- MODULE EntryCodec -----------------------------
(***************************************************************************)
(* What happens to one vault entry on its way between the server, the      *)
(* agent and a client: encryption and decryption, redaction of bulk reads, *)
(* the merge that undoes it, and the bodies of POST and PUT /ciphers.      *)
(*                                                                         *)
(* An entry is a record; its type-specific part `data` is a function from  *)
(* the slots of the type (the fields of a variant of EntryData) to values. *)
(* A value names the key it is encrypted with: "plain" for plaintext,      *)
(* "none" for Rust's None.                                                 *)
(***************************************************************************)
EXTENDS Integers, Sequences

None == [by |-> "none", text |-> ""]
Plain(t) == [by |-> "plain", text |-> t]

\* CipherString: opens under the key it was sealed with, and only under it.
\* Sealing a value that is itself a cipherstring seals that string.
Enc(k, v) ==
    IF v = None THEN None
    ELSE [by |-> k, text |-> IF v.by = "plain" THEN v.text ELSE "cipherstring"]
Opens(k, v) == v.by = k
Dec(k, v) == IF Opens(k, v) THEN Plain(v.text) ELSE None
DecOrKeep(k, v) == IF Opens(k, v) THEN Plain(v.text) ELSE v

-----------------------------------------------------------------------------
(* EntryData: the slots of the eight entry types.  A login's URIs are one  *)
(* slot "uri"; its match type is the entry's field `match`.                *)

LoginSlots == {"username", "password", "totp", "uri"}
CardSlots == {"cardholder_name", "number", "brand", "exp_month", "exp_year",
              "code"}
IdentityNames == {"first_name", "last_name", "address1", "city", "state",
                  "postal_code", "country", "email", "phone"}
IdentitySlots == IdentityNames \cup
    {"title", "middle_name", "address2", "address3", "ssn", "license_number",
     "passport_number", "username"}
SshSlots == {"private_key", "public_key", "fingerprint"}
BankSlots == {"bank_name", "name_on_account", "account_type",
              "account_number", "routing_number", "branch_number", "pin",
              "swift_code", "iban", "bank_contact_phone"}
LicenseSlots == {"first_name", "middle_name", "last_name", "date_of_birth",
                 "license_number", "issuing_country", "issuing_state",
                 "issue_date", "expiration_date", "issuing_authority",
                 "license_class"}
PassportSlots == {"surname", "given_name", "date_of_birth", "sex",
                  "birth_place", "nationality", "issuing_country",
                  "passport_number", "passport_type",
                  "national_identification_number", "issuing_authority",
                  "issue_date", "expiration_date"}

Slots == [Login |-> LoginSlots, SecureNote |-> {}, Card |-> CardSlots,
          Identity |-> IdentitySlots, SshKey |-> SshSlots,
          BankAccount |-> BankSlots, DriversLicense |-> LicenseSlots,
          Passport |-> PassportSlots]
EntryTypes == DOMAIN Slots

Values(texts) == [by : {"none", "plain", "user", "org", "item"}, text : texts]
FieldTypes == {"Text", "Hidden"}
Field(texts) == [name : Values(texts), value : Values(texts), ty : FieldTypes]

Blank(ty) ==
    [live |-> FALSE, trashed |-> FALSE, ty |-> ty, org |-> FALSE,
     folder |-> FALSE, fav |-> FALSE, reprompt |-> FALSE, key |-> None,
     name |-> None, notes |-> None, data |-> [s \in Slots[ty] |-> None],
     match |-> "none", fields |-> <<>>, history |-> {}]
Missing == Blank("SecureNote")

-----------------------------------------------------------------------------
(* From the server to the agent, and from the agent to a client.           *)

\* CipherUri reads the match type under the JSON key "match_type", which the
\* server does not send: the default is Domain.
ReadMatch(c) == IF c.data["uri"] = None THEN "none" ELSE "Domain"

\* SyncResCipher::to_entry, and the filter_map in Client::sync: every slot of
\* the type is taken over, and a cipher in the trash is no entry.
ToEntryData(c) ==
    IF c.ty = "Login" THEN [c EXCEPT !.match = ReadMatch(c)] ELSE c
ToEntry(c) == IF ~c.live \/ c.trashed THEN Missing ELSE ToEntryData(c)

\* vault::decrypt: the key that opens the values of e, given the user key
\* and, if orgKeys, the organization's.  An item key that does not open
\* leaves nothing readable.
EntryKey(e, orgKeys) ==
    LET base == IF e.org /\ orgKeys THEN "org" ELSE "user"
    IN IF e.key = None THEN base
       ELSE IF Opens(base, e.key) THEN "item" ELSE "unreadable"

\* The slots each arm of Entry::decrypt opens.
DecryptLogin == LoginSlots
DecryptCard == CardSlots
DecryptIdentity == IdentitySlots
DecryptSshKey == SshSlots
DecryptBank == BankSlots
DecryptLicense == LicenseSlots
DecryptPassport == PassportSlots
DecryptSlots ==
    [Login |-> DecryptLogin, SecureNote |-> {}, Identity |-> DecryptIdentity,
     Card |-> DecryptCard, SshKey |-> DecryptSshKey, BankAccount |-> DecryptBank,
     DriversLicense |-> DecryptLicense, Passport |-> DecryptPassport]

\* A slot that does not open becomes None; a URI, like the name, the notes
\* and a field's name, stays the cipherstring.
DecryptData(e, k) ==
    LET opened == DecryptSlots[e.ty]
    IN [s \in DOMAIN e.data |->
           IF s \notin opened THEN e.data[s]
           ELSE IF s = "uri" THEN DecOrKeep(k, e.data[s]) ELSE Dec(k, e.data[s])]
DecryptFields(e, k) ==
    [i \in DOMAIN e.fields |->
        [e.fields[i] EXCEPT !.name = DecOrKeep(k, @), !.value = Dec(k, @)]]

\* The value of the last custom field of that name.
LastField(fields, n) ==
    LET named == {i \in DOMAIN fields : fields[i].name = Plain(n)}
    IN IF named = {} THEN None
       ELSE fields[CHOOSE i \in named : \A j \in named : j <= i].value
SshFallback(data, fields) ==
    [data EXCEPT
        !["private_key"] = IF @ = None THEN LastField(fields, "private_key") ELSE @,
        !["public_key"] = IF @ = None THEN LastField(fields, "public_key") ELSE @]

\* Entry::decrypt.
Decrypt(e, orgKeys) ==
    LET k == EntryKey(e, orgKeys)
        data == DecryptData(e, k)
        fields == DecryptFields(e, k)
    IN [e EXCEPT !.name = DecOrKeep(k, @), !.notes = DecOrKeep(k, @),
                 !.fields = fields,
                 !.data = IF e.ty = "SshKey" THEN SshFallback(data, fields)
                                             ELSE data]

\* The agent's keys open every value of e.
Readable(e, orgKeys) ==
    LET k == EntryKey(e, orgKeys)
        OK(v) == v = None \/ Opens(k, v)
    IN /\ OK(e.name) /\ OK(e.notes)
       /\ \A s \in DOMAIN e.data : OK(e.data[s])
       /\ \A i \in DOMAIN e.fields : OK(e.fields[i].name) /\ OK(e.fields[i].value)

RedactedSlots ==
    [Login |-> {"password", "totp"}, SecureNote |-> {},
     Card |-> {"number", "code"}, SshKey |-> {"private_key"},
     BankAccount |-> {"account_number", "routing_number", "pin", "iban",
                      "swift_code", "branch_number"},
     DriversLicense |-> {"license_number"},
     Passport |-> {"passport_number", "national_identification_number",
                   "date_of_birth"},
     Identity |-> {"ssn", "license_number", "passport_number"}]

\* redact_entry_secrets.
Redact(e) ==
    [e EXCEPT !.data = [s \in DOMAIN @ |->
                           IF s \in RedactedSlots[e.ty] THEN None ELSE @[s]],
              !.notes = None,
              !.fields = [i \in DOMAIN @ |->
                             IF @[i].ty = "Hidden"
                             THEN [@[i] EXCEPT !.value = None] ELSE @[i]]]

-----------------------------------------------------------------------------
(* The detail rows of a client: which secrets a meta read announces, and   *)
(* what the copy button then fetches.  The agent and the clients know a    *)
(* row by one string, its label: that of a slot, "Notes", or the name of a *)
(* custom field, which may be the label of a slot.  A name that is still a *)
(* cipherstring is no label of a slot.                                     *)

Label ==
    [password |-> Plain("Password"), totp |-> Plain("TOTP"),
     number |-> Plain("Card Number"), code |-> Plain("Security Code"),
     private_key |-> Plain("Private Key"), public_key |-> Plain("Public Key"),
     account_number |-> Plain("Account Number"), pin |-> Plain("PIN"),
     routing_number |-> Plain("Routing Number"), iban |-> Plain("IBAN"),
     branch_number |-> Plain("Branch Number"), swift_code |-> Plain("SWIFT Code"),
     license_number |-> Plain("License Number"), ssn |-> Plain("SSN"),
     passport_number |-> Plain("Passport Number"),
     national_identification_number |-> Plain("National Identification Number"),
     date_of_birth |-> Plain("Date of Birth"), username |-> Plain("Username"),
     fingerprint |-> Plain("Fingerprint"), email |-> Plain("Email"),
     cardholder_name |-> Plain("Cardholder"), brand |-> Plain("Brand")]
Notes == Plain("Notes")

\* filled_secret_keys, computed before Redact.
FilledSecretKeys(e) ==
    {Label[s] : s \in {s \in RedactedSlots[e.ty] : e.data[s] # None}}
    \cup (IF e.notes = None THEN {} ELSE {Notes})
    \cup {e.fields[i].name : i \in {i \in DOMAIN e.fields :
             e.fields[i].ty = "Hidden" /\ e.fields[i].value # None
             /\ e.fields[i].name # None}}

\* on_demand_secret: GetPassword, GetTotp or GetEntry, by the label alone.
OnDemandSecret(label) ==
    CASE label = Label["password"] -> "GetPassword"
      [] label = Label["totp"] -> "GetTotp"
      [] OTHER -> "GetEntry"

\* The slots with an arm of their own in field_plaintext, which reads the
\* answer of GetEntry.  A mutant forgets one that filled_secret_keys announces.
PlaintextSlotsNoBranch ==
    [Login |-> {"password"}, SecureNote |-> {}, Card |-> {"number", "code"},
     SshKey |-> {"private_key", "public_key"},
     BankAccount |-> {"account_number", "routing_number", "pin", "iban",
                      "swift_code"},
     Identity |-> {"ssn", "license_number", "passport_number"},
     DriversLicense |-> {"license_number"},
     Passport |-> {"passport_number", "national_identification_number",
                   "date_of_birth"}]
PlaintextSlots ==
    [Login |-> {"password"}, SecureNote |-> {}, Card |-> {"number", "code"},
     SshKey |-> {"private_key", "public_key"},
     BankAccount |-> {"account_number", "routing_number", "pin", "iban",
                      "swift_code", "branch_number"},
     Identity |-> {"ssn", "license_number", "passport_number"},
     DriversLicense |-> {"license_number"},
     Passport |-> {"passport_number", "national_identification_number",
                   "date_of_birth"}]
SlotsLabelled(e, label) ==
    {s \in PlaintextSlots[e.ty] : Label[s] = label /\ e.data[s] # None}
FieldsNamed(e, label) ==
    {i \in DOMAIN e.fields : e.fields[i].name = label /\ e.fields[i].value # None}
FieldPlaintext(e, label) ==
    LET slots == SlotsLabelled(e, label)
        named == FieldsNamed(e, label)
    IN IF label = Notes THEN e.notes
       ELSE IF slots # {} THEN e.data[CHOOSE s \in slots : TRUE]
       ELSE IF named = {} THEN None
       ELSE e.fields[CHOOSE i \in named : \A j \in named : i <= j].value

\* secret_is_loaded: whether a reveal finds the value in the entry the client
\* has.  A login's TOTP row always fetches: it shows the code, not the seed.
SecretIsLoaded(e, label) ==
    IF label = Notes THEN e.notes # None
    ELSE /\ ~(e.ty = "Login" /\ label = Label["totp"])
         /\ SlotsLabelled(e, label) \cup FieldsNamed(e, label) # {}

\* Action::GetPassword: the main secret of a type.
MainSecret(e) ==
    CASE e.ty = "Login" -> e.data["password"]
      [] e.ty = "SshKey" -> e.data["private_key"]
      [] e.ty = "Card" -> e.data["number"]
      [] e.ty = "BankAccount" -> e.data["account_number"]
      [] e.ty = "DriversLicense" -> e.data["license_number"]
      [] e.ty = "Passport" -> e.data["passport_number"]
      [] e.ty = "SecureNote" -> e.notes
      [] OTHER -> None

\* handle_get_totp: the code of the login's TOTP seed.
TotpSecret(e) == IF e.ty = "Login" THEN e.data["totp"] ELSE None

\* parse_on_demand_response: what is copied after the fetch.
Fetched(e, label) ==
    CASE OnDemandSecret(label) = "GetPassword" -> MainSecret(e)
      [] OnDemandSecret(label) = "GetTotp" -> TotpSecret(e)
      [] OTHER -> FieldPlaintext(e, label)

-----------------------------------------------------------------------------
(* From a client to the server.                                            *)

\* A mutant forgets to merge a bank account's secrets.
MergedSlotsNoBank == [RedactedSlots EXCEPT !.BankAccount = {}]
MergedSlots ==
    [Login |-> {"password", "totp"}, SecureNote |-> {},
     Card |-> {"number", "code"}, SshKey |-> {"private_key"},
     BankAccount |-> {"account_number", "routing_number", "pin", "iban",
                      "swift_code", "branch_number"},
     DriversLicense |-> {"license_number"},
     Passport |-> {"passport_number", "national_identification_number",
                   "date_of_birth"},
     Identity |-> {"ssn", "license_number", "passport_number"}]

\* The value of the first hidden field of the stored entry with that name.
StoredHidden(stored, n) ==
    LET named == {i \in DOMAIN stored.fields :
                     stored.fields[i].name = n /\ stored.fields[i].ty = "Hidden"}
    IN IF named = {} THEN None
       ELSE stored.fields[CHOOSE i \in named : \A j \in named : i <= j].value

\* merge_redacted_secrets: None in a secret slot means "unchanged".
MergeRedactedSecrets(e, stored) ==
    [e EXCEPT
        !.key = IF @ = None THEN stored.key ELSE @,
        !.data = [s \in DOMAIN @ |->
                     IF @[s] = None /\ e.ty = stored.ty /\ s \in MergedSlots[e.ty]
                     THEN stored.data[s] ELSE @[s]],
        !.fields = [i \in DOMAIN @ |->
                       IF @[i].ty = "Hidden" /\ @[i].value = None
                       THEN [@[i] EXCEPT !.value =
                                   StoredHidden(stored, e.fields[i].name)]
                       ELSE @[i]]]

\* Entry::set_field: the first field of that name, or a new one at the end.
SetField(fields, n, v, ty) ==
    LET named == {i \in DOMAIN fields : fields[i].name = Plain(n)}
    IN IF named = {}
       THEN Append(fields, [name |-> Plain(n), value |-> v, ty |-> ty])
       ELSE LET first == CHOOSE i \in named : \A j \in named : i <= j
            IN [fields EXCEPT ![first].value = v, ![first].ty = ty]

\* handle_update_entry keeps the custom fields of an SSH key in step with it.
SyncSshFields(e) ==
    IF e.ty # "SshKey" THEN e
    ELSE LET Upd(fs, s, ty) ==
                 IF e.data[s] = None THEN fs ELSE SetField(fs, s, e.data[s], ty)
         IN [e EXCEPT !.fields = Upd(Upd(@, "private_key", "Hidden"),
                                     "public_key", "Text")]

\* The slots each arm of update_entry_on_server encrypts and sends.
PutLogin == LoginSlots
PutIdentity == IdentitySlots
PutCard == CardSlots
PutSshKey == SshSlots \ {"fingerprint"}
PutBank == BankSlots
PutLicense == LicenseSlots
PutPassport == PassportSlots
PutSlots ==
    [Login |-> PutLogin, SecureNote |-> {}, Identity |-> PutIdentity,
     Card |-> PutCard, SshKey |-> PutSshKey, BankAccount |-> PutBank,
     DriversLicense |-> PutLicense, Passport |-> PutPassport]

EncryptSlots(e, k, sent) ==
    [s \in DOMAIN e.data |-> IF s \in sent THEN Enc(k, e.data[s]) ELSE None]
EncryptFields(e, k) ==
    [i \in DOMAIN e.fields |->
        [e.fields[i] EXCEPT !.name = Enc(k, @), !.value = Enc(k, @)]]

\* update_entry_on_server uses the user's keys, also for an entry of the
\* organization: an item key sealed for the organization is an error.
PutKeyOpens(e) == e.key = None \/ Opens("user", e.key)

\* Client::update_cipher: the PUT body names no folder and no organization.
UpdateCipher(body) == [body EXCEPT !.folder = FALSE, !.org = FALSE]

\* CiphersPutReq: the request replaces the whole cipher.  One mutant encrypts
\* with the user's key whatever the entry's own, one sends only the slots it
\* fills.
PutRequestUserKey(e) ==
    UpdateCipher([e EXCEPT !.name = Enc("user", @), !.notes = Enc("user", @),
                           !.data = EncryptSlots(e, "user", PutSlots[e.ty]),
                           !.fields = EncryptFields(e, "user")])
PutRequest(e) ==
    LET k == IF e.key = None THEN "user" ELSE "item"
    IN UpdateCipher([e EXCEPT !.name = Enc(k, @), !.notes = Enc(k, @),
                              !.data = EncryptSlots(e, k, PutSlots[e.ty]),
                              !.fields = EncryptFields(e, k)])

\* save_action: a blank slot of a new entry is dropped, and only the slots
\* that the Add* action has go in it.
NonEmpty(v) == IF v.text = "" THEN None ELSE v
AddBankAccount == BankSlots
AddDriversLicense == LicenseSlots
AddPassport == PassportSlots
AddActionSlots ==
    [Login |-> LoginSlots, SecureNote |-> {}, Card |-> CardSlots,
     SshKey |-> {"private_key", "public_key"}, Identity |-> IdentityNames,
     BankAccount |-> AddBankAccount, DriversLicense |-> AddDriversLicense,
     Passport |-> AddPassport]
SaveAction(draft) ==
    [draft EXCEPT
        !.data = [s \in DOMAIN @ |->
                     IF s \notin AddActionSlots[draft.ty] THEN None
                     ELSE IF s = "uri" THEN @[s]
                     ELSE IF s = "private_key" /\ NonEmpty(@[s]) = None
                          THEN Plain("")
                     ELSE NonEmpty(@[s])]]

\* The slots of the entry each of the seven handle_add_* functions builds.
HandleAddLogin == LoginSlots
HandleAddSshKey == SshSlots \ {"fingerprint"}
HandleAddCard == CardSlots
HandleAddIdentity == IdentityNames
HandleAddBankAccount == BankSlots
HandleAddDriversLicense == LicenseSlots
HandleAddPassport == PassportSlots
HandleAddSlots ==
    [Login |-> HandleAddLogin, SecureNote |-> {}, SshKey |-> HandleAddSshKey,
     Card |-> HandleAddCard, Identity |-> HandleAddIdentity,
     BankAccount |-> HandleAddBankAccount,
     DriversLicense |-> HandleAddDriversLicense, Passport |-> HandleAddPassport]

\* An entry without id, folder, history or item key.  An SSH key is also
\* written to custom fields.
SshKeyFields(a) ==
    a.fields \o <<[name |-> Plain("private_key"),
                   value |-> a.data["private_key"], ty |-> "Hidden"]>>
             \o (IF a.data["public_key"] = None THEN <<>>
                 ELSE <<[name |-> Plain("public_key"),
                         value |-> a.data["public_key"], ty |-> "Text"]>>)
HandleAdd(a) ==
    [Blank(a.ty) EXCEPT !.live = TRUE, !.name = a.name, !.notes = a.notes,
        !.match = a.match,
        !.data = [s \in DOMAIN a.data |->
                     IF s \in HandleAddSlots[a.ty] THEN a.data[s] ELSE None],
        !.fields = IF a.ty = "SshKey" THEN SshKeyFields(a) ELSE a.fields]

\* The slots each arm of add_entry_on_server encrypts and sends.  A mutant
\* drops the security code of a card.
PostCardNoCode == CardSlots \ {"code"}
PostLogin == LoginSlots
PostIdentity == IdentityNames
PostCard == CardSlots
PostSshKey == {"private_key", "public_key"}
PostBank == BankSlots
PostLicense == LicenseSlots
PostPassport == PassportSlots
PostSlots ==
    [Login |-> PostLogin, SecureNote |-> {}, Identity |-> PostIdentity,
     Card |-> PostCard, SshKey |-> PostSshKey, BankAccount |-> PostBank,
     DriversLicense |-> PostLicense, Passport |-> PostPassport]

\* The slots each of the client's five POST methods has in its body.
AddCipherBody == LoginSlots
AddSshKeyBody == SshSlots \ {"fingerprint"}
AddCardBody == CardSlots
AddIdentityBody == IdentityNames
AddNewTypeCipherBody == BankSlots \cup LicenseSlots \cup PassportSlots
PostBody ==
    [Login |-> AddCipherBody, SecureNote |-> AddCipherBody,
     Identity |-> AddIdentityBody, Card |-> AddCardBody,
     SshKey |-> AddSshKeyBody, BankAccount |-> AddNewTypeCipherBody,
     DriversLicense |-> AddNewTypeCipherBody, Passport |-> AddNewTypeCipherBody]

\* CiphersPostReq, as add_entry_on_server has it filled.
PostRequest(e) ==
    [e EXCEPT !.name = Enc("user", @), !.notes = Enc("user", @),
              !.data = EncryptSlots(e, "user", PostSlots[e.ty] \cap PostBody[e.ty]),
              !.fields = EncryptFields(e, "user")]
=============================================================================
