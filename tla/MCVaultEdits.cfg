SPECIFICATION OverlapSpec
CONSTANTS
    t1 = t1
    t2 = t2
    Ids = {"c1"}
    Tasks = {t1, t2}
    Types = {"Login", "SecureNote", "Card", "Identity", "SshKey",
             "BankAccount", "DriversLicense", "Passport"}
    Rows <- EditRows
    Texts = {"", "new"}
    MaxOps = 2
INVARIANTS
    UpdateCarriesTheEdit
    ServerReadable
    CreatedAsTyped
    AnnouncedSecretsLoad
    PinsMatchEntries
CHECK_DEADLOCK FALSE
