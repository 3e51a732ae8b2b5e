SPECIFICATION Spec
CONSTANTS
    Accepts <- Flags
    upOnlyFlags = {"auth-key", "reset"}
    secretFlags = {"auth-key"}
    managedFlags = {"socket"}
    CIDRs = {"10.0.0.0/8"}
    None = None
    MaxEntries = 4
INVARIANTS
    ParsedAsWritten
    SetGetsTheRest
    RedactHidesSecrets
    AdvertisedIsMeant
