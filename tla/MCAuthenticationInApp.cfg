CONSTANTS
    Emails = {alice}
    NoEmail = NoEmail
    Types = {"Login", "Deletion", "Management"}
    MaxSessions = 1
    MaxErrors = 2
SPECIFICATION FairSpec
INVARIANTS
    TypeOK
    BusyHasRequest
PROPERTIES
    SpinnersEnd
CHECK_DEADLOCK FALSE
