CONSTANTS
    DocumentId = {1, 2, 3}
    MaxRevision = 2
SPECIFICATION FairSpec
INVARIANTS
    FreshPublication
    ClosedDocumentsSilent
    MailboxConsistent
    NoCapacityRejection
PROPERTIES
    LoadCompletes
    DestructorJoins
CHECK_DEADLOCK FALSE
