CONSTANTS
    m1 = m1
    m2 = m2
    Messages = {m1, m2}
    MaxRetries = 3
    Values <- TypedValues
    Urls <- SentUrls
    Paths <- BodyPaths
    Nothing = Nothing
    Limit = 2
    MaxWritten = 5
    e1 = e1
    e2 = e2
    Editors = {e1, e2}
    empty = empty
    full = full
    Bodies = {empty, full}
    EmptyBody = empty
    NoRow = NoRow
    Absent = Absent
    LastVersion = 3
    Retention = 3
    OldestBackfill = 2
    NewestBackfill = 2
    Deployment = 3
    LastDay = 7
    Instants = {"early", "later", "last"}
    MaxVisits = 2
    MaxMissed = 1
    Null = Null
    None = None
SPECIFICATION RowsSpec
INVARIANTS TypesOK MailedOnce NoMessageSkipped ReportsAreRight TotalsAreWhole
    PurgedOnceCounted NullUntilFirstEvent
PROPERTIES NoLostUpdate DecoderKept KeepsVersions TotalsAreKept Announced
CHECK_DEADLOCK FALSE
