CONSTANTS
    Retention = 3
    RawRetention = 3
    TimelineDays = 3
    OldestBackfill = 2
    NewestBackfill = 2
    Deployment = 3
    LastDay = 5
    Instants = {"later"}
    MaxVisits = 2
    MaxMissed = 1
    AskedOn = {4}
    Null = Null
    None = None
SPECIFICATION StatSpec
INVARIANTS TypesOK OverviewIsTrue ChartIsTrue
CHECK_DEADLOCK FALSE
