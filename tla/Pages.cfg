SPECIFICATION Spec
CONSTANTS
    MaxRows = 2
    ListLimit = 2
    CriticalRows = {2}
    TimeOf <- MCTimeOf
    PolledPages = {"ai", "scoring", "honeypot", "shap"}
    Loops = {1, 2}
    Filters = {"all", "errors"}
    MaxInFlight = 2
    Empties <- MCEmpties
    CardLimit = 2
    Statuses = {"Ignored"}
    Matching <- MCMatching
    PageSizes = {1, 2}
INVARIANTS
    MarkedWasActedOn
    PageHasRows
PROPERTIES
    PagesCatchUp
    PollsEnd
    LogsMatchFilter
