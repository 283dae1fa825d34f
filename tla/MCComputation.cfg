\* Analyses of two results, sorts of the tables on the page.
SPECIFICATION Spec
CONSTANTS
    Null = Null
    Nobody = Nobody
    Provider = Provider
    Queries = {1, 2}
    Results <- MCResults
    DebugModes = {TRUE}
    MaxJobs = 3
    MaxRunning = 2
    MaxUnrendered = 1
INVARIANTS
    FramesOutliveTheirUse
    GridFitsTable
PROPERTIES
    AnalysesSettle
CHECK_DEADLOCK FALSE
