SPECIFICATION Spec
CONSTANTS
    Day = 4
    DefaultTag = "automation-allowed"
    MaxMetadata = 3
    Metrics = {"m1", "m2", "up", "load", "mode"}
    Mappings <- MCMappings
    Lease = 1
    DefaultLimit = 2
    MaxLimit = 2
    WindowCases <- MCWindows
    ResponseCases <- MCResponses
    ChainCases <- MCChains
    EnrichCases <- MCEnrich
    MaxEvents = 2
    MaxObservations = 1
    MaxHTTPCalls = 1
    EventCases <- MCEvents
    InvokeCases <- MCInvoke
    PollCases <- MCPolls
    StoreCases <- MCStore
    StoreTimes <- MCTimes
    PageCases <- MCPages
INVARIANTS
    WindowIsItsOccurrences
    ChangedOnlyThroughGates
    ReportMatchesDevice
    ScriptsAreContained
    RedeliveryLeavesOneTrace
    CycleIsCompleteOrFailed
    MemImplementsDatabase
    PagesAreTheList
