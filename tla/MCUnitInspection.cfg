SPECIFICATION Spec
CONSTANTS
    None = None
    Target = 0
    Dependencies = {1, 2}
    Services = {1}
    DefaultLimit = 2
    MaxLimit = 2
    MaxScan = 2
    Scenarios <- MCScenarios
    Arrivals <- MCEntries
    MaxFaults = 1
INVARIANTS
    DependenciesJudged
    PartsFailAlone
    NewestTransitions
PROPERTY
    InspectionAnswers
