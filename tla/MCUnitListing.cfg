SPECIFICATION Spec
CONSTANTS
    None = None
    Matching = {1, 3}
    Others = {2}
    Props <- MCProps
    Queries <- MCQueries
    MaxChanges = 1
    MaxFaults = 2
INVARIANTS
    AnswerIsTheListing
    DetailsWereTrue
    FailuresStayLocal
PROPERTIES
    ListingAnswers
