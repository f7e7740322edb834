SPECIFICATION FairSpec
CONSTANTS
    None = None
    Requests <- MCRequests
    MaxIdentifier <- MCMaxIdentifier
    Limit = 1
    Deadline = 2
    PipeSize = 1
    MaxWritten = 2
INVARIANT
    AnswerIsPodmans
PROPERTIES
    NotOvertaken
    AlwaysAnswered
    NoChildLeft
