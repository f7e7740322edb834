SPECIFICATION Spec
CONSTANTS
    None = None
    Mistyped = Mistyped
    Bad = Bad
    MaxLimit = 3
    DefaultLimit = 2
    ServiceCalls <- MCServiceCalls
    Services <- MCServices
    MaxFailed = 1
    TimerCalls <- MCTimerCalls
    Timers <- MCTimers
    Nows = {8, 9}
    Second = 2
    Grace = 4
    Soonest = 1
    LogCalls <- MCLogCalls
    MaxTries = 3
    Pages <- MCPages
    Top = 1
    Milli = 2
    Week = 8
    Fields = {"unit", "pid"}
    Redacted = Redacted
    Arguments <- MCArguments
    MaxLength = 4
INVARIANTS
    PageIsFirst
    SummaryIsTrue
    RefusedForCause
    GroupsPartition
    ValuesHidden
