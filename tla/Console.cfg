SPECIFICATION Spec
CONSTANTS
    r1 = r1
    r2 = r2
    r3 = r3
    Rows <- MCRows
    Spare <- MCSpare
    Nobody = Nobody
    NewKey = NewKey
    AllIds = AllIds
    MaxClicks <- MCMaxClicks
    MaxForms = 2
CHECK_DEADLOCK FALSE
INVARIANT
    NothingStale
    NoEmptyPage
    ArticleOfTheAddress
PROPERTIES
    ScreenCatchesUp
    BusyEnds
    DeletesWhatItAsked
    LoginsFreed
    LogsFollowTheKey
