SPECIFICATION Spec
CONSTANTS
    MonthStart <- MCMonthStart
    FirstWeekday <- MCFirstWeekday
    Shifts <- MCShifts
    Sizes <- MCSizes
    Options <- MCOptions
    Windows <- MCWindows
    Ranges <- MCRanges
    MaxTimers = 1
INVARIANTS
    FrameFits
    TicksAreRight
