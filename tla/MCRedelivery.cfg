SPECIFICATION Spec
CONSTANTS
    s1 = s1  s2 = s2  d1 = d1  None = None
    Schedule = {s1, s2}
    Delivery = {d1}
    MaxRuns = {0, 2, Text}  Text = Text  MaxUnrecorded = 2
    Period = 1
    MaxTime = 2
    MaxCommands = 4
    MaxFaults = 1
    MinutesInHour = 2  HoursInDay = 2  MaxDay = 9
    Month <- ShortMonth  First <- ShortFirst  Weekday <- ShortWeekday
    MonthSkip = 3  MaxSteps = 24
INVARIANT OneSchedulePerDelivery
