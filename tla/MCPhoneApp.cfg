\* A key of each kind and two of them at once, two questions that may come
\* late or together, four timers of the stopwatch: two of an old run with two
\* of a new one.
SPECIFICATION FairSpec
CONSTANTS
    None = None
    Keys = {"repeat", "arrow", "hold", "click", "screen"}
    MaxKeys = 2
    MaxQuestions = 2
    MaxTicks = 4
CHECK_DEADLOCK FALSE
INVARIANTS
    InControl
    DragCanEnd
    ClockGoesOn
PROPERTIES
    LossIsNoticed
