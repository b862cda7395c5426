\* Two executions, two values and a delay of two ticks: one can become due
\* while the other is updated, forced or not registered yet.
CONSTANTS
    Ids = {e1, e2}
    Values = {x, y}
    Never = Never
    Delay = 2
SPECIFICATION ExecuterFairSpec
INVARIANTS
    ExecuterTypeOK
    DoneIsLatest
    AsleepOnlyIfRaced
PROPERTY
    EverythingRuns
