\* Every column: each of its four executors absent, without a name or with one,
\* and with or without a key in the first and the last row.
CONSTANT
    KeyRows = {1, 4}
SPECIFICATION ColumnSpec
INVARIANTS
    ColumnTypeOK
    StopsOnlyWhen
    LightsTellRows
    TextNamesDial
\* An abort ends the process.
CHECK_DEADLOCK FALSE
