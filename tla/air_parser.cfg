CONSTANTS
    Lengths = {8, 20, 24, 25, 32}
    BlockIds = {0, 8}
    Widths = {0, 3, 65}
    RecordBits = {0, 20}
    HugeBits = 60
    LongVbr = 84
    MaxAbbrevs = 2
SPECIFICATION ParserSpec
INVARIANTS
    AbbrevsAreScoped
    InputBoundsTheParser
CHECK_DEADLOCK FALSE
