SPECIFICATION MCSpec
CONSTANTS
    Width = 4
    Unit = 2
    IntText <- MCIntText
    FloatText <- MCFloatText
    NaNText = {"NaN"}
    BoolText <- MCBoolText
    Text <- MCText
    Matches <- MCMatches
    Trim <- MCTrim
    Lower <- MCLower
    Batches <- MCBatches
    MaxWrites = 2
    ArrowBatches <- MCArrowBatches
    ArrowOps <- MCOps
INVARIANTS TypeOK ReadsBack JsonReadsByName CsvReadsByPlace ArrowAgrees
CHECK_DEADLOCK FALSE
