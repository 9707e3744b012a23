SPECIFICATION Spec
CONSTANTS
    Width = 4
    Unit = 2
    IntText <- MCIntText
    FloatText <- MCFloatText
    NaNText = {"NaN"}
    BoolText <- MCBoolText
    Text <- MCText
    Matches <- MCMatches
    Asked <- MCExpressionAsked
INVARIANT GroupExpressionsAnswer
CHECK_DEADLOCK FALSE
