\* Texts of up to eleven characters in pieces of every size, replies of six tokens,
\* answers with every kind of field, plans of one step more than is allowed.
CONSTANTS
    MaxLen = 11
    MaxTokens = 6
    MaxSteps = 7
SPECIFICATION CallSpec
CHECK_DEADLOCK FALSE
INVARIANTS PiecesAreWhole InputIsUnderstood
