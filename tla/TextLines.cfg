SPECIFICATION Spec
CONSTANTS
    Others <- MCOthers
    Width <- MCWidth
    Name <- MCName
    Values <- MCValues
    Limit = 5
    MaxLength = 4
INVARIANTS IInv LinesFit ReadsBack
CHECK_DEADLOCK FALSE
