SPECIFICATION ModulesSpec
CONSTANTS
    Sessions = {s1, s2}
    MaxStatements = 6
    MaxLines = 3
    MaxCommands = 5
SYMMETRY MCSymmetry
INVARIANTS RowsConform Serializable  ShellFollowsLexer GetTellsLastWrite InspectedIsReachable
CHECK_DEADLOCK FALSE
