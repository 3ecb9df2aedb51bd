SPECIFICATION Spec
CONSTANTS
    NoNode = NoNode
    Nodes <- MCNodes
    Program <- MCProgram
    Count = 2
    Backlog = 1
INVARIANTS
    SuccessIsIngested
PROPERTIES
    SessionEnds
CHECK_DEADLOCK FALSE
