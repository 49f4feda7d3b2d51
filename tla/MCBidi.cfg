CONSTANTS
    Texts <- MCTexts
    MaxDepth = 3
    MaxBracketDepth = 1
    WordBits = 2
SPECIFICATION Spec
INVARIANTS StackDiscipline IsolatesMatch LevelsFollowRules VisualOrder
CHECK_DEADLOCK FALSE
