SPECIFICATION FairSpec
CONSTANTS
    Words <- MCWords
    Lines <- MCLines
    MAXARGS = 3
    Letters <- MCLetters
    NPROCS = 6
    NPIPES = 2
    PIPE_SIZE = 1
    MaxInputs = 2
INVARIANTS PromptWhenDone InTurn Wired OneReader ShortLinesParsed ParenthesesFirst

CHECK_DEADLOCK FALSE
PROPERTY LineEnds
