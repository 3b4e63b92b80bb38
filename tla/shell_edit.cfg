SPECIFICATION ShellSpec
CONSTANTS
    Letters = {"a", "b"}
    Names <- MCNames
    FINSH_CMD_SIZE = 4
    FINSH_HISTORY_LINES = 2
    TabAlways = FALSE
INVARIANT LineIsText
PROPERTY EditsText
