------------------------------- MODULE ShellLine ------------------------------
(***************************************************************************)
(* The command line of the shell (finsh_thread_entry and shell_push_history   *)
(* of finsh/shell.c): one action per character that finsh_getchar returns.   *)
(* Nothing of what is printed is modelled.                                   *)
(***************************************************************************)
EXTENDS Integers, Sequences, FiniteSets

CONSTANTS
    Letters,              \* characters of a command
    Names,                \* names of the commands in the table, sequences of letters
    FINSH_CMD_SIZE,       \* 80 on the board
    FINSH_HISTORY_LINES,  \* 5 on the board
    TabAlways             \* whether completion is also used after a line was discarded

NUL == "nul"
Keys == {"escape", "bracket", "up", "down", "left", "right", NUL, "tab", "backspace", "enter"}

ASSUME LettersAssumption == Keys \cap Letters = {} /\ TabAlways \in BOOLEAN
ASSUME LineSizeAssumption == FINSH_CMD_SIZE \in Nat \ {0} /\ FINSH_HISTORY_LINES \in Nat \ {0}
ASSUME NamesAssumption == \A c \in Names : c \in Seq(Letters) /\ Len(c) < FINSH_CMD_SIZE

VARIABLES
    stat, line, line_position, line_curpos,
    cmd_history, history_count, current_history,
    pressed,     \* history: the key that was handled last
    discarded    \* history: the line still holds what was typed into one that was discarded

shellVars == <<stat, line, line_position, line_curpos, cmd_history, history_count, current_history,
               pressed, discarded>>
lineVars    == <<line, line_position, line_curpos>>
historyVars == <<cmd_history, history_count, current_history>>

Places  == 0 .. FINSH_CMD_SIZE
Columns == 0 .. FINSH_CMD_SIZE - 1
Rows    == 0 .. FINSH_HISTORY_LINES - 1

ShellTypeOK ==
    /\ stat \in {"WAIT_NORMAL", "WAIT_SPEC_KEY", "WAIT_FUNC_KEY"}
    /\ line \in [Places -> Letters \cup {NUL}]
    /\ line_position \in Places /\ line_curpos \in Places
    /\ cmd_history \in [Rows -> [Columns -> Letters \cup {NUL}]]
    /\ history_count \in 0 .. FINSH_HISTORY_LINES
    /\ current_history \in 0 .. FINSH_HISTORY_LINES
    /\ pressed \in Keys \cup Letters
    /\ discarded \in BOOLEAN

NoLine == [i \in Places |-> NUL]
NoRow  == [i \in Columns |-> NUL]

ShellInit ==
    /\ stat = "WAIT_NORMAL"
    /\ line = NoLine /\ line_position = 0 /\ line_curpos = 0
    /\ cmd_history = [r \in Rows |-> NoRow]
    /\ history_count = 0 /\ current_history = 0
    /\ pressed = NUL /\ discarded = FALSE

(* strlen *)
strlen(l) == CHOOSE n \in Places : (\A i \in 0 .. n - 1 : l[i] # NUL)
                                   /\ (n = FINSH_CMD_SIZE \/ l[n] = NUL)

(* The line is l and the cursor behind it. *)
Shows(l) ==
    /\ line' = l
    /\ line_position' = strlen(l)
    /\ line_curpos' = strlen(l)

(* The key k is handled, and with it the state of a sequence ends in s. *)
Handles(k, s) == pressed' = k /\ stat' = s

-----------------------------------------------------------------------------
(* Function keys come as three characters. *)

Escape ==
    /\ Handles("escape", "WAIT_SPEC_KEY")
    /\ UNCHANGED <<lineVars, historyVars, discarded>>

Bracket ==
    /\ stat = "WAIT_SPEC_KEY"
    /\ Handles("bracket", "WAIT_FUNC_KEY")
    /\ UNCHANGED <<lineVars, historyVars, discarded>>

(* A row of the history becomes the line; line[FINSH_CMD_SIZE] is not copied. *)
RecalledRow(r) == [i \in Places |-> IF i < FINSH_CMD_SIZE THEN cmd_history[r][i] ELSE line[i]]

UpKey ==
    /\ stat = "WAIT_FUNC_KEY"
    /\ Handles("up", "WAIT_NORMAL")
    /\ IF current_history > 0
       THEN /\ current_history' = current_history - 1
            /\ Shows(RecalledRow(current_history'))
            /\ discarded' = FALSE
       ELSE UNCHANGED <<current_history, lineVars, discarded>>
    /\ UNCHANGED <<cmd_history, history_count>>

DownKey ==
    /\ stat = "WAIT_FUNC_KEY"
    /\ Handles("down", "WAIT_NORMAL")
    /\ IF current_history >= history_count - 1 /\ history_count = 0
       THEN UNCHANGED <<current_history, lineVars, discarded>>
       ELSE /\ current_history' = IF current_history < history_count - 1
                                  THEN current_history + 1 ELSE history_count - 1
            /\ Shows(RecalledRow(current_history'))
            /\ discarded' = FALSE
    /\ UNCHANGED <<cmd_history, history_count>>

LeftKey ==
    /\ stat = "WAIT_FUNC_KEY"
    /\ Handles("left", "WAIT_NORMAL")
    /\ line_curpos' = IF line_curpos > 0 THEN line_curpos - 1 ELSE line_curpos
    /\ UNCHANGED <<line, line_position, historyVars, discarded>>

RightKey ==
    /\ stat = "WAIT_FUNC_KEY"
    /\ Handles("right", "WAIT_NORMAL")
    /\ line_curpos' = IF line_curpos < line_position THEN line_curpos + 1 ELSE line_curpos
    /\ UNCHANGED <<line, line_position, historyVars, discarded>>

-----------------------------------------------------------------------------
(* Any other character ends a sequence of a function key and is handled as if *)
(* there had been none.                                                      *)

Nul ==
    /\ Handles(NUL, "WAIT_NORMAL")
    /\ UNCHANGED <<lineVars, historyVars, discarded>>

(* The names that begin with what the line holds. *)
Matching == {c \in Names : /\ strlen(line) <= Len(c)
                           /\ \A i \in 0 .. strlen(line) - 1 : c[i + 1] = line[i]}

(* How far all of them agree. *)
CommonLength == CHOOSE n \in Places :
                    /\ \A c, d \in Matching : /\ n <= Len(c)
                                              /\ \A i \in 1 .. n : c[i] = d[i]
                    /\ \E c, d \in Matching : \/ n = Len(c)
                                              \/ n = Len(d)
                                              \/ c[n + 1] # d[n + 1]

(* msh_auto_complete *)
Completed ==
    IF line[0] = NUL \/ Matching = {} THEN line
    ELSE LET name == CHOOSE c \in Matching : TRUE
         IN  [i \in Places |-> IF i < CommonLength THEN name[i + 1] ELSE line[i]]

Tab ==
    /\ Handles("tab", "WAIT_NORMAL")
    /\ Shows(Completed)
    /\ UNCHANGED <<historyVars, discarded>>

(* Mutant: the place behind the line keeps its letter. *)
BackspaceKept ==
    /\ Handles("backspace", "WAIT_NORMAL")
    /\ IF line_curpos = 0 THEN UNCHANGED lineVars
       ELSE /\ line_position' = line_position - 1
            /\ line_curpos' = line_curpos - 1
            /\ line' = [i \in Places |-> IF i >= line_curpos' /\ i < line_position' THEN line[i + 1]
                                         ELSE line[i]]
    /\ UNCHANGED <<historyVars, discarded>>

Backspace ==
    /\ Handles("backspace", "WAIT_NORMAL")
    /\ IF line_curpos = 0 THEN UNCHANGED lineVars
       ELSE /\ line_position' = line_position - 1
            /\ line_curpos' = line_curpos - 1
            /\ line' = [i \in Places |-> IF i = line_position' THEN NUL
                                         ELSE IF i >= line_curpos' /\ i < line_position' THEN line[i + 1]
                                         ELSE line[i]]
    /\ UNCHANGED <<historyVars, discarded>>

(* The line as a row: what was typed, the rest cleared. *)
TypedRow == [i \in Columns |-> IF i < line_position THEN line[i] ELSE NUL]

(* memcmp of the last row with the line, over FINSH_CMD_SIZE characters. *)
SameAsLast == /\ history_count > 0
              /\ \A i \in Columns : cmd_history[history_count - 1][i] = line[i]

(* Mutant: a full history loses its newest line instead of its oldest. *)
PushHistoryOver ==
    IF line_position = 0 \/ SameAsLast THEN UNCHANGED <<cmd_history, history_count>>
    ELSE IF history_count >= FINSH_HISTORY_LINES
    THEN /\ cmd_history' = [cmd_history EXCEPT ![FINSH_HISTORY_LINES - 1] = TypedRow]
         /\ UNCHANGED history_count
    ELSE /\ cmd_history' = [cmd_history EXCEPT ![history_count] = TypedRow]
         /\ history_count' = history_count + 1

(* shell_push_history *)
PushHistory ==
    IF line_position = 0 \/ SameAsLast THEN UNCHANGED <<cmd_history, history_count>>
    ELSE IF history_count >= FINSH_HISTORY_LINES
    THEN /\ cmd_history' = [r \in Rows |-> IF r < FINSH_HISTORY_LINES - 1 THEN cmd_history[r + 1]
                                                                          ELSE TypedRow]
         /\ UNCHANGED history_count
    ELSE /\ cmd_history' = [cmd_history EXCEPT ![history_count] = TypedRow]
         /\ history_count' = history_count + 1

EndOfLine ==
    /\ Handles("enter", "WAIT_NORMAL")
    /\ PushHistory
    /\ current_history' = history_count'
    /\ line' = NoLine /\ line_position' = 0 /\ line_curpos' = 0
    /\ discarded' = FALSE

(* A letter is put at the cursor and the rest of the line moves. When the     *)
(* line has FINSH_CMD_SIZE characters both positions go back to 0; what was   *)
(* typed stays in it.                                                        *)
Letter(key) ==
    LET pos == IF line_position >= FINSH_CMD_SIZE THEN 0 ELSE line_position
        k   == IF line_curpos < pos THEN line_curpos ELSE pos
    IN  /\ Handles(key, "WAIT_NORMAL")
        /\ line' = [i \in Places |-> IF i = k THEN key
                                     ELSE IF i > k /\ i <= pos THEN line[i - 1]
                                     ELSE line[i]]
        /\ line_position' = IF pos + 1 >= FINSH_CMD_SIZE THEN 0 ELSE pos + 1
        /\ line_curpos' = IF pos + 1 >= FINSH_CMD_SIZE THEN 0 ELSE line_curpos + 1
        /\ discarded' = (discarded \/ pos + 1 >= FINSH_CMD_SIZE)
        /\ UNCHANGED historyVars

(* Who types completes nothing between a line that was discarded and the next *)
(* one, unless TabAlways: README.md, section 6, number 12.                    *)
ShellNext ==
    \/ Escape \/ Bracket
    \/ UpKey \/ DownKey \/ LeftKey \/ RightKey
    \/ Nul \/ Backspace \/ EndOfLine
    \/ (TabAlways \/ ~discarded) /\ Tab
    \/ \E key \in Letters : Letter(key)

ShellSpec == ShellInit /\ [][ShellNext]_shellVars

-----------------------------------------------------------------------------
(* Properties *)

(* Whatever keys come, the positions are in the buffer, what is before        *)
(* line_position was typed and a zero ends the buffer; and the line is a C    *)
(* string that ends at line_position, so that strlen, memcmp and the echo see *)
(* what was typed and no more, except behind the position of a line that was  *)
(* discarded ("it's a large line, discard it", shell.c:724, leaves it there). *)
LineIsText ==
    /\ ShellTypeOK
    /\ line_curpos <= line_position /\ line_position < FINSH_CMD_SIZE
    /\ \A i \in Places : i < line_position => line[i] # NUL
    /\ line[FINSH_CMD_SIZE] = NUL
    /\ ~discarded => \A i \in Places : i >= line_position => line[i] = NUL

Text(l, n) == [i \in 1 .. n |-> l[i - 1]]
RowLength(row) == Cardinality({i \in Columns : row[i] # NUL})

(* The line and the history are those of LineEditor: each key does to the     *)
(* text, the cursor and the commands what its action there says and nothing   *)
(* else, whatever moves memmove and memcpy make in shell->line, and the rows   *)
(* of the history are the commands entered last.                             *)
Editor == INSTANCE LineEditor WITH
    Limit <- FINSH_CMD_SIZE,
    Lines <- FINSH_HISTORY_LINES,
    key <- pressed,
    text <- Text(line, line_position),
    cursor <- line_curpos,
    commands <- [r \in 1 .. history_count |->
                    Text(cmd_history[r - 1], RowLength(cmd_history[r - 1]))],
    at <- current_history,
    spoilt <- discarded

EditsText == Editor!Spec

(* shell.c:465 and 484: "if current cmd is same as last cmd, don't push". *)
HistoryDoesNotRepeat ==
    \A r \in 1 .. history_count - 1 : cmd_history[r] # cmd_history[r - 1]
==============================================================================
