------------------------------ MODULE LineEditor ------------------------------
(***************************************************************************)
(* What a command line promises to the one who types: a text with a cursor,   *)
(* the commands that were entered last, and what each key does to them.      *)
(***************************************************************************)
EXTENDS Integers, Sequences

CONSTANTS
    Letters,
    Names,       \* names of commands, which a key completes
    Limit,       \* a text of this length is thrown away
    Lines        \* how many commands are remembered

VARIABLES
    key,         \* the key pressed last
    text, cursor,
    commands,
    at,          \* the place in commands, from 0, that was shown last, or their number
    spoilt       \* whether a text was thrown away and no other began with enter or a recall

vars == <<key, text, cursor, commands, at, spoilt>>

Init ==
    /\ text = <<>> /\ cursor = 0 /\ commands = <<>>
    /\ at = 0 /\ spoilt = FALSE
    /\ key \notin Letters

Before == SubSeq(text, 1, cursor)
After  == SubSeq(text, cursor + 1, Len(text))

Type(c) ==
    /\ key' = c
    /\ IF Len(text) + 1 < Limit
       THEN text' = Before \o <<c>> \o After /\ cursor' = cursor + 1 /\ UNCHANGED spoilt
       ELSE text' = <<>> /\ cursor' = 0 /\ spoilt' = TRUE
    /\ UNCHANGED <<commands, at>>

Erase ==
    /\ key' = "backspace"
    /\ IF cursor > 0
       THEN text' = SubSeq(text, 1, cursor - 1) \o After /\ cursor' = cursor - 1
       ELSE UNCHANGED <<text, cursor>>
    /\ UNCHANGED <<commands, at, spoilt>>

MoveLeft ==
    /\ key' = "left"
    /\ cursor' = IF cursor > 0 THEN cursor - 1 ELSE cursor
    /\ UNCHANGED <<text, commands, at, spoilt>>

MoveRight ==
    /\ key' = "right"
    /\ cursor' = IF cursor < Len(text) THEN cursor + 1 ELSE cursor
    /\ UNCHANGED <<text, commands, at, spoilt>>

(* The command at place n replaces the text. *)
Recall(n) ==
    /\ at' = n
    /\ text' = commands[n + 1]
    /\ cursor' = Len(text')
    /\ spoilt' = FALSE
    /\ UNCHANGED commands

(* The command before the one shown last, down to the oldest ... *)
Up ==
    /\ key' = "up"
    /\ \/ at > 0 /\ Recall(at - 1)
       \/ at = 0 /\ UNCHANGED <<text, cursor, commands, at, spoilt>>

(* ... and the one after it, up to the newest. *)
Down ==
    /\ key' = "down"
    /\ \/ at + 1 < Len(commands) /\ Recall(at + 1)
       \/ at + 1 >= Len(commands) /\ commands # <<>> /\ Recall(Len(commands) - 1)
       \/ commands = <<>> /\ UNCHANGED <<text, cursor, commands, at, spoilt>>

IsPrefix(s, t) == Len(s) <= Len(t) /\ SubSeq(t, 1, Len(s)) = s

(* A text is completed as far as a command goes, or stays; the cursor goes to *)
(* its end.                                                                  *)
Complete ==
    /\ key' = "tab"
    /\ ~spoilt
    /\ \/ UNCHANGED text
       \/ \E c \in Names : \E n \in Len(text) .. Len(c) :
              IsPrefix(text, c) /\ text' = SubSeq(c, 1, n)
    /\ cursor' = Len(text')
    /\ UNCHANGED <<commands, at, spoilt>>

Last(list, n) == SubSeq(list, IF Len(list) > n THEN Len(list) - n + 1 ELSE 1, Len(list))

(* A command is remembered unless it was entered last; after a text that was  *)
(* thrown away it is remembered anyway.                                      *)
Enter ==
    /\ key' = "enter"
    /\ commands' = IF text # <<>> /\ (spoilt \/ Last(commands, 1) # <<text>>)
                   THEN Last(Append(commands, text), Lines) ELSE commands
    /\ at' = Len(commands')
    /\ text' = <<>> /\ cursor' = 0 /\ spoilt' = FALSE

(* No other key does anything. *)
Ignore ==
    /\ key' \notin Letters \cup {"backspace", "left", "right", "up", "down", "tab", "enter"}
    /\ UNCHANGED <<text, cursor, commands, at, spoilt>>

Next ==
    \/ \E c \in Letters : Type(c)
    \/ Erase \/ MoveLeft \/ MoveRight \/ Up \/ Down \/ Complete \/ Enter \/ Ignore

Spec == Init /\ [][Next]_vars
==============================================================================
