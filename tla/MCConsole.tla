----------------------------- MODULE MCConsole ------------------------------
(* Console for TLC.                                                        *)
EXTENDS Console

CONSTANT MaxKeys     \* bound: keys typed in a behaviour
VARIABLE left        \* how many of them are left

(* A batch starts with a parenthesis and has no spaces; other lines have   *)
(* no separators; one correction is made.                                  *)
Typing ==
  /\ left > 0 /\ left' = left - 1
  /\ \/ Enter
     \/ "Backspace" \notin Range(keys) /\ Backspace
     \/ i = 0 /\ \E c \in Char : Type(c)
     \/ i > 0 /\ buf[1] = "(" /\ \E c \in Char \ {"(", " "} : Type(c)
     \/ i > 0 /\ buf[1] # "(" /\ \E c \in Char \ {"(", ")", ";"} : Type(c)

ConsoleInit == Init /\ left = MaxKeys

ConsoleNext == Typing \/ (Shell /\ UNCHANGED left)

ConsoleSpec == ConsoleInit /\ [][ConsoleNext]_<<vars, left>>
=============================================================================
