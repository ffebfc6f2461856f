------------------------------ MODULE Console -------------------------------
(***************************************************************************)
(* From the keyboard to a request: term_read() edits a line for the shell  *)
(* (library/syscall/servers.c), which splits it into commands and each     *)
(* command into arguments (apps/system/sys_shell.c).                       *)
(***************************************************************************)
EXTENDS Integers, Sequences, SequencesExt

CONSTANTS
  Char,             \* what can be typed, among them " ", ";", "(" and ")"
  TERM_BUF_SIZE,
  MAX_CMDS,         \* commands in one line: 10
  CMD_NARGS,
  CMD_ARG_LEN

ASSUME ConsoleAssumption ==
  /\ {" ", ";", "(", ")"} \subseteq Char /\ "NUL" \notin Char
  /\ TERM_BUF_SIZE > 1 /\ MAX_CMDS > 0 /\ CMD_NARGS > 0 /\ CMD_ARG_LEN > 1

Key == Char \cup {"Enter", "Backspace"}
Prompt == "%"

VARIABLES
  pc,               \* "edit" in term_read(), "read" after it, "parse", "request"
  buf, i,           \* term_read(): the buffer and where the next key goes
  screen,           \* what the line of the prompt shows
  keys,             \* what has been typed at this prompt
  line,             \* the string that term_read() has left in buf
  cmds, cmd_idx, max_idx,   \* parse_batch_cmds(); cmds[MAX_CMDS + 1] is the
                    \* memory behind the table
  req,              \* the last request
  ran               \* the commands taken from this line

vars == <<pc, buf, i, screen, keys, line, cmds, cmd_idx, max_idx, req, ran>>

editing == <<buf, i, screen, keys>>
batch == <<cmds, cmd_idx, max_idx>>

-----------------------------------------------------------------------------
(* term_read(), one key at a time                                          *)

Before(c) == SubSeq(c, 1, Len(c) - 1)

(* The string that parse_batch_cmds() finds at buf.                        *)
Str(b) == IF "NUL" \in Range(b) THEN SubSeq(b, 1, SelectInSeq(b, LAMBDA c : c = "NUL") - 1) ELSE b

Store(c) == buf' = [buf EXCEPT ![i + 1] = c]

(* buf[i] = 0, and the reply counts it unless the line is empty.           *)
Enter ==
  /\ pc = "edit"
  /\ Store("NUL")
  /\ keys' = Append(keys, "Enter")
  /\ pc' = "read"
  /\ UNCHANGED <<i, screen, line, batch, req, ran>>

(* Mutant: a backspace at the start of the line erases the prompt.         *)
Backspace_always ==
  /\ pc = "edit"
  /\ Store("Backspace")
  /\ screen' = Before(screen)
  /\ i' = IF i > 0 THEN i - 1 ELSE 0
  /\ keys' = Append(keys, "Backspace")
  /\ UNCHANGED <<pc, line, batch, req, ran>>

(* Mutant: the loop's own increment is forgotten.                          *)
Backspace_stays ==
  /\ pc = "edit"
  /\ Store("Backspace")
  /\ screen' = IF i > 0 THEN Before(screen) ELSE screen
  /\ i' = i
  /\ keys' = Append(keys, "Backspace")
  /\ UNCHANGED <<pc, line, batch, req, ran>>

(* The loop adds one to what the case leaves in i.                         *)
Backspace ==
  /\ pc = "edit"
  /\ Store("Backspace")
  /\ screen' = IF i > 0 THEN Before(screen) ELSE screen
  /\ i' = (IF i > 0 THEN i - 2 ELSE i - 1) + 1
  /\ keys' = Append(keys, "Backspace")
  /\ UNCHANGED <<pc, line, batch, req, ran>>

(* Mutant: the last byte of the buffer is used for a character.            *)
Type_overrun(c) ==
  /\ pc = "edit"
  /\ screen' = Append(screen, c)
  /\ keys' = Append(keys, c)
  /\ i' = i + 1
  /\ IF i + 1 < TERM_BUF_SIZE
     THEN Store(c) /\ pc' = "edit"
     ELSE buf' = [buf EXCEPT ![i + 1] = "NUL"] /\ pc' = "read"
  /\ UNCHANGED <<line, batch, req, ran>>

(* Any other key; the line ends when the buffer is full.                   *)
Type(c) ==
  /\ pc = "edit"
  /\ screen' = Append(screen, c)
  /\ keys' = Append(keys, c)
  /\ i' = i + 1
  /\ IF i + 1 < TERM_BUF_SIZE - 1
     THEN Store(c) /\ pc' = "edit"
     ELSE buf' = [buf EXCEPT ![i + 1] = c, ![TERM_BUF_SIZE] = "NUL"] /\ pc' = "read"
  /\ UNCHANGED <<line, batch, req, ran>>

NewPrompt ==
  /\ pc' = "edit" /\ i' = 0
  /\ screen' = <<Prompt>>
  /\ keys' = <<>>

(* term_read() returns to the shell, which prompts again for an empty line.*)
Reply ==
  /\ pc = "read"
  /\ IF i = 0
     THEN NewPrompt /\ UNCHANGED <<buf, line, ran>>
     ELSE line' = Str(buf) /\ ran' = <<>> /\ pc' = "parse" /\ UNCHANGED editing
  /\ UNCHANGED <<batch, req>>

-----------------------------------------------------------------------------
(* parse_batch_cmds()                                                      *)

IsBatch == line[1] = "(" /\ line[Len(line)] = ")"

RECURSIVE Strtok(_, _)

(* strtok(): the pieces between separators, of which none is empty.        *)
Strtok(s, sep) ==
  LET t == SelectInSeq(s, LAMBDA c : c = sep)
  IN  IF s = <<>> THEN <<>>
      ELSE IF t = 0 THEN <<s>>
      ELSE IF t = 1 THEN Strtok(Tail(s), sep)
      ELSE <<SubSeq(s, 1, t - 1)>> \o Strtok(SubSeq(s, t + 1, Len(s)), sep)

Pieces == Strtok(SubSeq(line, 2, Len(line) - 1), ";")

(* The table of commands after a call with a new line.                     *)
Loaded == IF IsBatch THEN Pieces ELSE <<line>>

(* The table keeps the commands of earlier lines behind those of this one. *)
Table(new) == [k \in 1..(MAX_CMDS + 1) |-> IF k <= Len(new) THEN new[k] ELSE cmds[k]]

(* The first call for a line rejects it; the shell prompts again.  The     *)
(* number is tested after the copy, so one command too many is copied, to  *)
(* the memory behind the table.  The two indices do not lie there: they    *)
(* are initialised data, which app.lds puts in front of the table.         *)
TooMany ==
  /\ pc = "parse" /\ cmd_idx = -1
  /\ Len(Loaded) > MAX_CMDS
  /\ cmds' = Table(SubSeq(Loaded, 1, MAX_CMDS + 1))
  /\ NewPrompt
  /\ UNCHANGED <<buf, line, cmd_idx, max_idx, req, ran>>

(* Mutant: the last command of the line before is run again.               *)
Load_keepsMax ==
  /\ pc = "parse" /\ cmd_idx = -1
  /\ Len(Loaded) <= MAX_CMDS
  /\ cmds' = Table(Loaded)
  /\ cmd_idx' = 0
  /\ max_idx' = IF Len(Loaded) - 1 > max_idx THEN Len(Loaded) ELSE max_idx
  /\ UNCHANGED <<pc, editing, line, req, ran>>

Load ==
  /\ pc = "parse" /\ cmd_idx = -1
  /\ Len(Loaded) <= MAX_CMDS
  /\ cmds' = Table(Loaded)
  /\ cmd_idx' = 0 /\ max_idx' = Len(Loaded) - 1
  /\ UNCHANGED <<pc, editing, line, req, ran>>

(* More commands to go: the shell gets the next one.                       *)
NextCmd ==
  /\ pc = "parse" /\ cmd_idx \in 0..max_idx
  /\ cmd_idx' = cmd_idx + 1
  /\ ran' = Append(ran, cmds[cmd_idx + 1])
  /\ pc' = "request"
  /\ UNCHANGED <<editing, line, cmds, max_idx, req>>

(* Finishing the batch: the next call starts with a new line.              *)
BatchDone ==
  /\ pc = "parse" /\ cmd_idx > max_idx
  /\ cmd_idx' = -1 /\ max_idx' = -1
  /\ NewPrompt
  /\ UNCHANGED <<buf, line, cmds, req, ran>>

-----------------------------------------------------------------------------
(* parse_request()                                                         *)

Command == ran[Len(ran)]

NoArgs == [argv |-> <<>>, word |-> <<>>, error |-> FALSE]

(* Mutant: no room for the end of the longest word.                        *)
Arg_noLimit(a, c) ==
  CASE a.error -> a
    [] ~a.error /\ c # " " ->
         [a EXCEPT !.word = Append(@, c), !.error = Len(a.word) + 1 > CMD_ARG_LEN]
    [] ~a.error /\ c = " " /\ a.word = <<>> -> a
    [] ~a.error /\ c = " " /\ a.word # <<>> ->
         [argv |-> Append(a.argv, a.word), word |-> <<>>,
          error |-> Len(a.argv) + 1 >= CMD_NARGS]

(* One character of the command.                                           *)
Arg(a, c) ==
  CASE a.error -> a
    [] ~a.error /\ c # " " ->
         [a EXCEPT !.word = Append(@, c), !.error = Len(a.word) + 1 >= CMD_ARG_LEN]
    [] ~a.error /\ c = " " /\ a.word = <<>> -> a
    [] ~a.error /\ c = " " /\ a.word # <<>> ->
         [argv |-> Append(a.argv, a.word), word |-> <<>>,
          error |-> Len(a.argv) + 1 >= CMD_NARGS]

parse_request(s) ==
  LET a == FoldLeft(Arg, NoArgs, s)
  IN  [error |-> a.error,
       argv |-> IF a.word = <<>> THEN a.argv ELSE Append(a.argv, a.word)]

(* The request is built, sent and answered, or rejected.  The commands the *)
(* shell runs itself (killall, pwd) are not split into words.              *)
Request ==
  /\ pc = "request"
  /\ req' = parse_request(Command)
  /\ pc' = "parse"
  /\ UNCHANGED <<editing, line, batch, ran>>

-----------------------------------------------------------------------------
(* The shell starts with "cd" in its buffer.                               *)
Init ==
  /\ pc = "parse"
  /\ buf = [k \in 1..TERM_BUF_SIZE |-> "NUL"] /\ i = 0
  /\ screen = <<>> /\ keys = <<>>
  /\ line = <<"cd">>
  /\ cmds = [k \in 1..(MAX_CMDS + 1) |-> <<>>]
  /\ cmd_idx = -1 /\ max_idx = -1
  /\ req = parse_request(<<>>) /\ ran = <<>>

Terminal == Enter \/ Backspace \/ \E c \in Char : Type(c)

Shell == Reply \/ TooMany \/ Load \/ NextCmd \/ BatchDone \/ Request

Next == Terminal \/ Shell

Spec == Init /\ [][Next]_vars
-----------------------------------------------------------------------------
(* Type correctness.  The key that comes next has room in the buffer, and  *)
(* no command is taken from behind the table, where TooMany writes.        *)
TypeOK ==
  /\ pc \in {"edit", "read", "parse", "request"}
  /\ Len(buf) = TERM_BUF_SIZE /\ Range(buf) \subseteq Key \cup {"NUL"}
  /\ i \in 0..(TERM_BUF_SIZE - 1)
  /\ max_idx \in -1..(MAX_CMDS - 1) /\ cmd_idx \in -1..(max_idx + 1)
  /\ Len(cmds) = MAX_CMDS + 1

(* What a user expects of the keys that have been typed.                   *)
Edited(ks) ==
  FoldLeft(LAMBDA s, k : CASE k = "Backspace" -> IF s = <<>> THEN s ELSE Before(s)
                           [] k = "Enter" -> s
                           [] OTHER -> Append(s, k),
           <<>>, ks)

(* The line the shell gets is the keys that term_read() has got from the   *)
(* terminal, corrections made, also when the buffer is full.               *)
LineIsWhatWasTyped == pc = "read" => Str(buf) = Edited(keys)

(* The terminal shows the prompt and that line, however it was typed.      *)
ScreenShowsTheLine == pc \in {"edit", "read"} => screen = <<Prompt>> \o Edited(keys)

(* The longest pieces of s without the separator, from left to right.      *)
Split(s, sep) ==
  LET runs == {r \in (DOMAIN s) \X (DOMAIN s) :
                 /\ r[1] <= r[2] /\ \A k \in r[1]..r[2] : s[k] # sep
                 /\ r[1] > 1 => s[r[1] - 1] = sep
                 /\ r[2] < Len(s) => s[r[2] + 1] = sep}
      sorted == SetToSortSeq(runs, LAMBDA r, t : r[1] < t[1])
  IN  [k \in DOMAIN sorted |-> SubSeq(s, sorted[k][1], sorted[k][2])]

Commands ==
  LET inner == Split(SubSeq(line, 2, Len(line) - 1), ";")
  IN  IF ~IsBatch THEN <<line>> ELSE IF Len(inner) > MAX_CMDS THEN <<>> ELSE inner

(* The commands of a line are run in order, each of them once, whatever    *)
(* the lines before have left in the table or behind it, and all of them   *)
(* before the shell prompts again.                                         *)
RunsWhatWasTyped == IsPrefix(ran, Commands) /\ (pc = "edit" => ran = Commands)

(* A request has the words of its command as arguments.  It is rejected    *)
(* when a word or their number exceeds the arrays, and otherwise only when *)
(* CMD_NARGS words are followed by a blank: these would fit, although the  *)
(* shell says "too many arguments or argument too long".                   *)
ArgumentsAreWords ==
  pc = "parse" /\ ran # <<>> =>
    LET words == Split(Command, " ")
        exceed == Len(words) > CMD_NARGS \/ \E k \in DOMAIN words : Len(words[k]) >= CMD_ARG_LEN
        fullAndBlank == Len(words) = CMD_NARGS /\ Command[Len(Command)] = " "
    IN  /\ exceed => req.error
        /\ req.error => exceed \/ fullAndBlank
        /\ ~req.error => req.argv = words
=============================================================================
