----------------------------- MODULE LineEditor -----------------------------
(***************************************************************************)
(* The shell's line editor (kernel/shell.c): the bytes of fd 0 become a    *)
(* line, a cursor and a history, and the terminal is kept in step by       *)
(* printing characters, blanks and backspaces only.                        *)
(*                                                                         *)
(* A byte is a token.  The terminal is the row after the prompt: its cells *)
(* and its cursor.  A line is the text before the buffer's NUL, so len is  *)
(* Len(line).                                                              *)
(***************************************************************************)
EXTENDS Integers, Sequences, SequencesExt

CONSTANTS
  CMD_MAX_LEN,      \* a line holds one less
  CMD_BUFFER_SIZE,  \* lines of history
  FIFO_SIZE,        \* the input ring holds one less
  Typed,            \* printable bytes typed outside an escape sequence
  Ahead,            \* bytes typed while a command runs
  Commands,         \* the registry, in order: a sequence of names
  Entries,          \* the listing paths complete from: [name, dir] in order
  NAME_SHOWN        \* the longest name a listing shows whole

EditorBounds == CMD_MAX_LEN > 1 /\ CMD_BUFFER_SIZE > 0 /\ FIFO_SIZE > 1

VARIABLES
  line, pos,             \* the text and the cursor in it
  hist, hist_head, hist_count, hist_pos,
  esc, esc_num, prev_cr, \* the byte decoder (esc_num counts while esc = 3)
  input,                 \* in_buf between in_tail and in_head
  row, col,              \* the terminal: cells after the prompt, and its cursor
  mode,                  \* "edit", or "run" while shell_exec has the line
  past                   \* GHOST: lines submitted, newest first

vars == <<line, pos, hist, hist_head, hist_count, hist_pos, esc, esc_num,
          prev_cr, input, row, col, mode, past>>

Room == CMD_MAX_LEN - 1
UpTo(s, n) == SubSeq(s, 1, IF Len(s) > n THEN n ELSE Len(s))
Keys == {"ESC", "CR", "LF", "^C", "^L", "TAB", "BS"}
Letters == {"[", "~", "A", "B", "C", "D", "H", "F", "1", "3", "4", "9"}

-----------------------------------------------------------------------------
(* The terminal. A screen is [row, col]; a character overwrites a cell.     *)

Cells == 2 * CMD_MAX_LEN
Blank == [i \in 1..Cells |-> " "]

\* A fresh row with the prompt on it.
sh_prompt == [row |-> Blank, col |-> 0]

sh_putc(s, c) == [row |-> [s.row EXCEPT ![s.col + 1] = c], col |-> s.col + 1]

sh_left(s, n) == [s EXCEPT !.col = @ - n]

Puts(s, text) == FoldLeft(sh_putc, s, text)

Blanks(n) == [i \in 1..n |-> " "]

sh_tail(s, text, p, gone) ==
  LET rest == SubSeq(text, p + 1, Len(text)) \o Blanks(gone)
  IN  sh_left(Puts(s, rest), Len(rest))

Screen == [row |-> row, col |-> col]
Shown(s) == row' = s.row /\ col' = s.col

\* line_replace: the screen after text takes the line's place.
Replaced(text) ==
  LET gone == IF Len(line) > Len(text) THEN Len(line) - Len(text) ELSE 0
      s == Puts(sh_left(Screen, pos), text \o Blanks(gone))
  IN  sh_left(s, gone)

line_replace(text) ==
  /\ line' = text /\ pos' = Len(text)
  /\ Shown(Replaced(text))

\* ^L: a new prompt with the line so far, the cursor where it was.
Redrawn(text, p) == sh_left(Puts(sh_prompt, text), Len(text) - p)

-----------------------------------------------------------------------------
(* History: a ring of lines, the newest before hist_head.                   *)

\* MUTANT: the newest line is looked for at the head itself.
hist_at_Head(back) == hist[(hist_head - back + 2 * CMD_BUFFER_SIZE) % CMD_BUFFER_SIZE]

hist_at(back) == hist[(hist_head - 1 - back + 2 * CMD_BUFFER_SIZE) % CMD_BUFFER_SIZE]

Repeats(text) == hist_count > 0 /\ hist_at(0) = text

hist_push(text) ==
  IF Repeats(text) THEN UNCHANGED <<hist, hist_head, hist_count>>
  ELSE /\ hist' = [hist EXCEPT ![hist_head] = text]
       /\ hist_head' = (hist_head + 1) % CMD_BUFFER_SIZE
       /\ hist_count' = IF hist_count < CMD_BUFFER_SIZE THEN hist_count + 1 ELSE hist_count

Remember(text) ==
  past' = IF past # <<>> /\ Head(past) = text THEN past
          ELSE UpTo(<<text>> \o past, CMD_BUFFER_SIZE)

-----------------------------------------------------------------------------
(* Completion.                                                              *)

lc(c) == CASE c = "X" -> "x" [] c = "Y" -> "y" [] OTHER -> c

Same(nocase, a, b) == IF nocase THEN lc(a) = lc(b) ELSE a = b

Matches(name, word, nocase) ==
  /\ Len(word) <= Len(name)
  /\ \A i \in 1..Len(word) : Same(nocase, name[i], word[i])

\* How much `name` shares with the first `most` characters of `first`.
Agrees(name, first, most, nocase) ==
  LET Ok == {n \in 0..most : n <= Len(name) /\
                \A i \in 1..n : Same(nocase, name[i], first[i])}
  IN  CHOOSE n \in Ok : \A m \in Ok : m <= n

\* MUTANT: the common part is what the last match shares with the first.
Common_Last(names, nocase) == Agrees(Last(names), names[1], Len(names[1]), nocase)

\* comp_offer over every match in order: the length all of them share.
Common(names, nocase) ==
  FoldLeft(LAMBDA n, name : Agrees(name, names[1], n, nocase), Len(names[1]), names)

WordStart ==
  LET Sp == {i \in 1..Len(line) : line[i] = " "}
  IN  IF Sp = {} THEN 0 ELSE CHOOSE i \in Sp : \A j \in Sp : j <= i

FirstWord == \A i \in 1..WordStart : line[i] = " "
Word == SubSeq(line, WordStart + 1, Len(line))

Offers(word) ==
  IF FirstWord
  THEN SelectSeq([i \in DOMAIN Commands |-> [name |-> Commands[i], dir |-> FALSE]],
                 LAMBDA e : Matches(e.name, word, FALSE))
  ELSE SelectSeq(Entries, LAMBDA e : Matches(e.name, word, TRUE))

\* sh_insert: at the end of the line, as far as there is room.
Inserted(text) == UpTo(line \o text, Room)

\* What one match ends with: nothing when its name may have been cut.
Ending(e) ==
  IF ~FirstWord /\ Len(e.name) = NAME_SHOWN THEN <<>>
  ELSE IF e.dir THEN <<"/">> ELSE <<" ">>

Moves(names) == Common(names, ~FirstWord) > Len(Word)

Filled(offers) ==
  LET names == [i \in DOMAIN offers |-> offers[i].name]
      fill == SubSeq(names[1], Len(Word) + 1, Common(names, ~FirstWord))
  IN  IF Len(offers) = 1 THEN fill \o Ending(offers[1]) ELSE fill

sh_complete ==
  LET offers == Offers(Word)
      new == Inserted(Filled(offers))
  IN  IF pos # Len(line) \/ offers = <<>> THEN UNCHANGED <<line, pos, row, col>>
      ELSE /\ line' = new /\ pos' = Len(new)
           /\ IF Len(offers) = 1 \/ Moves([i \in DOMAIN offers |-> offers[i].name])
              THEN Shown(Puts(Screen, SubSeq(new, Len(line) + 1, Len(new))))
              ELSE Shown(Redrawn(line, Len(line)))

-----------------------------------------------------------------------------
(* One byte through shell_poll, after the decoder has classified it.        *)

Kept == UNCHANGED <<hist, hist_head, hist_count, past, mode>>
Quiet == Kept /\ UNCHANGED <<line, pos, hist_pos, row, col>>

Without(i) == SubSeq(line, 1, i - 1) \o SubSeq(line, i + 1, Len(line))

\* The key of ESC [ 3 ~.
Delete ==
  /\ Kept /\ UNCHANGED <<pos, hist_pos>>
  /\ IF pos < Len(line)
     THEN /\ line' = Without(pos + 1)
          /\ Shown(sh_tail(Screen, line', pos, 1))
     ELSE UNCHANGED <<line, row, col>>

Backspace ==
  /\ Kept /\ UNCHANGED hist_pos
  /\ IF pos > 0
     THEN /\ line' = Without(pos) /\ pos' = pos - 1
          /\ Shown(sh_tail(sh_left(Screen, 1), line', pos - 1, 1))
     ELSE UNCHANGED <<line, pos, row, col>>

\* MUTANT: a key goes in at the cursor and the tail is not printed again.
Insert_NoTail(c) ==
  /\ Kept /\ UNCHANGED hist_pos
  /\ IF Len(line) < Room
     THEN /\ line' = SubSeq(line, 1, pos) \o <<c>> \o SubSeq(line, pos + 1, Len(line))
          /\ pos' = pos + 1
          /\ Shown(sh_putc(Screen, c))
     ELSE UNCHANGED <<line, pos, row, col>>

Insert(c) ==
  /\ Kept /\ UNCHANGED hist_pos
  /\ IF Len(line) < Room
     THEN /\ line' = SubSeq(line, 1, pos) \o <<c>> \o SubSeq(line, pos + 1, Len(line))
          /\ pos' = pos + 1
          /\ Shown(sh_tail(sh_putc(Screen, c), line', pos + 1, 0))
     ELSE UNCHANGED <<line, pos, row, col>>

\* The letter that ends ESC [.
Arrow(c) ==
  /\ Kept
  /\ \/ c = "D" /\ pos > 0 /\ pos' = pos - 1 /\ Shown(sh_left(Screen, 1))
        /\ UNCHANGED <<line, hist_pos>>
     \/ c = "C" /\ pos < Len(line) /\ pos' = pos + 1
        /\ Shown(sh_putc(Screen, line[pos + 1])) /\ UNCHANGED <<line, hist_pos>>
     \/ c = "H" /\ pos' = 0 /\ Shown(sh_left(Screen, pos)) /\ UNCHANGED <<line, hist_pos>>
     \/ c = "F" /\ pos' = Len(line) /\ UNCHANGED <<line, hist_pos>>
        /\ Shown(Puts(Screen, SubSeq(line, pos + 1, Len(line))))
     \/ c = "A" /\ hist_pos + 1 < hist_count
        /\ hist_pos' = hist_pos + 1 /\ line_replace(hist_at(hist_pos + 1))
     \/ c = "B" /\ hist_pos > 0
        /\ hist_pos' = hist_pos - 1 /\ line_replace(hist_at(hist_pos - 1))
     \/ c = "B" /\ hist_pos = 0 /\ hist_pos' = -1 /\ line_replace(<<>>)
     \/ /\ \/ c \notin {"A", "B", "C", "D", "H", "F"}
           \/ c = "D" /\ pos = 0
           \/ c = "C" /\ pos = Len(line)
           \/ c = "A" /\ hist_pos + 1 >= hist_count
           \/ c = "B" /\ hist_pos = -1
        /\ UNCHANGED <<line, pos, hist_pos, row, col>>

\* ^C.
Abandon ==
  /\ line' = <<>> /\ pos' = 0 /\ hist_pos' = -1
  /\ Shown(sh_prompt) /\ Kept

\* CR or LF: an empty line only prompts again; any other is handed to
\* shell_exec, and shell_poll returns.
Submit ==
  /\ hist_pos' = -1 /\ line' = <<>> /\ pos' = 0
  /\ Shown(sh_prompt)
  /\ IF line = <<>> THEN UNCHANGED <<hist, hist_head, hist_count, past, mode>>
     ELSE hist_push(line) /\ Remember(line) /\ mode' = "run"

Redraw == Kept /\ UNCHANGED <<line, pos, hist_pos>> /\ Shown(Redrawn(line, pos))

Tab == Kept /\ UNCHANGED hist_pos /\ sh_complete

\* What the byte does once it is known not to be part of a key.
Plain(c) ==
  \/ c = "^C" /\ Abandon
  \/ c = "TAB" /\ Tab
  \/ c = "^L" /\ Redraw
  \/ c = "BS" /\ Backspace
  \/ c \in {"CR", "LF"} /\ Submit
  \/ c \notin Keys /\ Insert(c)

Named == [d \in {"1", "4"} |-> IF d = "1" THEN "H" ELSE "F"]

\* The LF of a CRLF pair.
PairLF(c) == c = "LF" /\ prev_cr

Byte(c) ==
  /\ prev_cr' = (c = "CR")
  /\ \/ PairLF(c) /\ Quiet /\ UNCHANGED <<esc, esc_num>>
     \/ ~PairLF(c) /\ esc = 1 /\ Quiet /\ UNCHANGED esc_num
        /\ esc' = IF c = "[" THEN 2 ELSE 0
     \/ ~PairLF(c) /\ esc = 3 /\ esc' = 0 /\ esc_num' = "1"
        /\ \/ c = "~" /\ esc_num = "3" /\ Delete
           \/ c = "~" /\ esc_num \in DOMAIN Named /\ Arrow(Named[esc_num])
           \/ (c # "~" \/ esc_num = "9") /\ Quiet
     \/ ~PairLF(c) /\ esc = 2
        /\ IF c \in {"1", "3", "4", "9"}
           THEN esc' = 3 /\ esc_num' = c /\ Quiet
           ELSE esc' = 0 /\ UNCHANGED esc_num /\ Arrow(c)
     \/ ~PairLF(c) /\ esc = 0 /\ UNCHANGED esc_num
        /\ IF c = "ESC" THEN esc' = 1 /\ Quiet ELSE esc' = 0 /\ Plain(c)

-----------------------------------------------------------------------------
(* The shell task.                                                          *)

\* The bytes that the decoder tells apart where it is.
Told ==
  CASE esc = 0 -> Keys \cup Typed
    [] esc = 1 -> {"[", "LF"}
    [] esc = 2 -> Letters \cup {"LF"}
    [] esc = 3 -> {"~", "LF"}

\* shell_poll takes a byte the console has (nothing waits in the ring).
Key ==
  \E c \in Told :
    /\ mode = "edit" /\ input = <<>>
    /\ Byte(c) /\ UNCHANGED input

\* in_pop: a byte typed while the command ran.
Backlog ==
  /\ mode = "edit" /\ input # <<>>
  /\ input' = Tail(input) /\ Byte(Head(input))

\* shell_interrupted, called by a running command: bytes join the ring while
\* it has room; a ^C empties it.
TypeAhead ==
  /\ mode = "run"
  /\ \E c \in Ahead :
       input' = IF c = "^C" THEN <<>>
                ELSE IF Len(input) < FIFO_SIZE - 1 THEN Append(input, c) ELSE input
  /\ UNCHANGED <<line, pos, hist, hist_head, hist_count, hist_pos, esc, esc_num,
                 prev_cr, row, col, mode, past>>

\* shell_exec returns and shell_run prompts.
Prompt ==
  /\ mode = "run" /\ mode' = "edit" /\ Shown(sh_prompt)
  /\ UNCHANGED <<line, pos, hist, hist_head, hist_count, hist_pos, esc, esc_num,
                 prev_cr, input, past>>

\* shell_init, and shell_run's first prompt.
Init ==
  /\ line = <<>> /\ pos = 0
  /\ hist = [i \in 0..CMD_BUFFER_SIZE - 1 |-> <<>>]
  /\ hist_head = 0 /\ hist_count = 0 /\ hist_pos = -1
  /\ esc = 0 /\ esc_num = "1" /\ prev_cr = FALSE
  /\ input = <<>> /\ row = Blank /\ col = 0 /\ mode = "edit" /\ past = <<>>

Next == Key \/ Backlog \/ TypeAhead \/ Prompt

Spec == Init /\ [][Next]_vars

-----------------------------------------------------------------------------
\* The user sees the line that Enter would submit: the row after the prompt
\* holds exactly the edited text, nothing of what was there before, and the
\* terminal's cursor stands where the next key goes, after any sequence of
\* insertions, deletions, recalls, completions and redraws.
ScreenTrue ==
  mode = "edit" =>
    /\ col = pos /\ pos \in 0..Len(line) /\ Len(line) <= Room
    /\ \A i \in 1..Cells : row[i] = IF i <= Len(line) THEN line[i] ELSE " "

\* The up arrow walks exactly the last distinct lines submitted, newest first,
\* once the ring has wrapped too; browsing never leaves them; and a key that
\* submits nothing adds nothing.
HistoryExact ==
  /\ hist_count = Len(past)
  /\ \A b \in 0..hist_count - 1 : hist_at(b) = past[b + 1]
  /\ hist_pos \in -1..hist_count - 1

CompletionStep ==
  (mode = "edit" /\ line' # line /\ Tab) =>
    LET added == SubSeq(line', Len(line) + 1, Len(line'))
    IN  /\ IsPrefix(line, line')
        /\ \A i \in DOMAIN Offers(Word) : \A k \in DOMAIN added :
             LET name == Offers(Word)[i].name
             IN  Len(Word) + k <= Len(name)
                   => Same(~FirstWord, name[Len(Word) + k], added[k])

\* Completion only ever adds to the line, and what it fills in rules out no
\* name that the typed word could still have meant: each of them agrees with
\* every character filled in, up to its own length.
CompletionKeeps == [][CompletionStep]_vars

\* The terminal shows the line being edited, the history gives back the lines submitted,
\* and completion only ever adds what was meant (shell_poll, hist_at, sh_complete).
EditorSound == [](ScreenTrue /\ HistoryExact) /\ CompletionKeeps
=============================================================================
