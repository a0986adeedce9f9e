----------------------------- MODULE ShellText ------------------------------
(***************************************************************************)
(* The shell's text algorithms (kernel/shell.c), each against what it is   *)
(* meant to compute: splitting a line into words in place, carrying the    *)
(* words to the helper in one buffer, numbers, paths folded against the    *)
(* working directory, and the last lines of a file read back in blocks.    *)
(*                                                                         *)
(* A user types a line a character at a time; the line is split, sent, and *)
(* its text doubles as the number, the path and the file of the others.    *)
(***************************************************************************)
EXTENDS Integers, Sequences, SequencesExt

CONSTANTS
  CMD_MAX_LEN,      \* a line holds one less
  SHELL_MAX_ARGV,
  LONG_MAX,         \* the target's
  Alphabet,         \* characters of a line
  Digits,           \* characters of a number: a function to their values
  Parts,            \* path components typed: "." and ".." are special
  BLOCK             \* bytes cmd_tail reads at a time

VARIABLES
  line,             \* the line as submitted
  mem,              \* its buffer, 0..CMD_MAX_LEN-1, NUL-terminated
  pc, p, o, q,      \* shell_tokenize: where it is, its two pointers, open quote
  argv,             \* where each word begins
  cwd               \* the working directory: its components

tokvars == <<mem, pc, p, o, q, argv>>
vars == <<line, tokvars, cwd>>

NUL == "nul"
Space == "sp"
Quotes == {"dq", "sq"}
Room == CMD_MAX_LEN - 1

Buffer(text) == [i \in 0..Room |-> IF i < Len(text) THEN text[i + 1] ELSE NUL]

\* The C string at i.
StringAt(m, i) ==
  LET e == CHOOSE k \in i..Room : m[k] = NUL /\ \A j \in i..k - 1 : m[j] # NUL
  IN  [k \in 1..e - i |-> m[i + k - 1]]

-----------------------------------------------------------------------------
(* shell_tokenize, in place: o writes into the buffer p reads from.         *)

\* Between words: blanks are skipped; the end of the line, or of argv, ends it.
Skip ==
  /\ pc = "skip"
  /\ \/ /\ mem[p] = Space /\ Len(argv) < SHELL_MAX_ARGV /\ p' = p + 1 /\ UNCHANGED <<pc, o, q, argv>>
     \/ /\ mem[p] # NUL /\ mem[p] # Space /\ Len(argv) < SHELL_MAX_ARGV
        /\ o' = p /\ q' = NUL /\ argv' = Append(argv, p) /\ pc' = "word" /\ UNCHANGED p
     \/ /\ mem[p] = NUL \/ Len(argv) = SHELL_MAX_ARGV
        /\ pc' = "done" /\ UNCHANGED <<p, o, q, argv>>
  /\ UNCHANGED <<mem, line, cwd>>

\* MUTANT: a blank ends the word, quoted or not.
InWord_Unquoted(c) == c # NUL /\ c # Space

InWord(c) == c # NUL /\ (q # NUL \/ c # Space)

\* One character of a word: a quote opens or closes, anything else is kept.
Keep ==
  /\ pc = "word" /\ InWord(mem[p])
  /\ p' = p + 1
  /\ \/ q = NUL /\ mem[p] \in Quotes /\ q' = mem[p] /\ UNCHANGED <<mem, o>>
     \/ q # NUL /\ mem[p] = q /\ q' = NUL /\ UNCHANGED <<mem, o>>
     \/ /\ (q = NUL /\ mem[p] \notin Quotes) \/ (q # NUL /\ mem[p] # q)
        /\ mem' = [mem EXCEPT ![o] = mem[p]] /\ o' = o + 1 /\ UNCHANGED q
  /\ UNCHANGED <<pc, argv, line, cwd>>

\* The word ends: past the separator, and a NUL behind p.
EndWord ==
  /\ pc = "word" /\ ~InWord(mem[p])
  /\ p' = IF mem[p] = NUL THEN p ELSE p + 1
  /\ mem' = [mem EXCEPT ![o] = NUL]
  /\ pc' = "skip" /\ UNCHANGED <<o, q, argv, line, cwd>>

\* What the line means: its words, a quoted stretch kept whole.
Chars(s, c) ==
  IF s.q = NUL /\ c = Space THEN [s EXCEPT !.in = FALSE]
  ELSE LET w == IF s.in THEN s.words ELSE Append(s.words, <<>>)
           n == Len(w)
       IN  CASE s.q = NUL /\ c \in Quotes -> [words |-> w, in |-> TRUE, q |-> c]
             [] s.q # NUL /\ c = s.q -> [words |-> w, in |-> TRUE, q |-> NUL]
             [] OTHER -> [words |-> [w EXCEPT ![n] = Append(@, c)], in |-> TRUE, q |-> s.q]

Words(text) ==
  LET all == FoldLeft(Chars, [words |-> <<>>, in |-> FALSE, q |-> NUL], text).words
  IN  SubSeq(all, 1, IF Len(all) > SHELL_MAX_ARGV THEN SHELL_MAX_ARGV ELSE Len(all))

Argv == [i \in DOMAIN argv |-> StringAt(mem, argv[i])]

-----------------------------------------------------------------------------
(* via_helper packs the words into one buffer, each with its NUL;           *)
(* shell_helper_run walks them.                                             *)

\* MUTANT: the bound leaves no room for the last character.
Packs_Short(r, w) ==
  IF Len(r.line) >= Room - 1 THEN r
  ELSE LET n == IF Len(r.line) + Len(w) > Room - 1 THEN Room - 1 - Len(r.line) ELSE Len(w)
       IN  [line |-> r.line \o SubSeq(w, 1, n) \o <<NUL>>, argc |-> r.argc + 1]

\* One word into r.line: as much as fits, then its NUL; none once it is full.
Packs(r, w) ==
  IF Len(r.line) >= Room THEN r
  ELSE LET n == IF Len(r.line) + Len(w) > Room THEN Room - Len(r.line) ELSE Len(w)
       IN  [line |-> r.line \o SubSeq(w, 1, n) \o <<NUL>>, argc |-> r.argc + 1]

Request(words) == FoldLeft(Packs, [line |-> <<>>, argc |-> 0], words)

\* The words the helper finds: NUL by NUL, as many as argc says.
Unpacked(r) ==
  LET Split(s, c) == IF c = NUL THEN [words |-> Append(s.words, s.word), word |-> <<>>]
                     ELSE [s EXCEPT !.word = Append(@, c)]
      all == FoldLeft(Split, [words |-> <<>>, word |-> <<>>], r.line).words
  IN  SubSeq(all, 1, r.argc)

-----------------------------------------------------------------------------
(* sh_num.                                                                  *)

\* MUTANT: the check comes after the digit is taken.
TooBig_After(v, d, base) == v > LONG_MAX

\* Checked before the multiply, which would wrap.
TooBig(v, d, base) == v > (LONG_MAX - d) \div base

Takes(base, v, c) ==
  IF v < 0 \/ Digits[c] >= base \/ TooBig(v, Digits[c], base) THEN -1
  ELSE v * base + Digits[c]

sh_num(text, base) ==
  IF text = <<>> THEN -1 ELSE FoldLeft(LAMBDA v, c : Takes(base, v, c), 0, text)

Value(text, base) == FoldLeft(LAMBDA v, c : v * base + Digits[c], 0, text)

-----------------------------------------------------------------------------
(* sh_path: `arg` against cwd, component by component. A component is a      *)
(* name of length one; the buffer holds PathRoom of them.                   *)

PathRoom == (CMD_MAX_LEN - 1) \div 2

\* MUTANT: ".." at the root climbs into the arguments before it.
Up_None(path) == path

Up(path) == IF path = <<>> THEN path ELSE Front(path)

FULL == <<"full">>

Folds(path, c) ==
  CASE path = FULL \/ c = "." -> path
    [] path # FULL /\ c = ".." -> Up(path)
    [] OTHER -> IF Len(path) >= PathRoom THEN FULL ELSE Append(path, c)

sh_path(dir, abs, arg) == FoldLeft(Folds, <<>>, (IF abs THEN <<>> ELSE dir) \o arg)

\* cmd_cd to a directory that opens.
Cd ==
  \E abs \in BOOLEAN, arg \in UNION {[1..k -> Parts] : k \in 0..2} :
    /\ pc = "type" /\ line = <<>>
    /\ sh_path(cwd, abs, arg) # FULL
    /\ cwd' = sh_path(cwd, abs, arg)
    /\ UNCHANGED <<line, tokvars>>

-----------------------------------------------------------------------------
(* cmd_tail: the file is the line, "sp" its newline; read back BLOCK by     *)
(* BLOCK until `want` newlines, not counting one that ends the file.        *)

\* MUTANT: a final newline counts as the start of another line.
Counts_Final(text, i) == text[i] = Space

Counts(text, i) == text[i] = Space /\ i # Len(text)

\* Where the last `want` lines start, or 0 from the file's start: found in the
\* block that holds the want-th newline from the end.
BackFrom(text, want) ==
  LET size == Len(text)
      Block(s, b) ==  \* s: the newlines counted, and where printing starts
        LET lo == IF size > b * BLOCK THEN size - b * BLOCK ELSE 0
            hi == size - (b - 1) * BLOCK
            Ch(t, k) == IF t.at > 0 THEN t
                        ELSE IF Counts(text, hi - k + 1)
                        THEN [n |-> t.n + 1, at |-> IF t.n + 1 = want THEN hi - k + 1 ELSE 0]
                        ELSE t
        IN  IF s.at > 0 \/ hi <= 0 THEN s
            ELSE FoldLeft(Ch, s, [k \in 1..hi - lo |-> k])
  IN  FoldLeft(Block, [n |-> 0, at |-> 0], [b \in 1..(size \div BLOCK) + 1 |-> b]).at

cmd_tail(text, want) ==
  SubSeq(text, (IF want = 0 THEN Len(text) ELSE BackFrom(text, want)) + 1, Len(text))

\* The lines of a text, each with the newline that ends it.
Lines(text) ==
  LET Add(s, c) == IF c = Space THEN [done |-> Append(s.done, Append(s.cur, c)), cur |-> <<>>]
                   ELSE [s EXCEPT !.cur = Append(@, c)]
      r == FoldLeft(Add, [done |-> <<>>, cur |-> <<>>], text)
  IN  IF r.cur = <<>> THEN r.done ELSE Append(r.done, r.cur)

-----------------------------------------------------------------------------
Type ==
  /\ pc = "type" /\ cwd = <<>> /\ Len(line) < Room
  /\ \E c \in Alphabet : line' = Append(line, c)
  /\ mem' = Buffer(line')
  /\ UNCHANGED <<pc, p, o, q, argv, cwd>>

Enter == pc = "type" /\ cwd = <<>> /\ pc' = "skip" /\ UNCHANGED <<line, mem, p, o, q, argv, cwd>>

Init ==
  /\ line = <<>> /\ mem = Buffer(<<>>) /\ pc = "type" /\ p = 0 /\ o = 0 /\ q = NUL
  /\ argv = <<>> /\ cwd = <<>>

Next == Type \/ Enter \/ Skip \/ Keep \/ EndWord \/ Cd

Spec == Init /\ [][Next]_vars

-----------------------------------------------------------------------------
\* Splitting a line in place never overwrites what is still to be read: the
\* words found are those of the line as typed, empty quoted ones and an
\* unclosed quote included.
WordsExact == pc = "done" => Argv = Words(line)

\* The helper runs the command with exactly the words the shell split, however
\* full the line and however many words are empty.
ArgsArrive == pc = "done" => Unpacked(Request(Argv)) = Argv

\* A number is accepted exactly when its digits are the base's and it fits the
\* target's long, and then with its value.
NumberExact ==
  (line # <<>> /\ \A i \in DOMAIN line : line[i] \in DOMAIN Digits) =>
    \A base \in {3, 4} :
      sh_num(line, base) =
        IF (\A i \in DOMAIN line : Digits[line[i]] < base) /\ Value(line, base) <= LONG_MAX
        THEN Value(line, base) ELSE -1

\* The working directory stays a plain absolute path that fits, and ".." undoes
\* the last component of any path that has one.
PathFolds ==
  /\ Len(cwd) <= PathRoom /\ \A i \in DOMAIN cwd : cwd[i] \notin {".", ".."}
  /\ \A c \in Parts \ {".", ".."} :
       Len(cwd) < PathRoom => sh_path(cwd, FALSE, <<c, "..">>) = cwd

\* tail prints the last `want` lines, wherever the block boundaries fall.
TailExact ==
  pc = "type" =>
    \A want \in 0..3 :
      LET ls == Lines(line)
          from == IF Len(ls) > want THEN Len(ls) - want + 1 ELSE 1
      IN  cmd_tail(line, want) = FlattenSeq(SubSeq(ls, from, Len(ls)))

\* Each text algorithm computes its reference, for every input within the bounds
\* (shell_tokenize, sh_num, sh_path, cmd_tail).
TextExact == WordsExact /\ ArgsArrive /\ NumberExact /\ PathFolds /\ TailExact
=============================================================================
