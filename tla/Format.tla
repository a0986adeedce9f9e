------------------------------- MODULE Format --------------------------------
(***************************************************************************)
(* The formatters of kernel/utils.c: vaprint_fmt_buf (into a buffer),      *)
(* vaprint_fmt and v_panic_vprintf (to the console, through a buffer that is*)
(* flushed when it is full) and printf_fd, the tasks' printf, which parses *)
(* the format itself, has every conversion formatted on its own and streams*)
(* the text in chunks that the console takes in parts.                     *)
(*                                                                         *)
(* A format is a sequence of characters; the argument of a conversion      *)
(* depends on its letter only.  A number is exact: a double is a fraction. *)
(***************************************************************************)
EXTENDS Integers, Sequences, SequencesExt

CONSTANTS
  Pieces,       \* what formats are put together from
  MaxPieces,
  Args,         \* arguments: each a record with one for every conversion letter
  OutBuf,       \* the console formatters' out_buf
  One, Chunk,   \* printf_fd's buffers
  Sizes         \* sizes of buffer vaprint_fmt_buf is called with

VARIABLES
  arg,          \* the arguments of this call
  fmt, pieces,  \* the format and how many pieces it has
  p,            \* printf_fd: the next character, 0 when it is not running
  chunk,        \* what is collected
  out,          \* what printf_out has to write
  sent,         \* what the console took
  total, failed \* the result; a write failed

vars == <<arg, fmt, pieces, p, chunk, out, sent, total, failed>>

Init ==
  /\ arg \in Args /\ fmt = <<>> /\ pieces = 0 /\ p = 0 /\ chunk = <<>> /\ out = <<>>
  /\ sent = <<>> /\ total = 0 /\ failed = FALSE

-----------------------------------------------------------------------------
(* Numbers.                                                                 *)

Digit == <<"0", "1", "2", "3", "4", "5", "6", "7", "8", "9", "a", "b", "c", "d", "e", "f">>
Decimal == {Digit[i] : i \in 1..10}
ValueOf(c) == (CHOOSE i \in 1..16 : Digit[i] = c) - 1

\* The digits of a value above zero, the lowest first, as the loop finds them.
RECURSIVE LowFirst(_, _)
LowFirst(value, base) ==
  IF value = 0 THEN <<>> ELSE <<Digit[(value % base) + 1]>> \o LowFirst(value \div base, base)

\* MUTANT: the digits are left in the order they were found.
utoa_simple_Low(value, base) == IF value = 0 THEN <<"0">> ELSE LowFirst(value, base)

utoa_simple(value, base) == IF value = 0 THEN <<"0">> ELSE Reverse(LowFirst(value, base))

itoa_simple(value) ==
  IF value < 0 THEN <<"-">> \o utoa_simple(-value, 10) ELSE utoa_simple(value, 10)

\* The fraction's digits, one multiplication by ten at a time.
RECURSIVE Fraction(_, _, _)
Fraction(num, den, precision) ==
  IF precision = 0 THEN <<>>
  ELSE <<Digit[((num * 10) \div den) + 1]>> \o Fraction((num * 10) % den, den, precision - 1)

\* %f, of the fraction v.num / v.den.
Float(v, precision) ==
  LET n == IF v.num < 0 THEN -v.num ELSE v.num
      d == IF precision < 0 THEN 6 ELSE precision
  IN  (IF v.num < 0 THEN <<"-">> ELSE <<>>) \o itoa_simple(n \div v.den) \o <<".">>
      \o Fraction(n % v.den, v.den, d)

\* v_atof of a text that is all of it a number: res / 10^places.
v_atof(s) ==
  LET body == SelectSeq(s, LAMBDA c : c \notin {"-", "."})
      dots == SelectInSeq(s, LAMBDA c : c = ".")
  IN  [res |-> (IF s[1] = "-" THEN -1 ELSE 1) * FoldLeft(LAMBDA r, c : r * 10 + ValueOf(c), 0, body),
       places |-> IF dots = 0 THEN 0 ELSE Len(s) - dots]

-----------------------------------------------------------------------------
(* A conversion.                                                            *)

At(f, i) == IF i <= Len(f) THEN f[i] ELSE "NUL"

\* The first position from i on that is not a decimal digit.
AfterDigits(f, i) == CHOOSE j \in i..Len(f) + 1 :
  At(f, j) \notin Decimal /\ \A k \in i..j - 1 : f[k] \in Decimal
NumberAt(f, i) ==
  FoldLeft(LAMBDA r, c : r * 10 + ValueOf(c), 0, SubSeq(f, i, AfterDigits(f, i) - 1))

\* Flag, width, precision and letters of the conversion whose '%' is at i:
\* at is where its last letter stands.
Conversion(f, i) ==
  LET zero == At(f, i + 1) = "0"
      w    == IF zero THEN i + 2 ELSE i + 1
      dot  == AfterDigits(f, w)
      l    == IF At(f, dot) = "." THEN AfterDigits(f, dot + 1) ELSE dot
      at   == IF At(f, l) # "l" THEN l ELSE IF At(f, l + 1) = "l" THEN l + 2 ELSE l + 1
  IN  [zero |-> zero, width |-> NumberAt(f, w), at |-> at, conv |-> At(f, at),
       precision |-> IF At(f, dot) = "." THEN NumberAt(f, dot + 1) ELSE -1]

\* Padded on the left to the width.
Padded(s, text) ==
  [i \in 1..(IF s.width > Len(text) THEN s.width - Len(text) ELSE 0) |-> IF s.zero THEN "0" ELSE " "]
  \o text

Upper(c) == [a |-> "A", b |-> "B", c |-> "C", d |-> "D", e |-> "E", f |-> "F"][c]
Shout(text) == [i \in 1..Len(text) |-> IF text[i] \in Decimal THEN text[i] ELSE Upper(text[i])]

\* The text of a conversion, as vaprint_fmt's switch has it.
Converted(s) ==
  CASE s.conv = "d" -> Padded(s, itoa_simple(arg.d))
    [] s.conv = "u" -> Padded(s, utoa_simple(arg.u, 10))
    [] s.conv = "x" -> Padded(s, utoa_simple(arg.x, 16))
    [] s.conv = "X" -> Padded(s, Shout(utoa_simple(arg.x, 16)))
    [] s.conv = "p" -> <<"0", "x">> \o utoa_simple(arg.x, 16)
    [] s.conv = "f" -> Float(arg.f, s.precision)
    [] s.conv = "c" -> arg.c
    [] s.conv = "s" -> arg.s
    [] s.conv = "%" -> <<"%">>
    [] OTHER -> <<"%", s.conv>>

\* One round of the loop at i: the text it yields and where it goes on.
Step(f, i) ==
  IF f[i] # "%" THEN [text |-> <<f[i]>>, next |-> i + 1]
  ELSE IF i = Len(f) THEN [text |-> <<"%">>, next |-> i + 1]
  ELSE LET s == Conversion(f, i) IN [text |-> Converted(s), next |-> s.at + 1]

-----------------------------------------------------------------------------
(* vaprint_fmt_buf.                                                         *)

\* MUTANT: the terminator's place is filled as well.
Room_All(pos, out_size) == out_size - pos

\* What still goes into the buffer.
Room(pos, out_size) == out_size - 1 - pos

Cut(text, n) == SubSeq(text, 1, IF Len(text) < n THEN Len(text) ELSE n)

RECURSIVE BufFrom(_, _, _, _)
BufFrom(f, i, done, out_size) ==
  IF i > Len(f) \/ Room(Len(done), out_size) = 0 THEN done
  ELSE LET st == Step(f, i)
       IN  BufFrom(f, st.next,
                   done \o Cut(st.text, Room(Len(done), out_size)), out_size)

vaprint_fmt_buf(f, out_size) == BufFrom(f, 1, <<>>, out_size)

-----------------------------------------------------------------------------
(* vaprint_fmt and v_panic_vprintf: PUT_CHAR_BUF and FLUSH_OUT_BUF.         *)

\* MUTANT: the flush forgets to start over.
Flush_Kept(o) == [o EXCEPT !.shown = @ \o o.buf]

Flush(o) == [o EXCEPT !.shown = @ \o o.buf, !.buf = <<>>]

Put(o, c) ==
  LET r == IF Len(o.buf) >= OutBuf - 1 THEN Flush(o) ELSE o
  IN  [r EXCEPT !.buf = Append(@, c), !.most = IF Len(r.buf) + 1 > @ THEN Len(r.buf) + 1 ELSE @]

PutAll(o, text) == FoldLeft(Put, o, text)

RECURSIVE ShowFrom(_, _, _)
ShowFrom(f, i, o) ==
  IF i > Len(f) THEN Flush(o)
  ELSE LET st == Step(f, i) IN ShowFrom(f, st.next, PutAll(o, st.text))

vaprint_fmt(f) == ShowFrom(f, 1, [buf |-> <<>>, shown |-> <<>>, most |-> 0])

\* MUTANT: a panic prints hexadecimal values in decimal.
PanicConverted_Decimal(c) == IF c = "x" THEN utoa_simple(arg.x, 10) ELSE Converted([conv |-> c, width |-> 0, zero |-> FALSE])

\* The panic formatter knows no flags and fewer letters.
PanicConverted(c) ==
  IF c \in {"u", "x", "d", "p", "s"} THEN Converted([conv |-> c, width |-> 0, zero |-> FALSE])
  ELSE <<"%", c>>

RECURSIVE PanicFrom(_, _, _)
PanicFrom(f, i, o) ==
  IF i > Len(f) THEN Flush(o)
  ELSE IF f[i] # "%" \/ i = Len(f) THEN PanicFrom(f, i + 1, PutAll(o, <<f[i]>>))
  ELSE PanicFrom(f, i + 2, PutAll(o, PanicConverted(f[i + 1])))

v_panic_vprintf(f) == PanicFrom(f, 1, [buf |-> <<>>, shown |-> <<>>, most |-> 0])

-----------------------------------------------------------------------------
(* printf_fd.                                                               *)

Type(piece) ==
  /\ p = 0 /\ sent = <<>> /\ ~failed /\ pieces < MaxPieces
  /\ fmt' = fmt \o piece /\ pieces' = pieces + 1
  /\ UNCHANGED <<arg, p, chunk, out, sent, total, failed>>

Call ==
  /\ p = 0 /\ sent = <<>> /\ ~failed /\ fmt # <<>>
  /\ p' = 1 /\ UNCHANGED <<arg, fmt, pieces, chunk, out, sent, total, failed>>

\* The text of the conversion at i: a plain %s is streamed whole, any other
\* is formatted into one[].
Formatted(i) ==
  LET s == Conversion(fmt, i)
  IN  IF s.conv = "s" /\ s.at = i + 1 THEN arg.s
      ELSE vaprint_fmt_buf(SubSeq(fmt, i, s.at), One)

\* What the character at i prints; nothing for a lone '%' at the end.
Streamed(i) == IF At(fmt, i) # "%" THEN <<At(fmt, i)>> ELSE Formatted(i)
Unfinished(i) == At(fmt, i) = "%" /\ (i = Len(fmt) \/ Conversion(fmt, i).conv = "NUL")

\* One conversion or literal: PF_PUT of each character, a full chunk is handed
\* to printf_out before the next is collected.
Collect ==
  /\ p \in 1..Len(fmt) /\ out = <<>> /\ Len(chunk) < Chunk /\ ~Unfinished(p)
  /\ chunk' = chunk \o Streamed(p)
  /\ total' = total + Len(Streamed(p))
  /\ p' = Step(fmt, p).next
  /\ UNCHANGED <<arg, fmt, pieces, out, sent, failed>>

Full ==
  /\ p > 0 /\ out = <<>> /\ Len(chunk) >= Chunk
  /\ out' = SubSeq(chunk, 1, Chunk) /\ chunk' = SubSeq(chunk, Chunk + 1, Len(chunk))
  /\ UNCHANGED <<arg, fmt, pieces, p, sent, total, failed>>

\* MUTANT: a partial write is taken for a whole one.
Rest_None(b, w) == <<>>

Rest(b, w) == SubSeq(b, w + 1, Len(b))

\* printf_out: v_file_write takes w of what is left (0: sleep a tick, retry),
\* or fails and the rest of the chunk is given up.
printf_out ==
  /\ out # <<>>
  /\ \/ \E w \in 0..Len(out) :
          sent' = sent \o SubSeq(out, 1, w) /\ out' = Rest(out, w) /\ UNCHANGED failed
     \/ out' = <<>> /\ failed' = TRUE /\ UNCHANGED sent
  /\ UNCHANGED <<arg, fmt, pieces, p, chunk, total>>

\* The end of the format: what is left goes out, and the call returns.
Leftover ==
  /\ p > 0 /\ out = <<>> /\ (p > Len(fmt) \/ Unfinished(p)) /\ chunk # <<>> /\ Len(chunk) < Chunk
  /\ out' = chunk /\ chunk' = <<>> /\ p' = Len(fmt) + 1
  /\ UNCHANGED <<arg, fmt, pieces, sent, total, failed>>

Next == (\E piece \in Pieces : Type(piece)) \/ Call \/ Collect \/ Full \/ printf_out \/ Leftover

Spec == Init /\ [][Next]_vars

-----------------------------------------------------------------------------
(* The expansion of a format: the reference.                                *)

RECURSIVE ExpandFrom(_, _)
ExpandFrom(f, i) == IF i > Len(f) THEN <<>> ELSE Step(f, i).text \o ExpandFrom(f, Step(f, i).next)
Expansion(f) == ExpandFrom(f, 1)

\* A buffer of any size receives the longest beginning of the expansion that
\* leaves room for the terminator: no conversion writes past the end, none is
\* left out while there is room.
BufferCut == p = 0 =>
  \A size \in Sizes : vaprint_fmt_buf(fmt, size) = Cut(Expansion(fmt), size - 1)

\* The console formatter prints all of the expansion, once, wherever its
\* flushes fall, and its buffer never holds more than fits with a terminator.
FlushedWhole == p = 0 =>
  vaprint_fmt(fmt).shown = Expansion(fmt) /\ vaprint_fmt(fmt).most < OutBuf

\* The panic formatter, which is written separately, prints the same as the
\* other for the formats it knows.
PanicAgrees ==
  p = 0 /\ (\A i \in 1..Len(fmt) - 1 : fmt[i] = "%" => fmt[i + 1] \in {"u", "x", "d", "p", "s", "q"})
    => v_panic_vprintf(fmt).shown = Expansion(fmt)

\* What printf_fd should print: every conversion cut to one[], a lone '%' at
\* the end dropped.
RECURSIVE StreamFrom(_)
StreamFrom(i) ==
  IF i > Len(fmt) \/ Unfinished(i) THEN <<>>
  ELSE Streamed(i) \o StreamFrom(Step(fmt, i).next)

\* The call has returned.
Finished == (p > Len(fmt) \/ Unfinished(p)) /\ chunk = <<>> /\ out = <<>>

\* The tasks' printf loses and repeats nothing, however the console splits its
\* writes: all along what was taken is a beginning of the text, and with what
\* is collected it is the whole of it so far; the result counts it.
StreamExact ==
  p > 0 /\ ~failed =>
    /\ IsPrefix(sent \o out \o chunk, StreamFrom(1))
    /\ total = Len(sent \o out \o chunk)
    /\ Finished => sent = StreamFrom(1)

\* Integers read back as the value printed, and a %f as the value to within
\* one unit of its last digit.
NumbersReadBack ==
  /\ \A v \in {arg.u, arg.x} :
       \A base \in {10, 16} :
         FoldLeft(LAMBDA r, c : r * base + ValueOf(c), 0, utoa_simple(v, base)) = v
  /\ v_atof(itoa_simple(arg.d)) = [res |-> arg.d, places |-> 0]
  /\ \A precision \in 0..3 :
       LET r == v_atof(Float(arg.f, precision))
           exact == arg.f.num * 10^r.places
       IN  (IF exact < 0 THEN -exact ELSE exact) - (IF r.res < 0 THEN -r.res ELSE r.res) * arg.f.den
             \in 0..arg.f.den - 1

\* The four formatters produce the expansion of the format, cut where their buffer
\* ends and nowhere else, and numbers read back as what they were (vaprint_fmt_buf,
\* vaprint_fmt, v_panic_vprintf, printf_fd).
FormatExact ==
    BufferCut /\ FlushedWhole /\ PanicAgrees /\ StreamExact /\ NumbersReadBack
=============================================================================
