--------------------------- MODULE SpdlogPattern ---------------------------
(***************************************************************************)
(* How a log line is laid out: the pattern compiled to formatters          *)
(* (pattern_formatter), the padding around a field (scoped_pad) and the    *)
(* size of the fields.  A pattern is a sequence of characters.  A line is  *)
(* a sequence of pieces: blanks, a field of some size, or a character.     *)
(***************************************************************************)
EXTENDS Integers, Sequences, SequencesExt

Digits == {"0", "1", "2", "3", "4", "5", "6", "7", "8", "9"}
DigitValue(c) == CHOOSE d \in 0 .. 9 : ToString(d) = c
MaxWidth == 128

(* The first position from i on that is not a digit. *)
PastDigits(p, i) ==
  CHOOSE j \in i .. Len(p) + 1 : (j <= Len(p) => p[j] \notin Digits) /\ \A k \in i .. j - 1 : p[k] \in Digits

Number(digits) == FoldLeft(LAMBDA n, c : 10 * n + DigitValue(c), 0, digits)

(* handle_padspec_ from position i: the side, the width, and where it ends. *)
handle_padspec_(p, i) ==
  LET c == IF i <= Len(p) THEN p[i] ELSE "end"
      from == IF c \in {"-", "="} THEN i + 1 ELSE i
      to == PastDigits(p, from)
      width == Number(SubSeq(p, from, to - 1))
  IN [side |-> CASE c = "-" -> "right" [] c = "=" -> "center" [] OTHER -> "left",
      width |-> IF width > MaxWidth THEN MaxWidth ELSE width,
      next |-> to]
-----------------------------------------------------------------------------
(* The flags, by what their formatters write, for a message msg. *)
NameFlags == {"n", "l", "L"}
NameSize(flag, msg) == CASE flag = "n" -> msg.name [] flag = "l" -> msg.level [] flag = "L" -> 1

DayAndMonthFlags == {"a", "A", "b", "h", "B"}
DayAndMonthSize(flag, msg) ==
  CASE flag = "a" -> 3
    [] flag = "A" -> <<6, 6, 7, 9, 8, 6, 8>>[msg.wday + 1]
    [] flag \in {"b", "h"} -> IF msg.mon = 8 THEN 4 ELSE 3
    [] flag = "B" -> <<7, 8, 5, 5, 3, 4, 4, 6, 9, 7, 8, 8>>[msg.mon + 1]

(* append_int, pad2 and pad_uint; the year has four digits. *)
PlainSize(n) == Len(ToString(n))
pad2(n) == IF n > 99 THEN PlainSize(n) ELSE 2
pad_uint(n, width) == IF width > PlainSize(n) THEN width ELSE PlainSize(n)
DateFlags == {"c", "C", "D", "x", "Y", "m", "d", "H", "I", "M", "S"}
DateSize(flag, msg) ==
  CASE flag = "c" -> 3 + 1 + DayAndMonthSize("b", msg) + 1 + PlainSize(msg.mday) + 1 + 8 + 1 + 4
    [] flag \in {"D", "x"} -> 2 + 1 + 2 + 1 + 2
    [] flag = "Y" -> 4
    [] flag = "m" -> pad2(msg.mon + 1)
    [] flag = "d" -> pad2(msg.mday)
    [] OTHER -> 2

(* Fractions of a second, from msg.nanos.  The seconds since the epoch have ten digits. *)
TimeFlags == {"e", "f", "F", "E", "p", "r", "R", "T", "X"}
TimeSize(flag, msg) ==
  CASE flag = "e" -> pad_uint(msg.nanos \div 1000000, 3)
    [] flag = "f" -> pad_uint(msg.nanos \div 1000, 6)
    [] flag = "F" -> pad_uint(msg.nanos, 9)
    [] flag = "E" -> 10
    [] flag = "p" -> 2 [] flag = "r" -> 2 + 1 + 2 + 1 + 2 + 1 + 2 [] flag = "R" -> 2 + 1 + 2
    [] flag \in {"T", "X"} -> 2 + 1 + 2 + 1 + 2

ZoneFlags == {"z"}
ZoneSize == 1 + 2 + 1 + 2

IdFlags == {"t", "P", "v"}
IdSize(flag, msg) == CASE flag = "t" -> msg.thread [] flag = "P" -> msg.pid [] flag = "v" -> msg.payload

(* The source location is written only if there is one. *)
SourceFlags == {"@", "s", "#"}
SourceSize(flag, msg) ==
  CASE flag = "@" -> msg.file + 1 + msg.line [] flag = "s" -> msg.file [] flag = "#" -> msg.line

PaddedFlags == NameFlags \cup DayAndMonthFlags \cup DateFlags \cup TimeFlags \cup ZoneFlags
               \cup IdFlags \cup SourceFlags

FieldSize(flag, msg) ==
  CASE flag \in NameFlags -> NameSize(flag, msg)
    [] flag \in DayAndMonthFlags -> DayAndMonthSize(flag, msg)
    [] flag \in DateFlags -> DateSize(flag, msg)
    [] flag \in TimeFlags -> TimeSize(flag, msg)
    [] flag \in ZoneFlags -> ZoneSize
    [] flag \in IdFlags -> IdSize(flag, msg)
    [] flag \in SourceFlags -> SourceSize(flag, msg)

(* The size that the formatter takes the field to have. *)
AssumedSize(flag, msg) ==
  CASE flag = "c" -> 24 [] flag \in {"D", "x"} -> 10 [] flag \in {"m", "d"} -> 2
    [] flag = "e" -> 3 [] flag = "f" -> 6 [] flag = "F" -> 9
    [] OTHER -> FieldSize(flag, msg)

(* %+, the full line; it is not padded. *)
FullSize(msg) ==
  LET source == IF msg.source THEN 1 + msg.file + 1 + msg.line + 2 ELSE 0
      name == IF msg.name > 0 THEN 1 + msg.name + 2 ELSE 0
  IN 1 + 10 + 1 + 8 + 1 + 3 + 2 + name + 1 + msg.level + 2 + source + msg.payload
-----------------------------------------------------------------------------
Blanks(n) == IF n = 0 THEN <<>> ELSE <<[piece |-> "blanks", size |-> n]>>
Text(c) == <<[piece |-> c, size |-> 1]>>
FieldPiece(flag, n) == <<[piece |-> "field", flag |-> flag, size |-> n]>>

(* Fault: the odd blank of a centred field is lost. *)
FaultPadded(pad, assumed, piece) ==
  LET total == IF pad.width <= assumed THEN 0 ELSE pad.width - assumed IN
  CASE pad.side = "left" -> Blanks(total) \o piece
    [] pad.side = "right" -> piece \o Blanks(total)
    [] pad.side = "center" -> Blanks(total \div 2) \o piece \o Blanks(total \div 2)

(* scoped_pad around what is written while it lives. *)
Padded(pad, assumed, piece) ==
  LET total == IF pad.width <= assumed THEN 0 ELSE pad.width - assumed IN
  CASE pad.side = "left" -> Blanks(total) \o piece
    [] pad.side = "right" -> piece \o Blanks(total)
    [] pad.side = "center" -> Blanks(total \div 2) \o piece \o Blanks((total \div 2) + (total % 2))

(* handle_flag_, and the format of the formatter that it adds. *)
handle_flag_(flag, pad, msg) ==
  CASE flag = "+" -> FieldPiece("+", FullSize(msg))
    [] flag \in SourceFlags /\ ~msg.source -> <<>>
    [] flag \in PaddedFlags -> Padded(pad, AssumedSize(flag, msg), FieldPiece(flag, FieldSize(flag, msg)))
    [] flag \in {"^", "$"} -> <<>>
    [] flag = "%" -> Text("%")
    [] OTHER -> Text("%") \o Text(flag)

RECURSIVE LineFrom(_, _, _)
RECURSIVE FaultLineFrom(_, _, _)

(* Fault: the flag after a pad specification is read one place too far. *)
FaultLineFrom(p, i, msg) ==
  IF i > Len(p) THEN <<>>
  ELSE IF p[i] # "%" THEN Text(p[i]) \o FaultLineFrom(p, i + 1, msg)
  ELSE LET pad == handle_padspec_(p, i + 1)
           at == IF pad.next < Len(p) THEN pad.next + 1 ELSE pad.next
       IN IF at > Len(p) THEN <<>>
          ELSE handle_flag_(p[at], pad, msg) \o FaultLineFrom(p, at + 1, msg)

(* compile_pattern_ from position i, and the formatters one after the other. *)
LineFrom(p, i, msg) ==
  IF i > Len(p) THEN <<>>
  ELSE IF p[i] # "%" THEN Text(p[i]) \o LineFrom(p, i + 1, msg)
  ELSE LET pad == handle_padspec_(p, i + 1) IN
       IF pad.next > Len(p) THEN <<>>
       ELSE handle_flag_(p[pad.next], pad, msg) \o LineFrom(p, pad.next + 1, msg)

Line(p, msg) == LineFrom(p, 1, msg)

Size(line) == FoldLeft(LAMBDA n, x : n + x.size, 0, line)
=============================================================================
