------------------------------- MODULE Texts -------------------------------
(***************************************************************************)
(* The algorithms of the repository on every input up to a length, and the *)
(* small machines of its libraries.  A behaviour is about one of them.  An *)
(* input grows by one element in every step, and the invariants say what   *)
(* the algorithms make of it.  The kinds of input are                      *)
(*                                                                         *)
(*   pattern        the characters of a pattern of log lines               *)
(*   format         the characters of a format string                      *)
(*   field          an argument of a log call and its specs (one element)  *)
(*                                                                         *)
(* and the machines are                                                    *)
(*                                                                         *)
(*   stubs          calls and answers of the RPC stubs (RpcStubs)          *)
(*   buffer         calls of memory buffers (FmtBuffer)                    *)
(*   times          messages that are formatted (SpdlogTimes)              *)
(*   daily          messages to a daily file (SpdlogDaily)                 *)
(***************************************************************************)
EXTENDS RpcStubs, FmtBuffer, SpdlogTimes, SpdlogDaily, SequencesExt

CONSTANTS
  NArgs, MaxInt, IntBits,
  Elements,     \* Elements[k]: what an input of kind k is made of
  MaxLength,    \* MaxLength[k]: bound on its length
  Messages      \* the messages that are laid out

ASSUME TextsAssumption == NArgs \in Nat /\ MaxInt \in Nat /\ IntBits \in 1 .. 30

P == INSTANCE SpdlogPattern
F(Numeric) == INSTANCE FmtString
W == INSTANCE FmtWriter

VARIABLES kind, input
machineVars == <<stubVars, bufferVars, timesVars, dailyVars>>
vars == <<kind, input, machineVars>>

Machines == {"stubs", "buffer", "times", "daily"}

Init ==
  /\ kind \in DOMAIN Elements \cup Machines /\ input = <<>>
  /\ StubsInit /\ (kind = "stubs" \/ peer = "none")
  /\ BufferInit /\ TimesInit
  /\ DailyInit /\ (kind = "daily" \/ now = 0)

Extend ==
  /\ kind \notin Machines /\ Len(input) < MaxLength[kind]
  /\ \E x \in Elements[kind] : input' = Append(input, x)
  /\ UNCHANGED <<kind, machineVars>>

Calling == kind = "stubs" /\ StubsNext /\ UNCHANGED <<kind, input, bufferVars, timesVars, dailyVars>>
Buffering == kind = "buffer" /\ BufferNext /\ UNCHANGED <<kind, input, stubVars, timesVars, dailyVars>>
Formatting == kind = "times" /\ TimesNext /\ UNCHANGED <<kind, input, stubVars, bufferVars, dailyVars>>
Rotating == kind = "daily" /\ DailyNext /\ UNCHANGED <<kind, input, stubVars, bufferVars, timesVars>>

Next == Extend \/ Calling \/ Buffering \/ Formatting \/ Rotating

Spec == Init /\ [][Next]_vars
-----------------------------------------------------------------------------
(***************************************************************************)
(* What a pattern lays out does not depend on what follows in it: one more *)
(* character leaves the pieces before it as they were, although a pad      *)
(* specification is open, ends the pattern or is too long.                 *)
(***************************************************************************)
PatternGrows ==
  [][kind = "pattern" => \A msg \in Messages : IsPrefix(P!Line(input, msg), P!Line(input', msg))]_vars

(* A pad specification: a side or none, and digits. *)
IsPadspec(s) ==
  \E n \in {0, 1} :
    /\ n <= Len(s)
    /\ \A i \in 1 .. n : s[i] \in {"-", "="}
    /\ \A i \in n + 1 .. Len(s) : s[i] \in P!Digits

PadWidth(s) ==
  LET w == P!Number(SelectSeq(s, LAMBDA c : c \in P!Digits)) IN IF w > P!MaxWidth THEN P!MaxWidth ELSE w

(***************************************************************************)
(* A padded field is exactly as wide as asked for, or as its text if that  *)
(* is wider, with the blanks on the side asked for, and a centred text has *)
(* at most one blank more to its right.  Not so for %D, %x and %c, which   *)
(* take their text for 10 and 24 characters.                               *)
(***************************************************************************)
PaddedExactly ==
  kind = "pattern" /\ IsPadspec(input) =>
    \A flag \in P!PaddedFlags \ {"D", "x", "c"}, msg \in Messages :
      LET line == P!Line(<<"%">> \o input \o <<flag>>, msg)
          at == {i \in DOMAIN line : line[i].piece = "field"}
          width == P!Size(line)
          before == IF Len(line) > 0 /\ line[1].piece = "blanks" THEN line[1].size ELSE 0
          blanks == width - P!FieldSize(flag, msg)
      IN (flag \in P!SourceFlags => msg.source) =>
           /\ \E i \in at : at = {i}
           /\ width = IF PadWidth(input) > P!FieldSize(flag, msg) THEN PadWidth(input)
                      ELSE P!FieldSize(flag, msg)
           /\ before = IF input = <<>> THEN 0
                       ELSE CASE input[1] = "-" -> 0 [] input[1] = "=" -> blanks \div 2 [] OTHER -> blanks
-----------------------------------------------------------------------------
Unparse(piece) ==
  IF piece.kind = "text"
  THEN IF piece.char \in {"{", "}"} THEN <<piece.char, piece.char>> ELSE <<piece.char>>
  ELSE <<"{">> \o piece.id.digits \o (IF piece.colon THEN <<":">> ELSE <<>>) \o piece.specs \o <<"}">>

Exact(digits) == FoldLeft(LAMBDA n, c : 10 * n + F(TRUE)!ValueOf(c), 0, digits)
AllDigits(s) == \A i \in DOMAIN s : s[i] \in F(TRUE)!Digit

(* The pieces spell the format string, and its fields agree on their arguments. *)
Spells(pieces) ==
  LET fields == SelectSeq(pieces, LAMBDA x : x.kind = "field") IN
  /\ FlattenSeq([i \in DOMAIN pieces |-> Unparse(pieces[i])]) = input
  /\ \A i \in DOMAIN fields :
       /\ fields[i].id.arg < NArgs
       /\ ~fields[i].id.auto => fields[i].id.arg = Exact(fields[i].id.digits)
       /\ AllDigits(fields[i].specs) => Exact(fields[i].specs) <= MaxInt
       /\ \A j \in 1 .. i - 1 :
            /\ fields[i].id.auto <=> fields[j].id.auto
            /\ fields[i].id.auto => fields[j].id.arg < fields[i].id.arg

(***************************************************************************)
(* A format string that is accepted has been read to its end and without   *)
(* gaps: its pieces spell it again.  An index means the argument with that *)
(* number and there is one, no width is larger than an int, and indices    *)
(* are given for all fields or counted for all.  Text with its braces      *)
(* doubled is accepted and gives the text.                                 *)
(***************************************************************************)
FormatIsStrict ==
  kind = "format" =>
    \A numeric \in BOOLEAN :
      LET parsed == F(numeric)!parse_format_string(input)
          chars == [i \in DOMAIN input |-> F(numeric)!Char(input[i])]
          text == F(numeric)!parse_format_string(FlattenSeq([i \in DOMAIN input |-> Unparse(chars[i])]))
      IN /\ ~parsed.failed => Spells(parsed.out)
         /\ ~text.failed /\ text.out = chars
-----------------------------------------------------------------------------
(* The shortest way to write a number in a base. *)
BaseOf(type) == CASE type \in {"x", "X"} -> 16 [] type \in {"b", "B"} -> 2 [] type = "o" -> 8 [] OTHER -> 10
DigitsNeeded(n, base) == CHOOSE d \in 1 .. IntBits : base ^ (d - 1) <= n /\ n \div base < base ^ (d - 1)
Magnitude(v) == IF v < 0 THEN -v ELSE v
DigitValue(c) ==
  (CHOOSE i \in DOMAIN W!DIGITS : c \in {W!DIGITS[i], W!UpperDIGITS[i]}) - 1

(* What a reader takes a number for that was written with these specs. *)
ReadNumber(chars, specs) ==
  LET body == SelectSeq(chars, LAMBDA c : c \notin {"*", ","})
      signs == IF body[1] \in {"-", "+", " "} THEN 1 ELSE 0
      radix == IF specs.hash /\ BaseOf(specs.type) \in {2, 16} THEN 2 ELSE 0
      digits == SubSeq(body, signs + radix + 1, Len(body))
      n == FoldLeft(LAMBDA v, c : BaseOf(specs.type) * v + DigitValue(c), 0, digits)
  IN IF body[1] = "-" THEN -n ELSE n

Wider(a, b) == IF a > b THEN a ELSE b

(* The width of a number: prefix, separators, digits or as many as the precision asks for. *)
NumberWidth(v, specs) ==
  LET n == IF v = 0 THEN 1 ELSE DigitsNeeded(Magnitude(v), BaseOf(specs.type))
      digits == IF specs.type = "n" THEN n + (n - 1) \div 3 ELSE n
      radix == IF ~specs.hash THEN 0
               ELSE CASE BaseOf(specs.type) \in {2, 16} -> 2
                      [] specs.type = "o" /\ specs.precision <= n -> 1
                      [] OTHER -> 0
      most == IF specs.align = "numeric" THEN digits ELSE Wider(digits, specs.precision)
  IN (IF v < 0 \/ specs.sign # "" THEN 1 ELSE 0) + radix + most

(***************************************************************************)
(* A number that is written reads back as the number, up to the ends of    *)
(* the int and in every base, and a field is exactly as wide as asked for, *)
(* or as what it holds.  A field without specs is written like one with    *)
(* empty specs.                                                            *)
(***************************************************************************)
FieldIsExact ==
  kind = "field" /\ input # <<>> =>
    LET arg == input[1].arg
        specs == input[1].specs
        text == W!WriteArg(arg, specs)
        size == CASE arg.kind = "int" -> NumberWidth(arg.value, specs)
                  [] arg.kind = "pointer" -> NumberWidth(arg.value, [specs EXCEPT !.sign = "", !.hash = TRUE, !.type = "x"])
                  [] OTHER -> IF specs.precision \in 0 .. Len(arg.chars) THEN specs.precision ELSE Len(arg.chars)
    IN /\ arg.kind \in {"int", "string", "pointer"} /\ ~text.failed => Len(text.chars) = Wider(specs.width, size)
       /\ arg.kind = "int" /\ ~text.failed /\ (specs.fill = "*" \/ specs.align = "numeric") =>
            ReadNumber(text.chars, specs) = arg.value
       /\ W!WritePlain(arg) = W!WriteArg(arg, W!NoSpecs)
=============================================================================
