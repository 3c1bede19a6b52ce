------------------------------ MODULE FmtString ------------------------------
(***************************************************************************)
(* The format strings of the log calls: fmt's parse_format_string with the *)
(* handler that formats, over NArgs arguments.  Parsing gives a sequence   *)
(* of pieces, each a character of text or a replacement field, and whether *)
(* an exception ended it.                                                  *)
(*                                                                         *)
(* A parser takes the string, a position and the argument counter          *)
(* next_arg_id_, and gives the position after what it read, the counter,   *)
(* what it read, and whether it failed.  The counter is 0 at first, counts *)
(* the automatic arguments, and is -1 once an argument has an index.       *)
(***************************************************************************)
EXTENDS Integers, Sequences, SequencesExt

CONSTANTS
  NArgs,      \* number of arguments
  Numeric,    \* whether they are numbers (otherwise strings)
  MaxInt      \* the largest int

Digit == {"0", "1", "2", "3", "4", "5", "6", "7", "8", "9"}
ValueOf(c) == CHOOSE d \in 0 .. 9 : ToString(d) = c
Align == {"<", ">", "=", "^"}
Sign == {"+", "-", " "}

(* A character, or the null that null_terminating_iterator shows at the end. *)
At(p, i) == IF i <= Len(p) THEN p[i] ELSE "null"

Parsed(next, counter, out) == [next |-> next, counter |-> counter, out |-> out, failed |-> FALSE]
Failed(i) == [next |-> i, counter |-> 0, out |-> <<>>, failed |-> TRUE]

(* The first position from i on that holds none of the characters. *)
PastAll(p, i, chars(_)) ==
  CHOOSE j \in i .. Len(p) + 1 : ~(j <= Len(p) /\ chars(p[j])) /\ \A k \in i .. j - 1 : chars(p[k])

IsDigit(c) == c \in Digit

(***************************************************************************)
(* parse_nonnegative_int, in unsigned arithmetic: the loop ends with       *)
(* MaxInt + 1 before the number leaves the int.                            *)
(***************************************************************************)
AddDigit(n, c) ==
  IF n > MaxInt \div 10 THEN MaxInt + 1 ELSE (10 * n + ValueOf(c)) % (2 * (MaxInt + 1))

parse_nonnegative_int(digits) ==
  LET upTo[k \in 0 .. Len(digits)] == IF k = 0 THEN 0 ELSE AddDigit(upTo[k - 1], digits[k])
  IN upTo[Len(digits)]

TooBig(digits) == parse_nonnegative_int(digits) > MaxInt

(* next_arg_id and check_arg_id of the parse context, and the range of the arguments. *)
NextArg(counter) == counter >= 0 /\ counter < NArgs
GiveArg(counter, index) == counter <= 0 /\ index < NArgs

(* Fault: automatic and given indices may be mixed. *)
FaultParseArgId(p, i, counter) ==
  LET to == PastAll(p, i, IsDigit)
      digits == SubSeq(p, i, to - 1)
  IN IF At(p, i) \in {"}", ":"}
     THEN IF NextArg(counter) THEN Parsed(i, counter + 1, [auto |-> TRUE, digits |-> <<>>, arg |-> counter])
          ELSE Failed(i)
     ELSE IF to > i /\ ~TooBig(digits) /\ parse_nonnegative_int(digits) < NArgs
          THEN Parsed(to, counter, [auto |-> FALSE, digits |-> digits, arg |-> parse_nonnegative_int(digits)])
          ELSE Failed(i)

(* parse_arg_id: none, an index, or a name, which none of the arguments has. *)
parse_arg_id(p, i, counter) ==
  LET to == PastAll(p, i, IsDigit)
      digits == SubSeq(p, i, to - 1)
  IN IF At(p, i) \in {"}", ":"}
     THEN IF NextArg(counter) THEN Parsed(i, counter + 1, [auto |-> TRUE, digits |-> <<>>, arg |-> counter])
          ELSE Failed(i)
     ELSE IF to > i /\ ~TooBig(digits) /\ At(p, to) \in {"}", ":"} /\ GiveArg(counter, parse_nonnegative_int(digits))
          THEN Parsed(to, -1, [auto |-> FALSE, digits |-> digits, arg |-> parse_nonnegative_int(digits)])
          ELSE Failed(i)
-----------------------------------------------------------------------------
(* The parts of parse_format_specs, each from position i. *)

(* Fill and alignment.  specs_checker wants a number for "=". *)
ParseAlign(p, i, counter) ==
  IF At(p, i + 1) \in Align
  THEN IF p[i] = "{" \/ (p[i + 1] = "=" /\ ~Numeric) THEN Failed(i)
       ELSE Parsed(i + 2, counter, SubSeq(p, i, i + 1))
  ELSE IF At(p, i) \in Align
  THEN IF p[i] = "=" /\ ~Numeric THEN Failed(i) ELSE Parsed(i + 1, counter, <<p[i]>>)
  ELSE Parsed(i, counter, <<>>)

(* Sign, # and 0 are for numbers. *)
ParseFlags(p, i, counter) ==
  LET sign == IF At(p, i) \in Sign THEN i + 1 ELSE i
      hash == IF At(p, sign) = "#" THEN sign + 1 ELSE sign
      zero == IF At(p, hash) = "0" THEN hash + 1 ELSE hash
  IN IF zero > i /\ ~Numeric THEN Failed(i) ELSE Parsed(zero, counter, SubSeq(p, i, zero - 1))

(* A width or a precision that an argument gives, which has to be a number. *)
DynamicCount(p, i, id) ==
  IF id.failed \/ ~Numeric \/ At(p, id.next) # "}" THEN Failed(i)
  ELSE Parsed(id.next + 1, id.counter, <<"{">> \o id.out.digits \o <<"}">>)

ParseCount(p, i, counter) ==
  LET to == PastAll(p, i, IsDigit) IN
  IF to > i
  THEN IF TooBig(SubSeq(p, i, to - 1)) THEN Failed(i)
       ELSE Parsed(to, counter, SubSeq(p, i, to - 1))
  ELSE IF At(p, i) = "{" THEN DynamicCount(p, i, parse_arg_id(p, i + 1, counter))
  ELSE Parsed(i, counter, <<>>)

(* Arguments of integral type have no precision. *)
PrecisionOf(i, count) ==
  IF count.failed \/ count.out = <<>> \/ Numeric THEN Failed(i)
  ELSE Parsed(count.next, count.counter, <<".">> \o count.out)

ParsePrecision(p, i, counter) ==
  IF At(p, i) # "." THEN Parsed(i, counter, <<>>) ELSE PrecisionOf(i, ParseCount(p, i + 1, counter))

(* Any character may be the type; whether the argument has it is not modelled. *)
ParseType(p, i, counter) ==
  IF At(p, i) \in {"}", "null"} THEN Parsed(i, counter, <<>>) ELSE Parsed(i + 1, counter, <<p[i]>>)

(* One part after the other, until one fails. *)
Then(result, p, part(_, _, _)) ==
  IF result.failed THEN result
  ELSE LET more == part(p, result.next, result.counter) IN [more EXCEPT !.out = result.out \o @]

parse_format_specs(p, i, counter) ==
  IF At(p, i) \in {"}", "null"} THEN Parsed(i, counter, <<>>)
  ELSE Then(Then(Then(Then(ParseAlign(p, i, counter), p, ParseFlags), p, ParseCount),
                 p, ParsePrecision), p, ParseType)
-----------------------------------------------------------------------------
Char(c) == [kind |-> "text", char |-> c]
ReplacementField(id, colon, specs) == [kind |-> "field", id |-> id, colon |-> colon, specs |-> specs]

(* What is between { and }: an argument, and its specification. *)
FieldOf(p, i, id, specs) ==
  CASE At(p, id.next) = "}" -> Parsed(id.next + 1, id.counter, <<ReplacementField(id.out, FALSE, <<>>)>>)
    [] At(p, id.next) = ":" /\ ~specs.failed /\ At(p, specs.next) = "}" ->
         Parsed(specs.next + 1, specs.counter, <<ReplacementField(id.out, TRUE, specs.out)>>)
    [] OTHER -> Failed(i)

ParseField(p, i, counter) ==
  LET id == parse_arg_id(p, i, counter) IN
  IF id.failed THEN Failed(i)
  ELSE FieldOf(p, i, id, parse_format_specs(p, id.next + 1, id.counter))

RECURSIVE ParseFrom(_, _, _)

(* parse_format_string: text, with doubled braces, and fields. *)
ParseFrom(p, i, counter) ==
  IF i > Len(p) THEN Parsed(i, counter, <<>>)
  ELSE LET first ==
             CASE p[i] = "}" -> IF At(p, i + 1) = "}" THEN Parsed(i + 2, counter, <<Char("}")>>) ELSE Failed(i)
               [] p[i] = "{" -> IF At(p, i + 1) = "{" THEN Parsed(i + 2, counter, <<Char("{")>>)
                                ELSE ParseField(p, i + 1, counter)
               [] OTHER -> Parsed(i + 1, counter, <<Char(p[i])>>)
       IN Then(first, p, ParseFrom)

parse_format_string(p) == ParseFrom(p, 1, 0)
=============================================================================
