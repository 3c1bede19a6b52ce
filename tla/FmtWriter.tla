------------------------------ MODULE FmtWriter ------------------------------
(***************************************************************************)
(* How fmt writes an argument of a log call: basic_writer and              *)
(* arg_formatter_base, for integers, bools, chars, strings and pointers.   *)
(* A result is the text, or that an exception was thrown.                  *)
(***************************************************************************)
EXTENDS Integers, Sequences

CONSTANT IntBits    \* bits of an int

(* An argument: its kind, its value if it is a number, its characters if it is a string. *)
Arg(kind, value, chars) == [kind |-> kind, value |-> value, chars |-> chars]

(* The specs a field without any has: align_spec, basic_format_specs. *)
NoSpecs ==
  [width |-> 0, fill |-> " ", align |-> "default", sign |-> "", hash |-> FALSE,
   precision |-> -1, type |-> ""]

Text(chars) == [failed |-> FALSE, chars |-> chars]
Thrown == [failed |-> TRUE, chars |-> <<>>]

Fill(n, c) == [i \in 1 .. n |-> c]
DIGITS == <<"0", "1", "2", "3", "4", "5", "6", "7", "8", "9", "a", "b", "c", "d", "e", "f">>
UpperDIGITS == <<"0", "1", "2", "3", "4", "5", "6", "7", "8", "9", "A", "B", "C", "D", "E", "F">>

(* The room for n characters, and what is written from its start. *)
reserve(n, chars) == [i \in 1 .. n |-> IF i <= Len(chars) THEN chars[i] ELSE "unwritten"]

(* <left padding><value><right padding> *)
write_padded(size, specs, chars) ==
  LET padding == specs.width - size
      left == CASE specs.align = "right" -> padding
                [] specs.align = "center" -> padding \div 2
                [] OTHER -> 0
  IN IF specs.width <= size THEN reserve(size, chars)
     ELSE reserve(specs.width, Fill(left, specs.fill) \o chars \o Fill(padding - left, specs.fill))
-----------------------------------------------------------------------------
(* Integers. *)
is_negative(value) == value < 0
Unsigned(value) == value % 2 ^ IntBits
Abs(value) == IF is_negative(value) THEN (0 - Unsigned(value)) % 2 ^ IntBits ELSE Unsigned(value)

(* The bits of n | 1, from the number of its leading zeros. *)
BitLength(n) == IF n = 0 THEN 1 ELSE CHOOSE b \in 1 .. IntBits : 2 ^ (b - 1) <= n /\ n < 2 ^ b
ZERO_OR_POWERS_OF_10 == [t \in 0 .. 9 |-> IF t = 0 THEN 0 ELSE 10 ^ t]

(* The decimal digits of n, from its bits: 1233 / 4096 is nearly log10(2). *)
count_digits(n) ==
  LET t == (BitLength(n) * 1233) \div 4096 IN
  t - (IF n < ZERO_OR_POWERS_OF_10[t] THEN 1 ELSE 0) + 1

(* The digits of n in groups of that many bits. *)
count_bit_digits[n \in Nat, bits \in 1 .. 4] ==
  IF n \div 2 ^ bits = 0 THEN 1 ELSE 1 + count_bit_digits[n \div 2 ^ bits, bits]

(* The digits from the last to the first; sep is told after each, but not after the first. *)
format_decimal[n \in Nat, written \in Nat, sep \in BOOLEAN] ==
  IF n < 10 THEN <<DIGITS[n + 1]>>
  ELSE format_decimal[n \div 10, written + 1, sep]
       \o (IF sep /\ (written + 1) % 3 = 0 THEN <<",">> ELSE <<>>)
       \o <<DIGITS[(n % 10) + 1]>>

format_uint[n \in Nat, bits \in 1 .. 4, upper \in BOOLEAN] ==
  (IF n \div 2 ^ bits = 0 THEN <<>> ELSE format_uint[n \div 2 ^ bits, bits, upper])
  \o <<IF upper THEN UpperDIGITS[(n % 2 ^ bits) + 1] ELSE DIGITS[(n % 2 ^ bits) + 1]>>

(* Fault: numeric padding does not count the prefix. *)
FaultWriteInt(num_digits, prefix, specs, digits) ==
  LET padding == IF specs.align = "numeric" /\ specs.width > num_digits THEN specs.width - num_digits ELSE 0
      aligned == [specs EXCEPT !.align = IF @ = "default" THEN "right" ELSE @]
  IN write_padded(Len(prefix) + num_digits + padding, aligned, prefix \o Fill(padding, specs.fill) \o digits)

(* <left padding><prefix><numeric padding><digits><right padding> *)
write_int(num_digits, prefix, specs, digits) ==
  LET size == Len(prefix) + num_digits
      numeric == specs.align = "numeric"
      precise == ~numeric /\ specs.precision > num_digits
      padding == IF numeric /\ specs.width > size THEN specs.width - size
                 ELSE IF precise THEN specs.precision - num_digits ELSE 0
      aligned == [specs EXCEPT !.align = IF @ = "default" THEN "right" ELSE @]
  IN write_padded(size + padding, aligned,
                  prefix \o Fill(padding, IF precise THEN "0" ELSE specs.fill) \o digits)

(* The prefix that int_writer starts with. *)
Prefix(value, specs) ==
  IF is_negative(value) THEN <<"-">> ELSE IF specs.sign # "" THEN <<specs.sign>> ELSE <<>>

on_dec(n, prefix, specs) == write_int(count_digits(n), prefix, specs, format_decimal[n, 0, FALSE])

on_hex(n, prefix, specs) ==
  write_int(count_bit_digits[n, 4], IF specs.hash THEN prefix \o <<"0", specs.type>> ELSE prefix,
            specs, format_uint[n, 4, specs.type # "x"])

on_bin(n, prefix, specs) ==
  write_int(count_bit_digits[n, 1], IF specs.hash THEN prefix \o <<"0", specs.type>> ELSE prefix,
            specs, format_uint[n, 1, FALSE])

on_oct(n, prefix, specs) ==
  LET num_digits == count_bit_digits[n, 3] IN
  write_int(num_digits,
            IF specs.hash /\ specs.precision <= num_digits THEN Append(prefix, "0") ELSE prefix,
            specs, format_uint[n, 3, FALSE])

on_num(n, prefix, specs) ==
  LET num_digits == count_digits(n) IN
  write_int(num_digits + (num_digits - 1) \div 3, prefix, specs, format_decimal[n, 0, TRUE])

(* handle_int_type_spec with int_writer. *)
WriteInt(value, specs) ==
  LET n == Abs(value)
      prefix == Prefix(value, specs)
  IN CASE specs.type \in {"", "d"} -> Text(on_dec(n, prefix, specs))
       [] specs.type \in {"x", "X"} -> Text(on_hex(n, prefix, specs))
       [] specs.type \in {"b", "B"} -> Text(on_bin(n, prefix, specs))
       [] specs.type = "o" -> Text(on_oct(n, prefix, specs))
       [] specs.type = "n" -> Text(on_num(n, prefix, specs))
       [] OTHER -> Thrown

(* write_decimal, for a field without specs. *)
write_decimal(value) ==
  LET digits == format_decimal[Abs(value), 0, FALSE]
      sign == IF is_negative(value) THEN <<"-">> ELSE <<>>
  IN Text(reserve(Len(sign) + count_digits(Abs(value)), sign \o digits))
-----------------------------------------------------------------------------
(* Everything else. *)
write_str(chars, specs) ==
  LET size == IF specs.precision >= 0 /\ specs.precision < Len(chars) THEN specs.precision ELSE Len(chars)
  IN Text(write_padded(size, specs, SubSeq(chars, 1, size)))

write_pointer(value, specs) == WriteInt(value, [specs EXCEPT !.sign = "", !.hash = TRUE, !.type = "x"])

(* handle_char_specs: a char with another type is a number. *)
WriteChar(arg, specs) ==
  IF specs.type \notin {"", "c"} THEN WriteInt(arg.value, specs)
  ELSE IF specs.align = "numeric" \/ specs.sign # "" \/ specs.hash THEN Thrown
  ELSE Text(write_padded(1, specs, arg.chars))

WriteBool(arg, specs) ==
  IF specs.type # "" THEN WriteInt(arg.value, specs) ELSE write_str(arg.chars, specs)

(* arg_formatter_base's operators, for a field with specs and for one without. *)
WriteArg(arg, specs) ==
  CASE arg.kind = "int" -> WriteInt(arg.value, specs)
    [] arg.kind = "bool" -> WriteBool(arg, specs)
    [] arg.kind = "char" -> WriteChar(arg, specs)
    [] arg.kind = "string" -> IF specs.type \in {"", "s"} THEN write_str(arg.chars, specs) ELSE Thrown
    [] arg.kind = "cstring" /\ specs.type = "p" -> write_pointer(arg.value, specs)
    [] arg.kind = "cstring" /\ specs.type # "p" ->
         IF specs.type \in {"", "s"} /\ arg.value # 0 THEN write_str(arg.chars, specs) ELSE Thrown
    [] arg.kind = "pointer" -> IF specs.type \in {"", "p"} THEN write_pointer(arg.value, specs) ELSE Thrown

WritePlain(arg) ==
  CASE arg.kind = "int" -> write_decimal(arg.value)
    [] arg.kind \in {"bool", "char", "string"} -> Text(reserve(Len(arg.chars), arg.chars))
    [] arg.kind = "cstring" -> IF arg.value = 0 THEN Thrown ELSE Text(reserve(Len(arg.chars), arg.chars))
    [] arg.kind = "pointer" -> write_pointer(arg.value, NoSpecs)
=============================================================================
