------------------------------ MODULE MCTexts ------------------------------
(***************************************************************************)
(* Inputs for Texts: fields with known and unknown ids of all types, a pad *)
(* specification with a width beyond the limit, both braces, times on both *)
(* sides of a change of the time zone, and messages that come late.        *)
(***************************************************************************)
EXTENDS Texts

Specs ==
  {[width |-> w, fill |-> f, align |-> a, sign |-> sg, hash |-> h, precision |-> p, type |-> ty] :
     w \in {0, 3, 8}, f \in {"*", "0"}, a \in {"default", "left", "right", "center", "numeric"},
     sg \in {"", "+", " "}, h \in BOOLEAN, p \in {-1, 4}, ty \in {"", "x", "X", "b", "o", "n", "c", "s", "p"}}

Args ==
  {W!Arg("int", v, <<>>) : v \in {-536870912, -1000, -7, 0, 8, 9, 10, 99, 100, 999, 9999, 10000, 999999, 1000000, 100000000, 536870911}}
  \cup {W!Arg("bool", 1, <<"t", "r", "u", "e">>), W!Arg("char", 97, <<"a">>), W!Arg("string", 0, <<>>),
        W!Arg("string", 0, <<"a", "b", "c", "d", "e">>), W!Arg("cstring", 0, <<>>),
        W!Arg("cstring", 16, <<"a", "b">>), W!Arg("pointer", 4096, <<>>)}

Fields == [arg : Args, specs : Specs]

Inputs ==
  [pattern |-> {"%", "-", "=", "9", "v", "?", "^"},
   format |-> {"{", "}", ":", "1", "0", "<", "."},
   field |-> Fields]

Lengths == [pattern |-> 6, format |-> 6, field |-> 1]

FieldsOfPeer ==
  [client |-> {Field(1, "I64", 0), Field(1, "I64", 1), Field(1, "STRING", 1), Field(2, "I16", 1), Field(3, "I64", 1)},
   server |-> {Field(0, "BOOL", 0), Field(0, "BOOL", 1), Field(0, "I16", 1), Field(1, "BOOL", 1)}]

SummerTime(sec) == IF sec < 15 THEN 1 ELSE 2

Line1 == [name |-> 2, level |-> 7, wday |-> 3, mon |-> 8, mday |-> 5, nanos |-> 5000, thread |-> 4, pid |-> 3,
          payload |-> 20, source |-> TRUE, file |-> 9, line |-> 2]
Line2 == [name |-> 0, level |-> 4, wday |-> 0, mon |-> 0, mday |-> 25, nanos |-> 999999999, thread |-> 1, pid |-> 5,
          payload |-> 0, source |-> FALSE, file |-> 0, line |-> 0]

Lines == {Line1, Line2}
NoOrOne == {0, 1}
=============================================================================
