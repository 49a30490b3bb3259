----------------------------- MODULE JsonValues -----------------------------
(***************************************************************************)
(* The values of the enclave's JSON, and how hashes and numbers become text *)
(* and come back from it.                                                   *)
(*                                                                          *)
(* A text is a sequence of characters. The characters that dump and parser  *)
(* tell apart are themselves; HASH_TAG, the literals and each word that is  *)
(* only ever copied count as one character.                                 *)
(***************************************************************************)
EXTENDS Integers, Sequences

CONSTANT HashLength     \* _hash_length, 32 in the code

ASSUME JsonAssumption == HashLength \in Nat \ {0}

Null == [type |-> "null"]
Boolean(b) == [type |-> "bool", bool |-> b]
Integral(n) == [type |-> "int", int |-> n]
String(s) == [type |-> "string", string |-> s]
Hash(b) == [type |-> "hash", bytes |-> b]
Array(s) == [type |-> "array", list |-> s]
Object(f) == [type |-> "object", map |-> f]

HASH_TAG == "$&JT&$"
HexTable == <<"0", "1", "2", "3", "4", "5", "6", "7", "8", "9",
              "a", "b", "c", "d", "e", "f">>
UpperHex == <<"A", "B", "C", "D", "E", "F">>
HexDigits == {HexTable[i] : i \in 1..16}
Digits == {HexTable[i] : i \in 1..10}

(***************************************************************************)
(* Hashes                                                                   *)
(***************************************************************************)

\* Two characters per byte, the upper half of the byte first.
hexstring(b) ==
    [i \in 1..(2 * Len(b)) |->
        IF i % 2 = 1 THEN HexTable[(b[(i + 1) \div 2] \div 16) + 1]
                     ELSE HexTable[(b[i \div 2] % 16) + 1]]

\* Both cases of a letter count; anything else is 0.
char_to_int(c) ==
    IF c \in HexDigits
    THEN (CHOOSE i \in 1..16 : HexTable[i] = c) - 1
    ELSE IF \E i \in 1..6 : UpperHex[i] = c
    THEN (CHOOSE i \in 1..6 : UpperHex[i] = c) + 9
    ELSE 0

\* The empty sequence stands for NULL.
hex_string_to_bytes(s) ==
    IF Len(s) % 2 # 0
    THEN <<>>
    ELSE [i \in 1..(Len(s) \div 2) |->
             char_to_int(s[2 * i - 1]) * 16 + char_to_int(s[2 * i])]

\* A string whose tag is followed by whole bytes is a hash. What follows the
\* tag is a string without it otherwise.
Untagged(s) ==
    IF s = <<>> \/ Head(s) # HASH_TAG THEN String(s)
    ELSE LET bytes == hex_string_to_bytes(Tail(s))
         IN  IF bytes = <<>> THEN String(Tail(s))
             ELSE Hash(SubSeq(bytes, 1, HashLength))

(***************************************************************************)
(* Numbers                                                                  *)
(***************************************************************************)

Decimal(n) ==
    LET digits[m \in 0..n] ==
            IF m < 10 THEN <<HexTable[m + 1]>>
            ELSE Append(digits[m \div 10], HexTable[(m % 10) + 1])
    IN  digits[n]

to_string(n) == IF n < 0 THEN <<"-">> \o Decimal(-n) ELSE Decimal(n)

\* How many digits a text begins with.
Leading(s) ==
    CHOOSE k \in 0..Len(s) :
        /\ \A i \in 1..k : s[i] \in Digits
        /\ k < Len(s) => s[k + 1] \notin Digits

\* The value of the digits a text begins with.
Value(s) ==
    LET value[k \in 0..Leading(s)] ==
            IF k = 0 THEN 0 ELSE 10 * value[k - 1] + char_to_int(s[k])
    IN  value[Leading(s)]

stol(s) == IF Head(s) = "-" THEN -Value(Tail(s)) ELSE Value(s)
=============================================================================
