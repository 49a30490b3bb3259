-------------------------------- MODULE Json --------------------------------
(***************************************************************************)
(* The JSON of the enclave: the text of a value (dump) and the parser, of   *)
(* which there are two copies, one for strings and one for bytes.           *)
(*                                                                          *)
(* A definition introduced as a Variant is a mistaken form of the one that  *)
(* follows it; no specification uses it.                                    *)
(***************************************************************************)
EXTENDS JsonValues, SequencesExt

Spaces == {" ", "\n"}

\* What the escaped characters are written as. \b, \f, \r and \t go the way of
\* the newline.
Escapes == "\"" :> "\"" @@ "\\" :> "\\" @@ "\n" :> "n"

json_escape(s) ==
    FlattenSeq([i \in DOMAIN s |->
        IF s[i] \in DOMAIN Escapes THEN <<"\\", Escapes[s[i]]>> ELSE <<s[i]>>])

AsString(v) ==
    CASE v.type = "string" -> json_escape(v.string)
      [] v.type = "hash" -> hexstring(v.bytes)
      [] v.type = "int" -> to_string(v.int)
      [] OTHER -> <<>>

ToInt(v) == IF v.type = "int" THEN v.int ELSE 0

hasKey(v, key) == v.type = "object" /\ key \in DOMAIN v.map

\* A member that is not there is Null.
Member(v, key) == IF hasKey(v, key) THEN v.map[key] ELSE Null

size(v) ==
    CASE v.type = "object" -> Cardinality(DOMAIN v.map)
      [] v.type = "array" -> Len(v.list)
      [] v.type = "hash" -> HashLength
      [] OTHER -> -1

(***************************************************************************)
(* Texts                                                                    *)
(***************************************************************************)

Quoted(s) == <<"\"">> \o s \o <<"\"">>

\* The texts of a sequence, with one between any two.
Joined(texts, between) ==
    FlattenSeq([i \in DOMAIN texts |->
        IF i < Len(texts) THEN texts[i] \o between ELSE texts[i]])

\* Keys are written as they are. The padding is one space here.
RECURSIVE dump(_)
dump(v) ==
    CASE v.type = "null" -> <<"null">>
      [] v.type = "bool" -> <<IF v.bool THEN "true" ELSE "false">>
      [] v.type = "int" -> to_string(v.int)
      [] v.type = "string" -> Quoted(json_escape(v.string))
      [] v.type = "hash" -> Quoted(<<HASH_TAG>> \o hexstring(v.bytes))
      [] v.type = "array" ->
            <<"[">> \o Joined([i \in DOMAIN v.list |-> dump(v.list[i])],
                              <<",", " ">>) \o <<"]">>
      [] v.type = "object" ->
            LET keys == SetToSeq(DOMAIN v.map)
            IN  <<"{", "\n">>
                \o Joined([i \in DOMAIN keys |->
                             <<" ">> \o Quoted(keys[i]) \o <<" ", ":", " ">>
                             \o dump(v.map[keys[i]])], <<",", "\n">>)
                \o <<"\n", " ", "}">>

(***************************************************************************)
(* The parser                                                               *)
(*                                                                          *)
(* A parse gives the value and the place it stopped at. copy is "string" or *)
(* "bytes": the copies differ in parse_null alone.                          *)
(***************************************************************************)

Parsed(v, i) == [value |-> v, at |-> i]

\* The character at a place; the end of the text is none of the others.
At(t, i) == IF i <= Len(t) THEN t[i] ELSE "end"

RECURSIVE consume_ws(_, _)
consume_ws(t, i) == IF At(t, i) \in Spaces THEN consume_ws(t, i + 1) ELSE i

\* The rest of a string, val being what was read of it. The code reads on
\* behind the end of a text that ends in a string; Null stands for that.
RECURSIVE StringRest(_, _, _)
StringRest(t, i, val) ==
    LET c == At(t, i)
        e == At(t, i + 1)
        hex == SubSeq(t, i + 2, i + 5)
    IN  CASE c = "\"" -> Parsed(Untagged(val), i + 1)
          [] c = "end" -> Parsed(Null, i)
          [] c = "\\" /\ e = "u" ->
                IF Len(hex) = 4 /\ Range(hex) \subseteq HexDigits
                THEN StringRest(t, i + 6, val \o <<"\\", "u">> \o hex)
                ELSE Parsed(String(<<>>), i + 1)
          [] c = "\\" /\ e # "u" ->
                StringRest(t, i + 2, Append(val,
                    IF e \in Range(Escapes)
                    THEN CHOOSE d \in DOMAIN Escapes : Escapes[d] = e
                    ELSE IF e = "/" THEN "/" ELSE "\\"))
          [] OTHER -> StringRest(t, i + 1, Append(val, c))

parse_string(t, i) == StringRest(t, i + 1, <<>>)

\* A number needs a character behind it. Nothing in the enclave writes
\* fractions and exponents, which are left out.
RECURSIVE NumberRest(_, _, _)
NumberRest(t, i, val) ==
    LET c == At(t, i)
    IN  IF c \in Digits \cup {"-"} THEN NumberRest(t, i + 1, Append(val, c))
        ELSE IF c \in Spaces \cup {",", "]", "}"}
             THEN Parsed(Integral(stol(val)), i)
             ELSE Parsed(Null, i + 1)

parse_number(t, i) == NumberRest(t, i, <<>>)

parse_bool(t, i) == Parsed(Boolean(At(t, i) = "true"), i + 1)

\* The copy for bytes stays where it is: its condition is the wrong way round.
parse_null(copy, t, i) == Parsed(Null, IF copy = "string" THEN i + 1 ELSE i)

RECURSIVE parse_next(_, _, _), Members(_, _, _, _), Elements(_, _, _, _)

\* The rest of an object, behind { or a comma. One that is broken ends there.
Members(copy, t, i, map) ==
    LET key == parse_next(copy, t, i)
        colon == consume_ws(t, key.at)
        value == parse_next(copy, t, consume_ws(t, colon + 1))
        end == consume_ws(t, value.at)
        more == (AsString(key.value) :> value.value) @@ map
    IN  IF At(t, colon) # ":" THEN Parsed(Object(map), colon)
        ELSE CASE At(t, end) = "," -> Members(copy, t, end + 1, more)
               [] At(t, end) = "}" -> Parsed(Object(more), end + 1)
               [] OTHER -> Parsed(Object(more), end)

parse_object(copy, t, i) ==
    LET first == consume_ws(t, i + 1)
    IN  IF At(t, first) = "}" THEN Parsed(Object(<<>>), first + 1)
        ELSE Members(copy, t, first, <<>>)

\* The rest of an array. One that is broken is empty.
Elements(copy, t, i, list) ==
    LET next == parse_next(copy, t, i)
        end == consume_ws(t, next.at)
        more == Append(list, next.value)
    IN  CASE At(t, end) = "," -> Elements(copy, t, end + 1, more)
          [] At(t, end) = "]" -> Parsed(Array(more), end + 1)
          [] OTHER -> Parsed(Array(<<>>), end)

parse_array(copy, t, i) ==
    LET first == consume_ws(t, i + 1)
    IN  IF At(t, first) = "]" THEN Parsed(Array(<<>>), first + 1)
        ELSE Elements(copy, t, first, <<>>)

parse_next(copy, t, i) ==
    LET first == consume_ws(t, i)
        c == At(t, first)
    IN  CASE c = "[" -> parse_array(copy, t, first)
          [] c = "{" -> parse_object(copy, t, first)
          [] c = "\"" -> parse_string(t, first)
          [] c \in {"true", "false"} -> parse_bool(t, first)
          [] c = "null" -> parse_null(copy, t, first)
          [] c \in Digits \cup {"-"} -> parse_number(t, first)
          [] OTHER -> Parsed(Null, first)

Load(copy, t) == IF t = <<>> THEN Null ELSE parse_next(copy, t, 1).value
=============================================================================
