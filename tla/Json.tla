-------------------------------- MODULE Json --------------------------------
(***************************************************************************)
(* The JSON reader and writer: src/src/json.cpp.                           *)
(*                                                                         *)
(* A text is a sequence of bytes.  A value is what JsonValue holds: the    *)
(* lexeme of a number, the bytes of a string, the items of an array, the   *)
(* fields of an object in order.  A parser's state is the position it has  *)
(* reached, 0 once it has failed, the number of values it has begun, and   *)
(* the value it returns.                                                   *)
(***************************************************************************)
EXTENDS Integers, Sequences, FiniteSets, SequencesExt

\* The bounds of struct Limits on a text are passed as bounds, [depth, nodes,
\* string, bytes].

Whitespace == {9, 10, 13, 32}
Quote == 34
Escape == 92
IsDigit(c) == c \in 48..57

Null == [type |-> "null"]
make_boolean(b) == [type |-> "boolean", value |-> b]
make_number_lexeme(lexeme) == [type |-> "number", lexeme |-> lexeme]
make_string(s) == [type |-> "string", text |-> s]
make_array(items) == [type |-> "array", items |-> items]
make_object(fields) == [type |-> "object", fields |-> fields]

-----------------------------------------------------------------------------
\* UTF-8.
append_utf8(c) ==
    CASE c < 128 -> <<c>>
      [] c \in 128..2047 -> <<192 + c \div 64, 128 + (c % 64)>>
      [] c \in 2048..65535 -> <<224 + c \div 4096, 128 + ((c \div 64) % 64), 128 + (c % 64)>>
      [] OTHER -> <<240 + c \div 262144, 128 + ((c \div 4096) % 64), 128 + ((c \div 64) % 64),
                    128 + (c % 64)>>

\* How many bytes follow a first byte, and the least code point that needs them.
Extra(byte) ==
    CASE byte < 128 -> 0 [] byte \in 192..223 -> 1 [] byte \in 224..239 -> 2
      [] byte \in 240..247 -> 3 [] OTHER -> -1

CodePoint(s, i, extra) ==
    LET upto[k \in 0..extra] ==
            IF k = 0 THEN s[i] % (2 ^ (6 - extra)) ELSE upto[k - 1] * 64 + (s[i + k] % 64)
    IN  upto[extra]

Scalar(c, extra) ==
    /\ c >= <<128, 2048, 65536>>[extra]
    /\ c <= 1114111 /\ c \notin 55296..57343

RECURSIVE ValidFrom(_, _)
ValidFrom(s, i) ==
    LET extra == Extra(s[i])
    IN  \/ i > Len(s)
        \/ extra = 0 /\ ValidFrom(s, i + 1)
        \/ /\ extra > 0 /\ i + extra <= Len(s)
           /\ \A k \in 1..extra : s[i + k] \div 64 = 2
           /\ Scalar(CodePoint(s, i, extra), extra)
           /\ ValidFrom(s, i + extra + 1)

is_valid_utf8(s) == ValidFrom(s, 1)

-----------------------------------------------------------------------------
\* Reading.
peek(s, i) == IF i \in 1..Len(s) THEN s[i] ELSE 0

\* The first position from i on with a byte that is not in the set.
After(s, i, set) ==
    CHOOSE j \in i..Len(s) + 1 : /\ \A k \in i..j - 1 : s[k] \in set
                                 /\ j = Len(s) + 1 \/ s[j] \notin set
skip_whitespace(s, i) == After(s, i, Whitespace)
SkipDigits(s, i) == IF IsDigit(peek(s, i)) THEN After(s, i, 48..57) ELSE 0

\* The position after a number, or 0.
IntegerPart(s, i) ==
    IF peek(s, i) = 48 THEN IF IsDigit(peek(s, i + 1)) THEN 0 ELSE i + 1
    ELSE SkipDigits(s, i)

FractionPart(s, i) == IF i > 0 /\ peek(s, i) = 46 THEN SkipDigits(s, i + 1) ELSE i

ExponentPart(s, i) ==
    IF i > 0 /\ peek(s, i) \in {69, 101}
    THEN SkipDigits(s, IF peek(s, i + 1) \in {43, 45} THEN i + 2 ELSE i + 1) ELSE i

parse_number(s, i) ==
    ExponentPart(s, FractionPart(s, IntegerPart(s, IF peek(s, i) = 45 THEN i + 1 ELSE i)))

hex_value(c) ==
    CASE c \in 48..57 -> c - 48 [] c \in 97..102 -> c - 87 [] c \in 65..70 -> c - 55
      [] OTHER -> -1

\* The value of four hexadecimal digits at i, or -1.
read_hex4(s, i) ==
    LET h(k) == hex_value(s[i + k])
    IN  IF i + 3 > Len(s) THEN -1
        ELSE IF \E k \in 0..3 : h(k) = -1 THEN -1
        ELSE h(0) * 4096 + h(1) * 256 + h(2) * 16 + h(3)

\* What an escape character stands for, or -1.
Unescaped(c) ==
    CASE c = 98 -> 8 [] c = 102 -> 12 [] c = 110 -> 10 [] c = 114 -> 13 [] c = 116 -> 9
      [] c \in {Quote, Escape, 47} -> c [] OTHER -> -1

\* The code point of an escape at i, after the u, and the position after it; -1
\* when there is none.
UnicodeEscape(s, i) ==
    LET high == read_hex4(s, i)
        low == read_hex4(s, i + 6)
    IN  IF high \in 55296..56319
        THEN IF peek(s, i + 4) = Escape /\ peek(s, i + 5) = 117 /\ low \in 56320..57343
             THEN [point |-> 65536 + (high - 55296) * 1024 + low - 56320, at |-> i + 10]
             ELSE [point |-> -1, at |-> 0]
        ELSE [point |-> IF high \in 56320..57343 THEN -1 ELSE high, at |-> i + 4]

\* The bytes of the string that goes on at i, and the position after it, or 0.
StringFailed == [text |-> <<>>, at |-> 0]

RECURSIVE StringFrom(_, _, _, _)
StringFrom(s, i, out, bounds) ==
    LET c == s[i]
        escaped == Unescaped(peek(s, i + 1))
        unicode == UnicodeEscape(s, i + 2)
    IN  IF Len(out) > bounds.string \/ i > Len(s) THEN StringFailed
        ELSE IF c = Quote
             THEN IF is_valid_utf8(out) THEN [text |-> out, at |-> i + 1] ELSE StringFailed
        ELSE IF c < 32 THEN StringFailed
        ELSE IF c # Escape THEN StringFrom(s, i + 1, Append(out, c), bounds)
        ELSE IF peek(s, i + 1) = 117
             THEN IF unicode.point = -1 THEN StringFailed
                  ELSE StringFrom(s, unicode.at, out \o append_utf8(unicode.point), bounds)
        ELSE IF escaped = -1 THEN StringFailed
        ELSE StringFrom(s, i + 2, Append(out, escaped), bounds)

parse_string(s, i, bounds) == StringFrom(s, i + 1, <<>>, bounds)

-----------------------------------------------------------------------------
Failure == [value |-> Null, at |-> 0, nodes |-> 0]
Parsed(value, at, nodes) == IF at = 0 THEN Failure ELSE [value |-> value, at |-> at, nodes |-> nodes]

Literals ==
    {[text |-> <<116, 114, 117, 101>>, value |-> make_boolean(TRUE)],
     [text |-> <<102, 97, 108, 115, 101>>, value |-> make_boolean(FALSE)],
     [text |-> <<110, 117, 108, 108>>, value |-> Null]}

consume_literal(s, i, literal, nodes) ==
    IF IsPrefix(literal.text, SubSeq(s, i, Len(s)))
    THEN Parsed(literal.value, i + Len(literal.text), nodes) ELSE Failure

RECURSIVE parse_value(_, _, _, _, _)

\* The rest of an array from its next item on, and of an object from its next
\* key.
RECURSIVE ItemsFrom(_, _, _, _, _, _)
ItemsFrom(s, i, items, depth, nodes, bounds) ==
    LET item == parse_value(s, skip_whitespace(s, i), depth + 1, nodes, bounds)
        next == skip_whitespace(s, item.at)
        more == Append(items, item.value)
    IN  IF item.at = 0 THEN Failure
        ELSE IF peek(s, next) = 44 THEN ItemsFrom(s, next + 1, more, depth, item.nodes, bounds)
        ELSE IF peek(s, next) = 93 THEN Parsed(make_array(more), next + 1, item.nodes)
        ELSE Failure

parse_array(s, i, depth, nodes, bounds) ==
    LET first == skip_whitespace(s, i + 1)
    IN  IF peek(s, first) = 93 THEN Parsed(make_array(<<>>), first + 1, nodes)
        ELSE ItemsFrom(s, first, <<>>, depth, nodes, bounds)

\* (LastKeyWins is a mutant: a key may come twice.)
LastKeyWins(fields, key) == FALSE
IsDuplicate(fields, key) == \E k \in DOMAIN fields : fields[k].key = key

RECURSIVE FieldsFrom(_, _, _, _, _, _)
FieldsFrom(s, i, fields, depth, nodes, bounds) ==
    LET start == skip_whitespace(s, i)
        key == parse_string(s, start, bounds)
        colon == skip_whitespace(s, key.at)
        value == parse_value(s, skip_whitespace(s, colon + 1), depth + 1, nodes, bounds)
        next == skip_whitespace(s, value.at)
        more == Append(fields, [key |-> key.text, value |-> value.value])
    IN  IF peek(s, start) # Quote THEN Failure
        ELSE IF key.at = 0 THEN Failure
        ELSE IF peek(s, colon) # 58 THEN Failure
        ELSE IF value.at = 0 \/ IsDuplicate(fields, key.text) THEN Failure
        ELSE IF peek(s, next) = 44 THEN FieldsFrom(s, next + 1, more, depth, value.nodes, bounds)
        ELSE IF peek(s, next) = 125 THEN Parsed(make_object(more), next + 1, value.nodes)
        ELSE Failure

parse_object(s, i, depth, nodes, bounds) ==
    LET first == skip_whitespace(s, i + 1)
    IN  IF peek(s, first) = 125 THEN Parsed(make_object(<<>>), first + 1, nodes)
        ELSE FieldsFrom(s, first, <<>>, depth, nodes, bounds)

parse_value(s, i, depth, nodes, bounds) ==
    LET c == peek(s, i)
        string == parse_string(s, i, bounds)
        number == parse_number(s, i)
    IN  IF depth > bounds.depth \/ nodes + 1 > bounds.nodes THEN Failure
        ELSE CASE c = 123 -> parse_object(s, i, depth, nodes + 1, bounds)
               [] c = 91 -> parse_array(s, i, depth, nodes + 1, bounds)
               [] c = Quote -> Parsed(make_string(string.text), string.at, nodes + 1)
               [] c = 45 \/ IsDigit(c) ->
                      Parsed(make_number_lexeme(SubSeq(s, i, number - 1)), number, nodes + 1)
               [] \E l \in Literals : c = l.text[1] ->
                      consume_literal(s, i, CHOOSE l \in Literals : c = l.text[1], nodes + 1)
               [] OTHER -> Failure

\* JsonValue::parse: the parser's last state, failed when text is left over.
parse(s, bounds) ==
    LET read == parse_value(s, skip_whitespace(s, 1), 0, 0, bounds)
    IN  IF Len(s) > bounds.bytes \/ read.at = 0 THEN Failure
        ELSE IF skip_whitespace(s, read.at) <= Len(s) THEN Failure ELSE read

-----------------------------------------------------------------------------
\* Writing.
hex_digit(n) == IF n < 10 THEN 48 + n ELSE 87 + n

short_escape(c) ==
    CASE c = 8 -> 98 [] c = 12 -> 102 [] c = 10 -> 110 [] c = 13 -> 114 [] c = 9 -> 116
      [] OTHER -> -1

EscapeByte(c) ==
    CASE c \in {Quote, Escape} -> <<Escape, c>>
      [] c < 32 /\ short_escape(c) # -1 -> <<Escape, short_escape(c)>>
      [] c < 32 /\ short_escape(c) = -1 ->
             <<Escape, 117, 48, 48, hex_digit(c \div 16), hex_digit(c % 16)>>
      [] OTHER -> <<c>>

escape_into(s) ==
    <<Quote>> \o FlattenSeq([i \in DOMAIN s |-> EscapeByte(s[i])]) \o <<Quote>>

NewLine(pretty, indent) ==
    IF pretty THEN <<10>> \o [i \in 1..indent |-> 32] ELSE <<>>

\* Parts between brackets, with commas.
Enclosed(open, parts, close, pretty, indent) ==
    <<open>> \o FlattenSeq([i \in DOMAIN parts |->
                  (IF i = 1 THEN <<>> ELSE <<44>>) \o NewLine(pretty, indent + 2) \o parts[i]])
    \o (IF parts = <<>> THEN <<>> ELSE NewLine(pretty, indent)) \o <<close>>

RECURSIVE dump_into(_, _, _)
dump_into(v, pretty, indent) ==
    CASE v.type = "null" -> <<110, 117, 108, 108>>
      [] v.type = "boolean" -> (CHOOSE l \in Literals : l.value = v).text
      [] v.type = "number" -> IF v.lexeme = <<>> THEN <<48>> ELSE v.lexeme
      [] v.type = "string" -> escape_into(v.text)
      [] v.type = "array" ->
             Enclosed(91, [i \in DOMAIN v.items |-> dump_into(v.items[i], pretty, indent + 2)],
                      93, pretty, indent)
      [] v.type = "object" ->
             Enclosed(123, [i \in DOMAIN v.fields |->
                               escape_into(v.fields[i].key) \o <<58>>
                               \o (IF pretty THEN <<32>> ELSE <<>>)
                               \o dump_into(v.fields[i].value, pretty, indent + 2)],
                      125, pretty, indent)

dump(v, pretty) == dump_into(v, pretty, 0)
=============================================================================
