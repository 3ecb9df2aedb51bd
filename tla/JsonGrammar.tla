---------------------------- MODULE JsonGrammar ----------------------------
(***************************************************************************)
(* What a JSON text is, by the grammar and not by the way it is read: the  *)
(* reference for module Json.  A text is looked at as a whole, and is of a *)
(* form when it can be cut into parts that are.                            *)
(***************************************************************************)
EXTENDS Json

Cut(s, from, to) == SubSeq(s, from, to)
OnlyOf(s, set) == \A i \in DOMAIN s : s[i] \in set

\* Without the whitespace around it.
Stripped(s) ==
    LET solid == {i \in DOMAIN s : s[i] \notin Whitespace}
    IN  IF solid = {} THEN <<>>
        ELSE Cut(s, CHOOSE i \in solid : \A j \in solid : i <= j,
                    CHOOSE i \in solid : \A j \in solid : j <= i)

-----------------------------------------------------------------------------
Numerals(s) == s # <<>> /\ OnlyOf(s, 48..57)

IsInteger(s) == Numerals(s) /\ (Len(s) = 1 \/ s[1] # 48)
IsFraction(s) == s = <<>> \/ (s[1] = 46 /\ Numerals(Tail(s)))
IsExponent(s) ==
    \/ s = <<>>
    \/ /\ s[1] \in {69, 101}
       /\ \/ Numerals(Tail(s))
          \/ Len(s) > 1 /\ s[2] \in {43, 45} /\ Numerals(Cut(s, 3, Len(s)))

IsNumber(s) ==
    LET u == IF s # <<>> /\ s[1] = 45 THEN Tail(s) ELSE s
    IN  \E a \in 1..Len(u) : \E b \in a..Len(u) :
            /\ IsInteger(Cut(u, 1, a)) /\ IsFraction(Cut(u, a + 1, b))
            /\ IsExponent(Cut(u, b + 1, Len(u)))

-----------------------------------------------------------------------------
\* The well-formed UTF-8 byte sequences of the Unicode standard.
Tails == 128..191
WellFormedPoints ==
    {<<0..127>>, <<194..223, Tails>>, <<{224}, 160..191, Tails>>, <<225..236, Tails, Tails>>,
     <<{237}, 128..159, Tails>>, <<238..239, Tails, Tails>>, <<{240}, 144..191, Tails, Tails>>,
     <<241..243, Tails, Tails, Tails>>, <<{244}, 128..143, Tails, Tails>>}

RECURSIVE IsUtf8(_)
IsUtf8(s) ==
    \/ s = <<>>
    \/ \E p \in WellFormedPoints :
           /\ Len(p) <= Len(s) /\ \A i \in DOMAIN p : s[i] \in p[i]
           /\ IsUtf8(Cut(s, Len(p) + 1, Len(s)))

\* The parts of a string: a character, a short escape, a code unit that is no
\* surrogate, a pair of surrogates.
Hexadecimal == 48..57 \cup 65..70 \cup 97..102
IsUnit(s) == Len(s) = 6 /\ s[1] = 92 /\ s[2] = 117 /\ OnlyOf(Cut(s, 3, 6), Hexadecimal)
IsSurrogate(s, third) == s[3] \in {68, 100} /\ s[4] \in third
High == {56, 57, 65, 66, 97, 98}
Low == {67, 68, 69, 70, 99, 100, 101, 102}

IsPart(s) ==
    \/ Len(s) = 1 /\ s[1] >= 32 /\ s[1] \notin {34, 92}
    \/ Len(s) = 2 /\ s[1] = 92 /\ s[2] \in {34, 92, 47, 98, 102, 110, 114, 116}
    \/ IsUnit(s) /\ ~ IsSurrogate(s, High \cup Low)
    \/ /\ Len(s) = 12 /\ IsUnit(Cut(s, 1, 6)) /\ IsUnit(Cut(s, 7, 12))
       /\ IsSurrogate(Cut(s, 1, 6), High) /\ IsSurrogate(Cut(s, 7, 12), Low)

RECURSIVE AreParts(_)
AreParts(s) ==
    \/ s = <<>>
    \/ \E n \in {1, 2, 6, 12} : n <= Len(s) /\ IsPart(Cut(s, 1, n)) /\ AreParts(Cut(s, n + 1, Len(s)))

IsString(s) ==
    /\ Len(s) >= 2 /\ s[1] = 34 /\ s[Len(s)] = 34
    /\ AreParts(Cut(s, 2, Len(s) - 1)) /\ IsUtf8(Cut(s, 2, Len(s) - 1))

-----------------------------------------------------------------------------
RECURSIVE IsValue(_)
IsElement(s) == IsValue(Stripped(s))

RECURSIVE AreElements(_)
AreElements(s) ==
    \/ IsElement(s)
    \/ \E k \in DOMAIN s : s[k] = 44 /\ IsElement(Cut(s, 1, k - 1)) /\ AreElements(Cut(s, k + 1, Len(s)))

Unbounded == [depth |-> 1000, nodes |-> 1000, string |-> 1000, bytes |-> 1000]
KeyOf(s) == parse_string(Stripped(s), 1, Unbounded).text

\* Members whose keys are none of the given ones, and all different.
RECURSIVE AreMembers(_, _)
AreMembers(s, keys) ==
    \E c \in DOMAIN s :
        /\ s[c] = 58 /\ IsString(Stripped(Cut(s, 1, c - 1)))
        /\ LET key == KeyOf(Cut(s, 1, c - 1))
           IN  /\ key \notin keys
               /\ \/ IsElement(Cut(s, c + 1, Len(s)))
                  \/ \E k \in c + 1..Len(s) :
                         /\ s[k] = 44 /\ IsElement(Cut(s, c + 1, k - 1))
                         /\ AreMembers(Cut(s, k + 1, Len(s)), keys \cup {key})

IsValue(s) ==
    \/ \E l \in Literals : s = l.text
    \/ IsNumber(s)
    \/ IsString(s)
    \/ /\ Len(s) >= 2 /\ s[1] = 91 /\ s[Len(s)] = 93
       /\ LET inner == Cut(s, 2, Len(s) - 1) IN OnlyOf(inner, Whitespace) \/ AreElements(inner)
    \/ /\ Len(s) >= 2 /\ s[1] = 123 /\ s[Len(s)] = 125
       /\ LET inner == Cut(s, 2, Len(s) - 1) IN OnlyOf(inner, Whitespace) \/ AreMembers(inner, {})

IsDocument(s) == IsElement(s)
=============================================================================
