------------------------------- MODULE Codec -------------------------------
(***************************************************************************)
(* The canonical encoding and the codec of the records in the store:       *)
(* src/src/canonical.cpp, src/src/codec.cpp, and the identities computed   *)
(* over the same encoding in observed.cpp, compare.cpp and finding.cpp.    *)
(*                                                                         *)
(* A payload is the sequence of what the writer appended, each with its    *)
(* width in bytes, and a fault is a whole number of them; what a reader    *)
(* that has lost its place would make of the bytes is not modelled, and    *)
(* take() then fails.  Every record type has two layouts, the fields in    *)
(* the order encode() writes them and in the order its decoder reads and   *)
(* bounds them.  A digest stands for itself: it is what it was computed    *)
(* over.                                                                   *)
(***************************************************************************)
EXTENDS Integers, Sequences, FiniteSets, SequencesExt

CONSTANTS Limits,  \* the fields of pathobs::Limits that a decoder applies
          None     \* no record

-----------------------------------------------------------------------------
\* The forms a field may have.
Each(form, names) == [i \in DOMAIN names |-> [form |-> form, name |-> names[i]]]
AtMost(form, max, names) ==
    [i \in DOMAIN names |-> [form |-> form, name |-> names[i], max |-> max]]
Items(name, max, layout) ==
    <<[form |-> "items", name |-> name, max |-> max, layout |-> layout]>>
Tag(text) == <<[form |-> "tag", text |-> text]>>

\* For a writer, which has no bounds.
All(name, layout) == Items(name, None, layout)

\* An identity, an instant and a digest are one opaque value of that width.
Width == [u8 |-> 1, u64 |-> 8, i64 |-> 8, digest |-> 32]

Appended(width, v) == <<[width |-> width, value |-> v]>>

\* CanonicalWriter::u32(), of which count() is one: least byte first.
LittleEndian(n) == [i \in 1..4 |-> (n \div 256 ^ (i - 1)) % 256]
WriteU32(n) == Appended(4, LittleEndian(n))

\* CanonicalWriter::text(), bytes() and boolean().
WriteText(v) == WriteU32(Len(v)) \o IF v = "" THEN <<>> ELSE Appended(Len(v), v)
WriteBoolean(b) == Appended(1, IF b THEN 1 ELSE 0)

RECURSIVE Encode(_, _)

EncodeField(f, r) ==
    CASE f.form = "tag" -> WriteText(f.text)
      [] f.form = "text" -> WriteText(r[f.name])
      [] f.form = "boolean" -> WriteBoolean(r[f.name])
      [] f.form = "maybe" -> WriteBoolean(r[f.name] # 0) \o Appended(8, r[f.name])
      [] f.form = "u32" -> WriteU32(r[f.name])
      [] f.form = "digest_id" -> WriteU32(32) \o Appended(32, r[f.name])
      [] f.form = "items" -> WriteU32(Len(r[f.name])) \o
             FlattenSeq([i \in DOMAIN r[f.name] |-> Encode(f.layout, r[f.name][i])])
      [] OTHER -> Appended(Width[f.form], r[f.name])

Encode(layout, r) ==
    FlattenSeq([i \in DOMAIN layout |-> EncodeField(layout[i], r)])

-----------------------------------------------------------------------------
\* CanonicalReader: what was read, and what is left.
Failed == [ok |-> FALSE, value |-> None, rest |-> <<>>]

take(s, width) ==
    IF width = 0 THEN [ok |-> TRUE, value |-> "", rest |-> s]
    ELSE IF s = <<>> \/ Head(s).width # width THEN Failed
    ELSE [ok |-> TRUE, value |-> Head(s).value, rest |-> Tail(s)]

\* CanonicalReader::u32().
ReadU32(s) ==
    LET read == take(s, 4)
        b == read.value
    IN  IF read.ok
        THEN [read EXCEPT !.value = b[1] + 256 * (b[2] + 256 * (b[3] + 256 * b[4]))] ELSE Failed

\* count(), boolean() and the range checks of the decoders.
UpTo(read, max) == IF read.ok /\ read.value > max THEN Failed ELSE read

ReadText(s, max) ==
    LET length == UpTo(ReadU32(s), max)
    IN  IF length.ok THEN take(length.rest, length.value) ELSE Failed

ReadBoolean(s) ==
    LET byte == UpTo(take(s, 1), 1)
    IN  IF byte.ok THEN [byte EXCEPT !.value = (@ = 1)] ELSE Failed

\* read_maybe_strong(): an optional identity that is absent is 0, and is there
\* all the same.
ReadMaybe(s) ==
    LET present == ReadBoolean(s)
        raw == take(present.rest, 8)
    IN  IF ~ present.ok \/ ~ raw.ok THEN Failed
        ELSE IF present.value THEN raw ELSE [raw EXCEPT !.value = 0]

RECURSIVE Decode(_, _)

ReadItem(acc, layout) ==
    LET item == Decode(layout, acc.rest)
    IN  IF ~ acc.ok \/ ~ item.ok THEN Failed
        ELSE [item EXCEPT !.value = Append(acc.value, @)]

ReadItems(f, s) ==
    LET count == UpTo(ReadU32(s), f.max)
    IN  IF ~ count.ok THEN Failed
        ELSE FoldLeft(ReadItem, [count EXCEPT !.value = <<>>],
                      [i \in 1..count.value |-> f.layout])

Read(f, s) ==
    CASE f.form = "text" -> ReadText(s, f.max)
      [] f.form = "boolean" -> ReadBoolean(s)
      [] f.form = "maybe" -> ReadMaybe(s)
      [] f.form = "digest_id" ->
             LET length == UpTo(ReadU32(s), 32) IN take(length.rest, length.value)
      [] f.form = "items" -> ReadItems(f, s)
      [] f.form = "u32" -> ReadU32(s)
      [] f.form = "code" -> UpTo(take(s, 1), f.max)
      [] OTHER -> take(s, Width[f.form])

ReadField(acc, f) ==
    LET tag == ReadText(acc.rest, 64)
        read == Read(f, acc.rest)
    IN  IF ~ acc.ok THEN acc
        ELSE IF f.form = "tag"
             THEN IF tag.ok /\ tag.value = f.text
                  THEN [acc EXCEPT !.rest = tag.rest] ELSE Failed
        ELSE IF read.ok
             THEN [read EXCEPT !.value = acc.value @@ (f.name :> @)] ELSE Failed

Decode(layout, s) ==
    FoldLeft(ReadField, [ok |-> TRUE, value |-> <<>>, rest |-> s], layout)
=============================================================================
