-------------------------- MODULE TransportProofs --------------------------
(***************************************************************************)
(* What receive() returns, for any frames, sizes and bounds (module        *)
(* FramedChannel), and what the success of a node says, for any nodes,     *)
(* programs, count and backlog (module ObservationSession).                *)
(***************************************************************************)
EXTENDS FramedChannel, ObservationSession, FiniteSetTheorems, SequenceTheorems, TLAPS

-----------------------------------------------------------------------------
\* Frames.  The argument follows where, in the part of the stream that has not
\* been read, the headers of the frames lie.

\* Of the frames s the headers of the first b have been read, and d pieces of
\* the last payload are due.  In the rest r of the stream the header of frame i
\* is at cut[i], and as much payload as it announces is before the next one.
Layout(cut, b, d, s, r) ==
    /\ cut \in [b + 1..Len(s) + 1 -> Nat]
    /\ cut[b + 1] = d + 1
    /\ cut[Len(s) + 1] = Len(r) + 1
    /\ \A i \in b + 1..Len(s) : cut[i + 1] = cut[i] + 1 + s[i].size /\ r[cut[i]] = Header(s[i])
    /\ \A i, j \in b + 1..Len(s) + 1 : i <= j => cut[i] <= cut[j]

-----------------------------------------------------------------------------
\* Sums, as they come up below.
LEMMA Shifted ==
    ASSUME NEW x \in Nat, NEW z \in Nat
    PROVE  (x + 1 + z) - 1 = (x - 1) + 1 + z /\ x + (1 + z) = x + 1 + z
  OBVIOUS

\* The units of a frame: its header and as many pieces as its size.
LEMMA EncodedFrame ==
    ASSUME NEW f \in Frames
    PROVE  /\ encode_frame(f) \in Seq(Units) /\ f.size \in Nat
           /\ Len(encode_frame(f)) = 1 + f.size
           /\ encode_frame(f)[1] = Header(f)
<1> DEFINE pieces == [i \in 1..f.size |-> Piece(f)]
<1>1. f.size \in Nat
  BY ChannelAssumption
<1>2. pieces \in Seq(Units) /\ Len(pieces) = f.size
  BY <1>1 DEF Units
<1>3. <<Header(f)>> \in Seq(Units) /\ Len(<<Header(f)>>) = 1
  BY DEF Units
<1> HIDE DEF pieces
<1> QED
  BY <1>1, <1>2, <1>3, ConcatProperties DEF encode_frame, pieces

\* The facts of a layout, with the bounds that follow from them.
LEMMA LayoutFacts ==
    ASSUME NEW s \in Seq(Frames), NEW r \in Seq(Units), NEW b \in 0..Len(s), NEW d \in Nat,
           NEW cut, Layout(cut, b, d, s, r)
    PROVE  /\ Len(s) \in Nat /\ Len(r) \in Nat /\ d <= Len(r)
           /\ \A i \in b + 1..Len(s) + 1 : cut[i] \in Nat /\ d + 1 <= cut[i]
           /\ \A i \in b + 1..Len(s) :
                 i \in 1..Len(s) /\ s[i] \in Frames /\ s[i].size \in Nat /\ cut[i] <= Len(r)
<1>1. Len(s) \in Nat /\ Len(r) \in Nat /\ \A i \in 1..Len(s) : s[i] \in Frames
  OBVIOUS
<1>2. ASSUME NEW i \in b + 1..Len(s) + 1
      PROVE  cut[i] \in Nat /\ d + 1 <= cut[i] /\ cut[i] <= Len(r) + 1
  <2>1. b + 1 \in b + 1..Len(s) + 1 /\ Len(s) + 1 \in b + 1..Len(s) + 1
        /\ b + 1 <= i /\ i <= Len(s) + 1
    BY <1>1
  <2> QED
    BY <2>1 DEF Layout
<1>3. ASSUME NEW i \in b + 1..Len(s)
      PROVE  i \in 1..Len(s) /\ s[i] \in Frames /\ s[i].size \in Nat /\ cut[i] <= Len(r)
  <2>1. i \in 1..Len(s) /\ s[i] \in Frames /\ s[i].size \in Nat
    BY <1>1, ChannelAssumption
  <2>2. i \in b + 1..Len(s) + 1 /\ i + 1 \in b + 1..Len(s) + 1
    BY <1>1
  <2>3. cut[i + 1] = cut[i] + 1 + s[i].size
    BY DEF Layout
  <2>4. cut[i] \in Nat /\ cut[i + 1] <= Len(r) + 1
    BY <1>2, <2>2
  <2>5. cut[i] <= Len(r)
    BY <1>1, <2>1, <2>3, <2>4
  <2> QED
    BY <2>1, <2>5
<1>4. d <= Len(r)
  <2>1. Len(s) + 1 \in b + 1..Len(s) + 1
    BY <1>1
  <2> QED
    BY <1>1, <1>2, <2>1
<1> QED
  BY <1>1, <1>2, <1>3, <1>4

\* A frame that the peer begins to write is behind the others.
LEMMA LayoutSend ==
    ASSUME NEW s \in Seq(Frames), NEW r \in Seq(Units), NEW f \in Frames,
           NEW b \in 0..Len(s), NEW d \in Nat, NEW cut, Layout(cut, b, d, s, r)
    PROVE  \E c : Layout(c, b, d, Append(s, f), r \o encode_frame(f))
<1> DEFINE t == Append(s, f)
           q == r \o encode_frame(f)
           n == Len(s)
           end == Len(r) + 2 + f.size
           c == [i \in b + 1..n + 2 |-> IF i = n + 2 THEN end ELSE cut[i]]
<1>1. /\ n \in Nat /\ Len(t) = n + 1 /\ t[n + 1] = f /\ \A i \in 1..n : t[i] = s[i]
      /\ Len(r) \in Nat /\ f.size \in Nat /\ b \in Nat /\ b <= n /\ end \in Nat
  BY EncodedFrame
<1>2. /\ Len(q) = Len(r) + 1 + f.size /\ q[Len(r) + 1] = Header(f)
      /\ \A i \in 1..Len(r) : q[i] = r[i]
  <2> DEFINE e == encode_frame(f)
  <2>1. e \in Seq(Units) /\ Len(e) = 1 + f.size /\ e[1] = Header(f)
    BY EncodedFrame
  <2> HIDE DEF e
  <2>2. Len(r \o e) = Len(r) + Len(e)
    BY <2>1, ConcatProperties
  <2>3. \A i \in 1..Len(r) + Len(e) : (r \o e)[i] = IF i <= Len(r) THEN r[i] ELSE e[i - Len(r)]
    BY <2>1, ConcatProperties
  <2>4. Len(r) + 1 \in 1..Len(r) + Len(e) /\ Len(r) + 1 - Len(r) = 1 /\ ~ Len(r) + 1 <= Len(r)
    BY <1>1, <2>1, SMTT(30)
  <2>5. (r \o e)[Len(r) + 1] = Header(f)
    BY <2>1, <2>3, <2>4
  <2>6. ASSUME NEW i \in 1..Len(r) PROVE (r \o e)[i] = r[i]
    <3>1. i \in 1..Len(r) + Len(e) /\ i <= Len(r)
      BY <1>1, <2>1
    <3> QED
      BY <2>3, <3>1
  <2>7. Len(r \o e) = Len(r) + 1 + f.size
    <3>1. Len(r) + (1 + f.size) = Len(r) + 1 + f.size
      BY <1>1, Shifted, Zenon
    <3> QED
      BY <2>1, <2>2, <3>1, Zenon
  <2> QED
    BY <2>5, <2>6, <2>7 DEF e
<1>3. /\ cut \in [b + 1..n + 1 -> Nat] /\ cut[b + 1] = d + 1 /\ cut[n + 1] = Len(r) + 1
      /\ \A i \in b + 1..n : cut[i + 1] = cut[i] + 1 + s[i].size /\ r[cut[i]] = Header(s[i])
      /\ \A i, j \in b + 1..n + 1 : i <= j => cut[i] <= cut[j]
  BY DEF Layout
<1>4. \A i \in b + 1..n : i \in 1..n /\ cut[i] \in 1..Len(r)
  <2> TAKE i \in b + 1..n
  <2>1. i \in 1..n /\ i \in b + 1..n + 1
    BY <1>1
  <2>2. cut[i] \in Nat /\ d + 1 <= cut[i] /\ cut[i] <= Len(r)
    BY <2>1, LayoutFacts
  <2> QED
    BY <1>1, <2>1, <2>2
<1>5. c = [i \in b + 1..n + 2 |-> IF i = n + 2 THEN end ELSE cut[i]]
  OBVIOUS
<1>6. end = Len(r) + 2 + f.size
  OBVIOUS
<1> HIDE DEF n, t, q, c, end
<1>7. end = Len(q) + 1
  BY <1>1, <1>2, <1>6, SMTT(30)
<1>8. /\ c \in [b + 1..n + 2 -> Nat] /\ c[n + 2] = end
      /\ \A i \in b + 1..n + 1 : c[i] = cut[i]
  BY <1>1, <1>3, <1>5
<1>9. ASSUME NEW i \in b + 1..n + 1
      PROVE  c[i + 1] = c[i] + 1 + t[i].size /\ q[c[i]] = Header(t[i])
  <2>1. CASE i = n + 1
    <3>1. c[n + 1] = Len(r) + 1 /\ i + 1 = n + 2
      BY <1>1, <1>3, <1>8, <2>1
    <3>2. c[i + 1] = Len(r) + 2 + f.size /\ c[i] = Len(r) + 1 /\ t[i] = f
      BY <1>1, <1>6, <1>8, <2>1, <3>1
    <3> QED
      BY <1>1, <1>2, <3>2
  <2>2. CASE i \in b + 1..n
    <3>1. i + 1 \in b + 1..n + 1 /\ i \in b + 1..n + 1
      BY <1>1, <2>2
    <3>2. c[i] = cut[i] /\ c[i + 1] = cut[i + 1] /\ t[i] = s[i] /\ q[cut[i]] = r[cut[i]]
      BY <1>1, <1>2, <1>4, <1>8, <2>2, <3>1
    <3> QED
      BY <1>3, <2>2, <3>2
  <2> QED
    BY <1>1, <2>1, <2>2
<1>10. ASSUME NEW i \in b + 1..n + 2, NEW j \in b + 1..n + 2, i <= j
       PROVE  c[i] <= c[j]
  <2>1. CASE j = n + 2
    <3>1. CASE i = n + 2
      BY <1>1, <1>8, <2>1, <3>1
    <3>2. CASE i \in b + 1..n + 1
      <4>1. n + 1 \in b + 1..n + 1 /\ i <= n + 1
        BY <1>1, <3>2
      <4>2. cut[i] <= Len(r) + 1 /\ cut[i] \in Nat
        BY <1>3, <3>2, <4>1
      <4> QED
        BY <1>1, <1>6, <1>8, <2>1, <3>2, <4>2, SMTT(30)
    <3> QED
      BY <1>1, <3>1, <3>2
  <2>2. CASE j \in b + 1..n + 1
    <3>1. i \in b + 1..n + 1
      BY <1>1, <1>10, <2>2
    <3> QED
      BY <1>3, <1>8, <1>10, <2>2, <3>1
  <2> QED
    BY <1>1, <2>1, <2>2
<1>11. c[b + 1] = d + 1 /\ b + 1 \in b + 1..n + 1
  BY <1>1, <1>3, <1>8
<1>12. Layout(c, b, d, t, q)
  <2>1. Len(t) + 1 = n + 2
    BY <1>1
  <2> QED
    BY <1>1, <1>7, <1>8, <1>9, <1>10, <1>11, <2>1 DEF Layout
<1> QED
  BY <1>12 DEF t, q

\* A piece of payload that is read moves the headers forward by one.
LEMMA LayoutPiece ==
    ASSUME NEW s \in Seq(Frames), NEW r \in Seq(Units), NEW b \in 0..Len(s),
           NEW d \in Nat \ {0}, NEW cut, Layout(cut, b, d, s, r)
    PROVE  \E c : Layout(c, b, d - 1, s, Tail(r))
<1> DEFINE n == Len(s)
           q == Tail(r)
           c == [i \in b + 1..n + 1 |-> cut[i] - 1]
<1>1. /\ n \in Nat /\ b \in Nat /\ b <= n /\ Len(r) \in Nat \ {0} /\ d - 1 \in Nat
      /\ \A i \in b + 1..n + 1 : cut[i] \in Nat /\ 2 <= cut[i]
      /\ \A i \in b + 1..n : s[i].size \in Nat /\ cut[i] <= Len(r)
  BY LayoutFacts
<1>2. Len(q) = Len(r) - 1 /\ \A k \in 2..Len(r) : q[k - 1] = r[k]
  BY <1>1
<1>3. /\ cut[b + 1] = d + 1 /\ cut[n + 1] = Len(r) + 1
      /\ \A i \in b + 1..n : cut[i + 1] = cut[i] + 1 + s[i].size /\ r[cut[i]] = Header(s[i])
      /\ \A i, j \in b + 1..n + 1 : i <= j => cut[i] <= cut[j]
  BY DEF Layout
<1>4. \A i \in b + 1..n + 1 : c[i] = cut[i] - 1
  OBVIOUS
<1>5. c \in [b + 1..n + 1 -> Nat]
  BY <1>1
<1> HIDE DEF n, q, c
<1>6. b + 1 \in b + 1..n + 1 /\ n + 1 \in b + 1..n + 1
  BY <1>1
<1>7. c[b + 1] = d - 1 + 1 /\ c[n + 1] = Len(q) + 1
  <2>1. c[b + 1] = cut[b + 1] - 1 /\ c[n + 1] = cut[n + 1] - 1
    BY <1>4, <1>6
  <2>2. c[b + 1] = d + 1 - 1 /\ c[n + 1] = Len(r) + 1 - 1
    BY <1>3, <2>1
  <2> QED
    BY <1>1, <1>2, <2>2
<1>8. ASSUME NEW i \in b + 1..n
      PROVE  c[i + 1] = c[i] + 1 + s[i].size /\ q[c[i]] = Header(s[i])
  <2>1. i \in b + 1..n + 1 /\ i + 1 \in b + 1..n + 1
    BY <1>1
  <2>2. cut[i] \in 2..Len(r)
    BY <1>1, <2>1
  <2>3. c[i] = cut[i] - 1 /\ c[i + 1] = cut[i + 1] - 1 /\ q[cut[i] - 1] = r[cut[i]]
    BY <1>2, <1>4, <2>1, <2>2
  <2>4. cut[i + 1] = cut[i] + 1 + s[i].size /\ s[i].size \in Nat /\ r[cut[i]] = Header(s[i])
    BY <1>1, <1>3
  <2>5. c[i + 1] = c[i] + 1 + s[i].size
    <3>1. cut[i] \in Nat
      BY <1>1, <2>2
    <3>2. (cut[i] + 1 + s[i].size) - 1 = (cut[i] - 1) + 1 + s[i].size
      BY <2>4, <3>1, Shifted, Zenon
    <3> QED
      BY <2>3, <2>4, <3>2, Zenon
  <2> QED
    BY <2>3, <2>4, <2>5
<1>9. ASSUME NEW i \in b + 1..n + 1, NEW j \in b + 1..n + 1, i <= j
      PROVE  c[i] <= c[j]
  <2>1. c[i] = cut[i] - 1 /\ c[j] = cut[j] - 1 /\ cut[i] \in Nat /\ cut[j] \in Nat
    BY <1>1, <1>4
  <2>2. cut[i] <= cut[j]
    BY <1>3, <1>9
  <2> QED
    BY <2>1, <2>2
<1>10. Layout(c, b, d - 1, s, q)
  BY <1>5, <1>7, <1>8, <1>9 DEF Layout, n
<1> QED
  BY <1>10 DEF q

\* With no payload due, what is read next is the header of the next frame, and
\* its payload is due then.
LEMMA LayoutHeader ==
    ASSUME NEW s \in Seq(Frames), NEW r \in Seq(Units), r # <<>>, NEW b \in 0..Len(s),
           NEW cut, Layout(cut, b, 0, s, r)
    PROVE  /\ b + 1 \in 1..Len(s) /\ Head(r) = Header(s[b + 1])
           /\ \E c : Layout(c, b + 1, s[b + 1].size, s, Tail(r))
<1> DEFINE n == Len(s)
           q == Tail(r)
           c == [i \in b + 2..n + 1 |-> cut[i] - 1]
<1>1. /\ n \in Nat /\ b \in Nat /\ b <= n /\ Len(r) \in Nat \ {0}
      /\ \A i \in b + 1..n + 1 : cut[i] \in Nat /\ 1 <= cut[i]
      /\ \A i \in b + 1..n : s[i].size \in Nat /\ cut[i] <= Len(r)
  BY LayoutFacts, EmptySeq
<1>2. Len(q) = Len(r) - 1 /\ Head(r) = r[1] /\ \A k \in 2..Len(r) : q[k - 1] = r[k]
  BY <1>1
<1>3. /\ cut[b + 1] = 1 /\ cut[n + 1] = Len(r) + 1
      /\ \A i \in b + 1..n : cut[i + 1] = cut[i] + 1 + s[i].size /\ r[cut[i]] = Header(s[i])
      /\ \A i, j \in b + 1..n + 1 : i <= j => cut[i] <= cut[j]
  BY DEF Layout
<1>4. \A i \in b + 2..n + 1 : c[i] = cut[i] - 1
  OBVIOUS
<1>5. c = [i \in b + 2..n + 1 |-> cut[i] - 1]
  OBVIOUS
<1> HIDE DEF n, q, c
<1>6. b < n
  BY <1>1, <1>3
<1>7. /\ b + 1 \in b + 1..n /\ b + 1 \in 1..n /\ b + 2 \in b + 2..n + 1
      /\ \A i \in b + 2..n + 1 : i \in b + 1..n + 1
  BY <1>1, <1>6
<1>8. Head(r) = Header(s[b + 1])
  BY <1>2, <1>3, <1>7
<1>9. s[b + 1].size \in Nat /\ cut[b + 2] = 2 + s[b + 1].size
  <2>1. s[b + 1].size \in Nat /\ b + 1 + 1 = b + 2
    BY <1>1, <1>7
  <2>2. cut[b + 1 + 1] = cut[b + 1] + 1 + s[b + 1].size
    BY <1>3, <1>7
  <2>3. cut[b + 2] = 1 + 1 + s[b + 1].size
    BY <1>3, <2>1, <2>2
  <2> QED
    BY <2>1, <2>3
<1>10. ASSUME NEW i \in b + 2..n + 1
       PROVE  2 <= cut[i]
  <2>1. b + 2 \in b + 1..n + 1 /\ i \in b + 1..n + 1 /\ b + 2 <= i
    BY <1>1, <1>7
  <2>2. cut[b + 2] <= cut[i] /\ cut[i] \in Nat
    BY <1>1, <1>3, <2>1
  <2> QED
    BY <1>9, <2>2
<1>11. c \in [b + 2..n + 1 -> Nat]
  BY <1>1, <1>5, <1>7, <1>10
<1>12. c[b + 2] = s[b + 1].size + 1 /\ c[n + 1] = Len(q) + 1 /\ n + 1 \in b + 2..n + 1
  <2>1. n + 1 \in b + 2..n + 1
    BY <1>1, <1>6
  <2>2. c[b + 2] = cut[b + 2] - 1 /\ c[n + 1] = cut[n + 1] - 1
    BY <1>4, <1>7, <2>1
  <2>3. c[b + 2] = 2 + s[b + 1].size - 1 /\ c[n + 1] = Len(r) + 1 - 1
    BY <1>3, <1>9, <2>2
  <2> QED
    BY <1>1, <1>2, <1>9, <2>1, <2>3
<1>13. ASSUME NEW i \in b + 2..n
       PROVE  c[i + 1] = c[i] + 1 + s[i].size /\ q[c[i]] = Header(s[i])
  <2>1. i \in b + 2..n + 1 /\ i + 1 \in b + 2..n + 1 /\ i \in b + 1..n
    BY <1>1
  <2>2. cut[i] \in 2..Len(r)
    BY <1>1, <1>7, <1>10, <2>1
  <2>3. c[i] = cut[i] - 1 /\ c[i + 1] = cut[i + 1] - 1 /\ q[cut[i] - 1] = r[cut[i]]
    BY <1>2, <1>4, <2>1, <2>2
  <2>4. cut[i + 1] = cut[i] + 1 + s[i].size /\ s[i].size \in Nat /\ r[cut[i]] = Header(s[i])
    BY <1>1, <1>3, <2>1
  <2>5. c[i + 1] = c[i] + 1 + s[i].size
    <3>1. cut[i] \in Nat
      BY <1>1, <2>2
    <3>2. (cut[i] + 1 + s[i].size) - 1 = (cut[i] - 1) + 1 + s[i].size
      BY <2>4, <3>1, Shifted, Zenon
    <3> QED
      BY <2>3, <2>4, <3>2, Zenon
  <2> QED
    BY <2>3, <2>4, <2>5
<1>14. ASSUME NEW i \in b + 2..n + 1, NEW j \in b + 2..n + 1, i <= j
       PROVE  c[i] <= c[j]
  <2>1. c[i] = cut[i] - 1 /\ c[j] = cut[j] - 1 /\ cut[i] \in Nat /\ cut[j] \in Nat
    BY <1>1, <1>4, <1>7
  <2>2. cut[i] <= cut[j]
    BY <1>3, <1>7, <1>14
  <2> QED
    BY <2>1, <2>2
<1>15. Layout(c, b + 1, s[b + 1].size, s, q)
  <2>1. b + 1 + 1 = b + 2
    BY <1>1
  <2> QED
    BY <1>11, <1>12, <1>13, <1>14, <2>1 DEF Layout, n
<1> QED
  BY <1>7, <1>8, <1>15 DEF q, n

-----------------------------------------------------------------------------
\* What moves from the peer to the reader, without the flags.
StreamInv ==
    /\ sent \in Seq(Frames) /\ writing \in Seq(Units) /\ wire \in Seq(Units)
    /\ frame \in Frames /\ missing \in Nat /\ delivered \in Seq(Frames)

\* DeliveredIsPrefix, frame by frame.
Passes(f) == f.defect = "none" /\ f.size <= MaxFrame
PrefixInv ==
    /\ Len(delivered) <= Len(sent)
    /\ \A i \in 1..Len(delivered) : delivered[i] = sent[i] /\ Passes(delivered[i])

\* The frame whose payload is being read is the next one.
PayloadInv ==
    reader = "payload" =>
        /\ Len(delivered) < Len(sent) /\ frame = sent[Len(delivered) + 1]
        /\ frame.defect \in {"none", "checksum"} /\ frame.size <= MaxFrame
        /\ missing # 0

\* As long as the program goes on receiving, the reader is where it takes itself
\* to be: no header and no payload has been lost or read twice.
Receiving == reader # "idle" \/ outcome \in {"none", "frame"}
Begun == IF reader = "payload" THEN Len(delivered) + 1 ELSE Len(delivered)
Due == IF reader = "payload" THEN missing ELSE 0
LayoutInv == Receiving => \E cut : Layout(cut, Begun, Due, sent, wire \o writing)

ChannelInv == StreamInv /\ PrefixInv /\ PayloadInv /\ LayoutInv

\* A stream whose first unit is read.
LEMMA StreamRead ==
    ASSUME NEW w \in Seq(Units), w # <<>>, NEW x \in Seq(Units)
    PROVE  /\ w \o x \in Seq(Units) /\ w \o x # <<>> /\ Head(w \o x) = Head(w)
           /\ Tail(w \o x) = Tail(w) \o x /\ Tail(w) \in Seq(Units)
  OBVIOUS

\* A stream whose first unit is handed over stays as it is.
LEMMA StreamHandedOver ==
    ASSUME NEW w \in Seq(Units), NEW x \in Seq(Units), x # <<>>
    PROVE  /\ Append(w, Head(x)) \o Tail(x) = w \o x
           /\ Append(w, Head(x)) \in Seq(Units) /\ Tail(x) \in Seq(Units)
  OBVIOUS

\* The counts that a layout is about.
LEMMA BegunInRange ==
    ASSUME StreamInv, PrefixInv, PayloadInv
    PROVE  Begun \in 0..Len(sent) /\ Due \in Nat /\ Len(delivered) \in Nat /\ Len(sent) \in Nat
  BY DEF StreamInv, PrefixInv, PayloadInv, Begun, Due

\* A channel begins with nothing written.
LEMMA ChannelStarts == ChannelInit => ChannelInv
<1> SUFFICES ASSUME ChannelInit PROVE ChannelInv
  OBVIOUS
<1>1. StreamInv /\ PrefixInv /\ PayloadInv
  BY DEF ChannelInit, StreamInv, PrefixInv, PayloadInv
<1>2. LayoutInv
  <2>1. Layout([i \in 1..1 |-> 1], 0, 0, <<>>, <<>>)
    BY DEF Layout
  <2>2. Begun = 0 /\ Due = 0 /\ sent = <<>> /\ wire \o writing = <<>>
    BY DEF ChannelInit, Begun, Due
  <2> QED
    BY <2>1, <2>2 DEF LayoutInv
<1> QED
  BY <1>1, <1>2 DEF ChannelInv

\* The peer begins to write a frame.
LEMMA ChannelSend ==
    ASSUME ChannelInv, NEW f \in Frames, SendFrame(f)
    PROVE  ChannelInv'
<1> USE DEF ChannelInv
<1>1. StreamInv'
  BY EncodedFrame DEF StreamInv, SendFrame, readerVars
<1>2. PrefixInv' /\ PayloadInv'
  BY DEF StreamInv, PrefixInv, PayloadInv, SendFrame, readerVars
<1>3. LayoutInv'
  <2> SUFFICES ASSUME Receiving PROVE LayoutInv'
    BY DEF LayoutInv, Receiving, SendFrame, readerVars
  <2>1. PICK cut : Layout(cut, Begun, Due, sent, wire)
    BY DEF LayoutInv, StreamInv, SendFrame
  <2>2. \E c : Layout(c, Begun, Due, Append(sent, f), wire \o encode_frame(f))
    BY <2>1, LayoutSend, BegunInRange DEF StreamInv
  <2>3. Begun' = Begun /\ Due' = Due
    BY DEF Begun, Due, SendFrame, readerVars
  <2> QED
    BY <2>2, <2>3 DEF LayoutInv, SendFrame
<1> QED
  BY <1>1, <1>2, <1>3

\* The network moves a unit.
LEMMA ChannelTransmit == ChannelInv /\ Transmit => ChannelInv'
<1> SUFFICES ASSUME ChannelInv, Transmit PROVE ChannelInv'
  OBVIOUS
<1> USE DEF ChannelInv
<1>1. StreamInv' /\ (wire \o writing)' = wire \o writing
  BY StreamHandedOver DEF StreamInv, Transmit, readerVars
<1>2. PrefixInv' /\ PayloadInv'
  BY DEF PrefixInv, PayloadInv, Transmit, readerVars
<1>3. LayoutInv'
  BY <1>1 DEF LayoutInv, Receiving, Begun, Due, Transmit, readerVars
<1> QED
  BY <1>1, <1>2, <1>3

\* A reader that has given up receives no more.
LEMMA ChannelStopped ==
    ASSUME ChannelInv, StreamInv', reader' = "idle", outcome' \in {"violation", "closed"},
           UNCHANGED <<sent, delivered>>
    PROVE  ChannelInv'
  BY DEF ChannelInv, PrefixInv, PayloadInv, LayoutInv, Receiving

\* The reader takes the header that is due, and no other unit.
LEMMA ChannelReadHeader == ChannelInv /\ ReadHeader => ChannelInv'
<1> SUFFICES ASSUME ChannelInv, ReadHeader PROVE ChannelInv'
  OBVIOUS
<1> DEFINE n == Len(delivered)
           f == Head(wire).frame
<1>1. /\ StreamInv /\ PrefixInv /\ PayloadInv /\ LayoutInv
      /\ reader = "header" /\ wire # <<>> /\ wire' = Tail(wire) /\ UNCHANGED peerVars
  BY DEF ChannelInv, ReadHeader
<1>2. /\ n \in Nat /\ n \in 0..Len(sent) /\ Begun = n /\ Due = 0 /\ Receiving
  BY <1>1, BegunInRange DEF Begun, Due, Receiving
<1>3. PICK cut : Layout(cut, n, 0, sent, wire \o writing)
  BY <1>1, <1>2 DEF LayoutInv
<1>4. /\ wire \o writing \in Seq(Units) /\ wire \o writing # <<>>
      /\ Head(wire \o writing) = Head(wire) /\ Tail(wire \o writing) = (wire \o writing)'
      /\ wire' \in Seq(Units)
  BY <1>1, StreamRead DEF StreamInv, peerVars
<1>5. /\ n + 1 \in 1..Len(sent) /\ Head(wire) = Header(sent[n + 1])
      /\ \E c : Layout(c, n + 1, sent[n + 1].size, sent, (wire \o writing)')
  BY <1>1, <1>2, <1>3, <1>4, LayoutHeader DEF StreamInv
<1>6. /\ f = sent[n + 1] /\ Head(wire).kind = "header" /\ f \in Frames /\ f.size \in Nat
      /\ f.defect \in Defects
  BY <1>1, <1>5, ChannelAssumption DEF Header, StreamInv
<1> HIDE DEF n, f
<1>7. CASE Violated
  <2>1. StreamInv'
    BY <1>1, <1>4, <1>7 DEF StreamInv, Violated, peerVars
  <2> QED
    BY <1>1, <1>7, <2>1, ChannelStopped DEF Violated, Return, peerVars
<1>8. CASE /\ reader' = "payload" /\ frame' = f /\ missing' = f.size /\ f.size # 0
           /\ f.size <= MaxFrame /\ f.defect \in {"none", "checksum"}
           /\ UNCHANGED <<delivered, outcome>>
  <2>1. StreamInv'
    BY <1>1, <1>4, <1>6, <1>8 DEF StreamInv, peerVars
  <2>2. PrefixInv'
    BY <1>1, <1>8 DEF PrefixInv, peerVars
  <2>3. PayloadInv'
    BY <1>1, <1>2, <1>5, <1>6, <1>8 DEF PayloadInv, peerVars, n
  <2>4. Begun' = n + 1 /\ Due' = f.size /\ sent' = sent
    BY <1>1, <1>8 DEF Begun, Due, peerVars, n
  <2>5. LayoutInv'
    BY <1>5, <1>6, <2>4 DEF LayoutInv
  <2> QED
    BY <2>1, <2>2, <2>3, <2>5 DEF ChannelInv
<1>9. CASE /\ Return("frame") /\ delivered' = Append(delivered, f) /\ UNCHANGED <<frame, missing>>
           /\ f.size = 0 /\ f.size <= MaxFrame /\ f.defect = "none"
  <2>1. StreamInv'
    BY <1>1, <1>4, <1>6, <1>9 DEF StreamInv, peerVars
  <2>2. PrefixInv'
    BY <1>1, <1>2, <1>5, <1>6, <1>9 DEF PrefixInv, Passes, StreamInv, peerVars, n
  <2>3. PayloadInv'
    BY <1>9 DEF PayloadInv, Return
  <2>4. Begun' = n + 1 /\ Due' = f.size /\ sent' = sent
    BY <1>1, <1>9 DEF Begun, Due, peerVars, n, Return, StreamInv
  <2>5. LayoutInv'
    BY <1>5, <1>6, <2>4 DEF LayoutInv
  <2> QED
    BY <2>1, <2>2, <2>3, <2>5 DEF ChannelInv
<1>10. \/ Violated
       \/ /\ reader' = "payload" /\ frame' = f /\ missing' = f.size /\ f.size # 0
          /\ f.size <= MaxFrame /\ f.defect \in {"none", "checksum"}
          /\ UNCHANGED <<delivered, outcome>>
       \/ /\ Return("frame") /\ delivered' = Append(delivered, f) /\ UNCHANGED <<frame, missing>>
          /\ f.size = 0 /\ f.size <= MaxFrame /\ f.defect = "none"
  <2>1. CASE f.defect \in {"magic", "version", "type"}
    BY <1>6, <2>1 DEF ReadHeader, f
  <2>2. CASE f.defect \in {"none", "checksum"}
    <3>1. IF f.size > MaxFrame THEN Violated /\ shut' = TRUE
          ELSE IF f.size = 0 THEN Complete(f)
          ELSE /\ reader' = "payload" /\ frame' = f /\ missing' = f.size
               /\ UNCHANGED <<delivered, outcome, shut>>
      BY <1>6, <2>2 DEF ReadHeader, TooLarge, PayloadBytes, f
    <3>2. f.size > MaxFrame \/ f.size <= MaxFrame
      BY <1>6, ChannelAssumption
    <3>3. Complete(f) => \/ Violated
                         \/ /\ Return("frame") /\ delivered' = Append(delivered, f)
                            /\ UNCHANGED <<frame, missing>> /\ f.defect = "none"
      BY <2>2 DEF Complete
    <3> QED
      BY <2>2, <3>1, <3>2, <3>3
  <2> QED
    BY <1>6, <2>1, <2>2 DEF Defects
<1> QED
  BY <1>7, <1>8, <1>9, <1>10

\* The reader takes a piece of the payload that is due.
LEMMA ChannelReadPayload == ChannelInv /\ ReadPayload => ChannelInv'
<1> SUFFICES ASSUME ChannelInv, ReadPayload PROVE ChannelInv'
  OBVIOUS
<1> DEFINE n == Len(delivered)
<1>1. /\ StreamInv /\ PrefixInv /\ PayloadInv /\ LayoutInv
      /\ reader = "payload" /\ wire # <<>> /\ wire' = Tail(wire) /\ UNCHANGED peerVars
  BY DEF ChannelInv, ReadPayload
<1>2. /\ n \in Nat /\ n + 1 \in 0..Len(sent) /\ n + 1 \in 1..Len(sent)
      /\ Begun = n + 1 /\ Due = missing /\ Receiving /\ missing \in Nat \ {0}
      /\ frame = sent[n + 1] /\ frame.defect \in {"none", "checksum"} /\ frame.size <= MaxFrame
      /\ frame \in Frames
  BY <1>1, BegunInRange DEF Begun, Due, Receiving, PayloadInv, StreamInv
<1>3. PICK cut : Layout(cut, n + 1, missing, sent, wire \o writing)
  BY <1>1, <1>2 DEF LayoutInv
<1>4. /\ wire \o writing \in Seq(Units) /\ Tail(wire \o writing) = (wire \o writing)'
      /\ wire' \in Seq(Units)
  BY <1>1, StreamRead DEF StreamInv, peerVars
<1>5. \E c : Layout(c, n + 1, missing - 1, sent, (wire \o writing)')
  BY <1>1, <1>2, <1>3, <1>4, LayoutPiece DEF StreamInv
<1> HIDE DEF n
<1>6. CASE Violated
  <2>1. StreamInv'
    BY <1>1, <1>4, <1>6 DEF StreamInv, Violated, peerVars
  <2> QED
    BY <1>1, <1>6, <2>1, ChannelStopped DEF Violated, Return, peerVars
<1>7. CASE missing # 1 /\ missing' = missing - 1 /\ UNCHANGED <<reader, frame, delivered, outcome>>
  <2>1. StreamInv'
    BY <1>1, <1>2, <1>4, <1>7 DEF StreamInv, peerVars
  <2>2. PrefixInv' /\ PayloadInv'
    BY <1>1, <1>2, <1>7 DEF PrefixInv, PayloadInv, peerVars
  <2>3. Begun' = n + 1 /\ Due' = missing - 1 /\ sent' = sent
    BY <1>1, <1>7 DEF Begun, Due, peerVars, n
  <2>4. LayoutInv'
    BY <1>5, <2>3 DEF LayoutInv
  <2> QED
    BY <2>1, <2>2, <2>4 DEF ChannelInv
<1>8. CASE /\ missing = 1 /\ frame.defect = "none" /\ Return("frame")
           /\ delivered' = Append(delivered, frame) /\ UNCHANGED <<frame, missing>>
  <2>1. StreamInv'
    BY <1>1, <1>2, <1>4, <1>8 DEF StreamInv, peerVars
  <2>2. PrefixInv'
    BY <1>1, <1>2, <1>8 DEF PrefixInv, Passes, StreamInv, peerVars, n
  <2>3. PayloadInv'
    BY <1>8 DEF PayloadInv, Return
  <2>4. Begun' = n + 1 /\ Due' = missing - 1 /\ sent' = sent
    BY <1>1, <1>8 DEF Begun, Due, peerVars, n, Return, StreamInv
  <2>5. LayoutInv'
    BY <1>5, <2>4 DEF LayoutInv
  <2> QED
    BY <2>1, <2>2, <2>3, <2>5 DEF ChannelInv
<1>9. \/ Violated
      \/ missing # 1 /\ missing' = missing - 1 /\ UNCHANGED <<reader, frame, delivered, outcome>>
      \/ /\ missing = 1 /\ frame.defect = "none" /\ Return("frame")
         /\ delivered' = Append(delivered, frame) /\ UNCHANGED <<frame, missing>>
  BY <1>2 DEF ReadPayload, Complete
<1> QED
  BY <1>6, <1>7, <1>8, <1>9

\* Every step keeps the invariant.
LEMMA ChannelStep == ChannelInv /\ [ChannelNext]_channelVars => ChannelInv'
<1> SUFFICES ASSUME ChannelInv, [ChannelNext]_channelVars PROVE ChannelInv'
  OBVIOUS
<1> USE DEF peerVars, readerVars
<1>1. CASE Receive
  BY <1>1 DEF Receive, ChannelInv, StreamInv, PrefixInv, PayloadInv, LayoutInv, Receiving, Begun,
              Due
<1>2. CASE ReadClosed
  <2>1. StreamInv'
    BY <1>2 DEF ReadClosed, ChannelInv, StreamInv
  <2> QED
    BY <1>2, <2>1, ChannelStopped DEF ReadClosed, Return
<1>3. CASE End \/ Shutdown \/ UNCHANGED channelVars
  <2>1. UNCHANGED <<sent, writing, wire, readerVars>>
    BY <1>3 DEF End, Shutdown, channelVars
  <2> QED
    BY <2>1 DEF ChannelInv, StreamInv, PrefixInv, PayloadInv, LayoutInv, Receiving, Begun, Due
<1> QED
  BY <1>1, <1>2, <1>3, ChannelSend, ChannelTransmit, ChannelReadHeader, ChannelReadPayload
     DEF ChannelNext

\* What receive() has returned is at all times a beginning of what the peer
\* wrote, and every frame of it passes every test, for any frames and any bound
\* on their size, wherever the stream is cut or the socket shut down
\* (receive_unlocked() in transport.cpp).
THEOREM ChannelDelivers == ChannelSpec => []DeliveredIsPrefix
<1>1. ChannelInv => DeliveredIsPrefix
  <2> SUFFICES ASSUME ChannelInv PROVE DeliveredIsPrefix
    OBVIOUS
  <2>1. /\ delivered \in Seq(Frames) /\ sent \in Seq(Frames) /\ Len(delivered) <= Len(sent)
        /\ \A i \in 1..Len(delivered) : delivered[i] = sent[i] /\ Passes(delivered[i])
    BY DEF ChannelInv, StreamInv, PrefixInv
  <2>2. SubSeq(delivered, 1, Len(delivered)) = SubSeq(sent, 1, Len(delivered))
    BY <2>1
  <2>3. DOMAIN delivered = 1..Len(delivered)
    BY <2>1
  <2> QED
    BY <2>1, <2>2, <2>3 DEF DeliveredIsPrefix, IsPrefix, Passes
<1> QED
  BY <1>1, ChannelStarts, ChannelStep, PTL DEF ChannelSpec

-----------------------------------------------------------------------------
\* Sessions.  The argument counts, for each node, the records it has sent, the
\* one on its way and the answers that have come back.

FrameTypes == {"Hello", "Evidence", "Malformed", "Garbage"}
Sendable == FrameTypes \cup {"Bye", "Cut"}
Answers == {"Ack"}
IsRecord(f) == f \in {"Evidence", "Malformed"}

\* The records among the frames of node n before the k-th.
Before(n, k) == {i \in 1..k - 1 : IsRecord(Program[n][i])}
SentRecords(n, k) == Cardinality(Before(n, k))

\* The books of node n: at p, before its k-th frame, with the frames u and d in
\* flight, g records ingested and a answers received.  Every record that was
\* ingested has been answered, and only the last one sent may be on its way.
Account(n, p, k, u, d, g, a) ==
    /\ g = a + Len(d)
    /\ p # "failed" => k \in 1..Len(Program[n]) + 1
    /\ p \in {"connect", "send", "ok"} =>
           d = <<>> /\ a = SentRecords(n, k) /\ \A i \in 1..Len(u) : u[i] # "Evidence"
    /\ p = "await" =>
           /\ a + 1 = SentRecords(n, k) /\ Len(d) <= 1
           /\ \A i \in 1..Len(u) : u[i] = "Evidence" => i = Len(u) /\ d = <<>>
    /\ p = "ok" => k = Len(Program[n]) + 1

-----------------------------------------------------------------------------
\* Programs are sequences of frames.
LEMMA ProgramFacts ==
    ASSUME NEW n \in Nodes
    PROVE  /\ Program[n] \in Seq(FrameTypes) /\ Len(Program[n]) \in Nat
           /\ \A k \in 1..Len(Program[n]) : Program[n][k] \in FrameTypes
  BY SessionAssumption DEF FrameTypes

\* A frame adds one to the records before it, or nothing.
LEMMA OneMore ==
    ASSUME NEW n \in Nodes, NEW k \in 1..Len(Program[n])
    PROVE  /\ SentRecords(n, k) \in Nat /\ SentRecords(n, 1) = 0
           /\ SentRecords(n, k + 1) =
                  IF IsRecord(Program[n][k]) THEN SentRecords(n, k) + 1 ELSE SentRecords(n, k)
<1>1. k \in Nat \ {0} /\ k - 1 \in Int
  BY ProgramFacts
<1>2. IsFiniteSet(Before(n, k))
  <2>1. IsFiniteSet(1..k - 1)
    BY <1>1, FS_Interval
  <2> QED
    BY <2>1, FS_Subset DEF Before
<1>3. SentRecords(n, k) \in Nat
  BY <1>2, FS_CardinalityType DEF SentRecords
<1>4. SentRecords(n, 1) = 0
  <2>1. Before(n, 1) = {}
    BY DEF Before
  <2> QED
    BY <2>1, FS_EmptySet DEF SentRecords
<1>5. CASE IsRecord(Program[n][k])
  <2>1. Before(n, k + 1) = Before(n, k) \cup {k} /\ k \notin Before(n, k)
    BY <1>1, <1>5 DEF Before
  <2> QED
    BY <1>2, <1>3, <1>4, <1>5, <2>1, FS_AddElement DEF SentRecords
<1>6. CASE ~ IsRecord(Program[n][k])
  <2>1. Before(n, k + 1) = Before(n, k)
    BY <1>1, <1>6 DEF Before
  <2> QED
    BY <1>3, <1>4, <1>6, <2>1 DEF SentRecords
<1> QED
  BY <1>5, <1>6

\* All of them are what a node that reports success answers for.
LEMMA AllRecords ==
    ASSUME NEW n \in Nodes
    PROVE  SentRecords(n, Len(Program[n]) + 1) = Records(n)
<1>1. Len(Program[n]) \in Nat /\ DOMAIN Program[n] = 1..Len(Program[n])
  BY ProgramFacts
<1>2. Before(n, Len(Program[n]) + 1) =
          {i \in DOMAIN Program[n] : Program[n][i] \in {"Evidence", "Malformed"}}
  BY <1>1 DEF Before, IsRecord
<1> QED
  BY <1>2 DEF SentRecords, Records

-----------------------------------------------------------------------------
\* The node sends its next frame.
LEMMA AccountSent ==
    ASSUME NEW n \in Nodes, NEW k \in 1..Len(Program[n]), NEW u \in Seq(Sendable),
           NEW d \in Seq(Answers), NEW g \in Nat, NEW a \in Nat, NEW p,
           Account(n, "send", k, u, d, g, a),
           p = CASE Program[n][k] \in {"Evidence", "Malformed"} -> "await"
                 [] Program[n][k] = "Garbage" -> "failed" [] OTHER -> "send"
    PROVE  Account(n, p, k + 1, Append(u, Program[n][k]), d, g, a)
<1> DEFINE f == Program[n][k]
           v == Append(u, f)
<1>1. /\ f \in FrameTypes /\ k \in Nat /\ Len(Program[n]) \in Nat
      /\ k + 1 \in 1..Len(Program[n]) + 1
  BY ProgramFacts
<1>2. /\ g = a + Len(d) /\ d = <<>> /\ a = SentRecords(n, k)
      /\ \A i \in 1..Len(u) : u[i] # "Evidence"
  BY DEF Account
<1>3. /\ Len(u) \in Nat /\ Len(v) = Len(u) + 1 /\ v[Len(u) + 1] = f
      /\ \A i \in 1..Len(u) : v[i] = u[i]
  OBVIOUS
<1>4. SentRecords(n, k + 1) = IF IsRecord(f) THEN a + 1 ELSE a
  BY <1>2, OneMore
<1> HIDE DEF f, v
<1>5. CASE IsRecord(f)
  <2>1. p = "await"
    BY <1>5 DEF IsRecord, f
  <2>2. Len(d) = 0
    BY <1>2
  <2>3. \A i \in 1..Len(v) : v[i] = "Evidence" => i = Len(v)
    BY <1>2, <1>3
  <2> QED
    BY <1>1, <1>2, <1>4, <1>5, <2>1, <2>2, <2>3 DEF Account, f, v
<1>6. CASE f = "Garbage"
  <2>1. p = "failed"
    BY <1>6 DEF f
  <2> QED
    BY <1>2, <2>1 DEF Account
<1>7. CASE f = "Hello"
  <2>1. p = "send" /\ ~ IsRecord(f)
    BY <1>7 DEF f, IsRecord
  <2>2. \A i \in 1..Len(v) : v[i] # "Evidence"
    BY <1>2, <1>3, <1>7
  <2> QED
    BY <1>1, <1>2, <1>4, <2>1, <2>2 DEF Account, f, v
<1> QED
  BY <1>1, <1>5, <1>6, <1>7 DEF FrameTypes, IsRecord

\* What is left of a sequence of one.
LEMMA NothingLeft ==
    ASSUME NEW S, NEW q \in Seq(S), Len(q) = 1
    PROVE  Tail(q) = <<>> /\ Len(<<>>) = 0 /\ \A i \in 1..0 : FALSE
<1>1. q # <<>>
  BY EmptySeq
<1>2. Tail(q) \in Seq(S) /\ Len(Tail(q)) = 0
  BY <1>1, HeadTailProperties
<1>3. Tail(q) = <<>>
  BY <1>2, EmptySeq
<1> QED
  BY <1>3

\* The node takes the answer it waits for.
LEMMA AccountReply ==
    ASSUME NEW n \in Nodes, NEW k, NEW u \in Seq(Sendable), NEW d \in Seq(Answers), d # <<>>,
           NEW g \in Nat, NEW a \in Nat, Account(n, "await", k, u, d, g, a)
    PROVE  Account(n, "send", k, u, Tail(d), g, a + 1)
<1>1. Len(d) \in Nat \ {0} /\ Len(d) <= 1 /\ g = a + Len(d)
  BY EmptySeq DEF Account
<1>2. Len(d) = 1 /\ Tail(d) = <<>>
  <2>1. \A x \in Nat \ {0} : x <= 1 => x = 1
    OBVIOUS
  <2>2. Len(d) = 1
    BY <1>1, <2>1, Zenon
  <2> QED
    BY <2>2, NothingLeft
<1>3. \A i \in 1..Len(u) : u[i] # "Evidence"
  BY DEF Account
<1>4. a + 1 = SentRecords(n, k) /\ k \in 1..Len(Program[n]) + 1
  BY DEF Account
<1>5. g = a + 1 + Len(Tail(d))
  <2>1. Len(Tail(d)) = 0
    BY <1>2, EmptySeq, Zenon
  <2>2. g = a + 1 /\ a + 1 + 0 = a + 1
    BY <1>1, <1>2
  <2> QED
    BY <2>1, <2>2, Zenon
<1> QED
  BY <1>2, <1>3, <1>4, <1>5 DEF Account

\* The service takes a frame, whatever it is.
LEMMA AccountArrives ==
    ASSUME NEW n \in Nodes, NEW p, NEW k, NEW u \in Seq(Sendable), u # <<>>,
           NEW d \in Seq(Answers), NEW g \in Nat, NEW a \in Nat,
           Account(n, p, k, u, d, g, a)
    PROVE  Account(n, p, k, Tail(u), d, g, a)
<1> DEFINE v == Tail(u)
<1>1. /\ Len(u) \in Nat \ {0} /\ Len(v) = Len(u) - 1
      /\ \A i \in 1..Len(v) : i + 1 \in 1..Len(u) /\ v[i] = u[i + 1]
  BY EmptySeq
<1> HIDE DEF v
<1>2. p \in {"connect", "send", "ok"} => \A i \in 1..Len(v) : v[i] # "Evidence"
  BY <1>1 DEF Account
<1>3. p = "await" => \A i \in 1..Len(v) : v[i] = "Evidence" => i = Len(v) /\ d = <<>>
  <2>1. p = "await" => \A i \in 1..Len(u) : u[i] = "Evidence" => i = Len(u) /\ d = <<>>
    BY Zenon DEF Account
  <2> QED
    BY <1>1, <2>1
<1> QED
  BY <1>2, <1>3 DEF Account, v

\* The service takes evidence, ingests and answers it.
LEMMA AccountIngested ==
    ASSUME NEW n \in Nodes, NEW p \in {"connect", "send", "await", "ok", "failed"}, NEW k,
           NEW u \in Seq(Sendable), u # <<>>, Head(u) = "Evidence",
           NEW d \in Seq(Answers), NEW g \in Nat, NEW a \in Nat,
           Account(n, p, k, u, d, g, a)
    PROVE  Account(n, p, k, Tail(u), Append(d, "Ack"), g + 1, a)
<1>1. /\ Len(u) \in Nat \ {0} /\ 1 \in 1..Len(u) /\ u[1] = "Evidence" /\ Len(d) \in Nat
      /\ Len(Append(d, "Ack")) = Len(d) + 1
  BY EmptySeq
<1>2. g = a + Len(d)
  BY DEF Account
<1>3. g + 1 = a + Len(Append(d, "Ack"))
  BY <1>1, <1>2
<1>4. CASE p \in {"connect", "send", "ok"}
  BY <1>1, <1>4 DEF Account
<1>5. CASE p = "await"
  <2>1. Len(u) = 1 /\ d = <<>> /\ a + 1 = SentRecords(n, k) /\ k \in 1..Len(Program[n]) + 1
    BY <1>1, <1>5 DEF Account
  <2>2. Len(d) = 0 /\ Len(Append(d, "Ack")) = 1
    BY <1>1, <2>1
  <2>3. Tail(u) = <<>>
    BY <2>1, NothingLeft
  <2>4. \A i \in 1..Len(Tail(u)) : FALSE
    BY <2>1, <2>3, NothingLeft, Zenon
  <2> QED
    BY <1>3, <1>5, <2>1, <2>2, <2>4 DEF Account
<1>6. CASE p = "failed"
  BY <1>3, <1>6 DEF Account
<1> QED
  BY <1>4, <1>5, <1>6

-----------------------------------------------------------------------------
Points == {"connect", "send", "await", "ok", "failed"}

SessionTypes ==
    /\ pc \in [Nodes -> Points] /\ next \in [Nodes -> Nat]
    /\ up \in [Nodes -> Seq(Sendable)] /\ down \in [Nodes -> Seq(Answers)]
    /\ ingested \in [Nodes -> Nat] /\ answered \in [Nodes -> Nat]
    /\ backlog \in Seq(Nodes) /\ (service = "serve" => conn \in Nodes)

Books(n) == Account(n, pc[n], next[n], up[n], down[n], ingested[n], answered[n])

\* The books of every node are right.
SessionInv == SessionTypes /\ \A n \in Nodes : Books(n)

\* A step that changes what belongs to one node keeps the books of the others.
LEMMA OthersKeep ==
    ASSUME NEW m \in Nodes, \A n \in Nodes : Books(n), SessionTypes', Books(m)',
           \A n \in Nodes \ {m} :
              /\ pc'[n] = pc[n] /\ next'[n] = next[n] /\ up'[n] = up[n] /\ down'[n] = down[n]
              /\ ingested'[n] = ingested[n] /\ answered'[n] = answered[n]
    PROVE  SessionInv'
<1>1. ASSUME NEW n \in Nodes PROVE Books(n)'
  <2>1. CASE n = m
    BY <2>1
  <2>2. CASE n # m
    BY <2>2 DEF Books
  <2> QED
    BY <2>1, <2>2
<1> QED
  BY <1>1 DEF SessionInv

\* No node has begun.
LEMMA SessionInit == Init => SessionInv
<1> SUFFICES ASSUME Init PROVE SessionInv
  OBVIOUS
<1>1. SessionTypes
  BY DEF Init, SessionTypes, Points, Sendable, Answers
<1>2. ASSUME NEW n \in Nodes PROVE Books(n)
  <2>1. /\ pc[n] = "connect" /\ next[n] = 1 /\ up[n] = <<>> /\ down[n] = <<>>
        /\ ingested[n] = 0 /\ answered[n] = 0
    BY DEF Init
  <2>2. Before(n, 1) = {}
    BY DEF Before
  <2>3. SentRecords(n, 1) = 0
    BY <2>2, FS_EmptySet DEF SentRecords
  <2>4. 1 \in 1..Len(Program[n]) + 1
    BY ProgramFacts
  <2>5. Account(n, "connect", 1, <<>>, <<>>, 0, 0)
    BY <2>3, <2>4 DEF Account
  <2> QED
    BY <2>1, <2>5 DEF Books
<1> QED
  BY <1>1, <1>2 DEF SessionInv

\* A node that fails owes nothing more.
LEMMA AccountFailed ==
    ASSUME NEW n, NEW p, NEW k, NEW u, NEW d, NEW g, NEW a, Account(n, p, k, u, d, g, a),
           NEW j, NEW v
    PROVE  Account(n, "failed", j, v, d, g, a)
  BY DEF Account

\* The steps of a node.
LEMMA NodeKeeps ==
    ASSUME SessionInv, NEW m \in Nodes, NodeStep(m) \/ Killed(m)
    PROVE  SessionInv'
<1>1. /\ SessionTypes /\ \A n \in Nodes : Books(n)
      /\ Account(m, pc[m], next[m], up[m], down[m], ingested[m], answered[m])
      /\ next[m] \in Nat /\ up[m] \in Seq(Sendable) /\ down[m] \in Seq(Answers)
      /\ ingested[m] \in Nat /\ answered[m] \in Nat /\ pc[m] \in Points
  BY DEF SessionInv, Books, SessionTypes
<1> USE DEF serviceVars
<1>2. CASE Connect(m)
  <2>1. SessionTypes'
    <3>1. backlog \in Seq(Nodes) /\ Append(backlog, m) \in Seq(Nodes)
      BY <1>1 DEF SessionTypes
    <3>2. backlog' \in Seq(Nodes)
      BY <1>2, <3>1 DEF Connect
    <3>3. pc' \in [Nodes -> Points]
      BY <1>1, <1>2 DEF Connect, Exit, SessionTypes, Points
    <3> QED
      BY <1>1, <1>2, <3>2, <3>3 DEF Connect, SessionTypes
  <2>2. /\ pc'[m] \in {"send", "failed"} /\ UNCHANGED <<next, up, down, ingested, answered>>
        /\ \A n \in Nodes \ {m} : pc'[n] = pc[n]
    BY <1>1, <1>2 DEF Connect, Exit, SessionTypes
  <2>3. Account(m, "send", next[m], up[m], down[m], ingested[m], answered[m])
    BY <1>1, <1>2 DEF Connect, Account
  <2>4. Books(m)'
    <3>1. Account(m, "failed", next[m], up[m], down[m], ingested[m], answered[m])
      BY <2>3, AccountFailed, Zenon
    <3>2. Account(m, pc'[m], next[m], up[m], down[m], ingested[m], answered[m])
      BY <2>2, <2>3, <3>1, Zenon
    <3>3. /\ next'[m] = next[m] /\ up'[m] = up[m] /\ down'[m] = down[m]
          /\ ingested'[m] = ingested[m] /\ answered'[m] = answered[m]
      BY <2>2
    <3> QED
      BY <3>2, <3>3, Zenon DEF Books
  <2> QED
    BY <1>1, <2>1, <2>2, <2>4, OthersKeep
<1>3. CASE Send(m) /\ Sent(m, Program[m][next[m]])
  <2> DEFINE f == Program[m][next[m]]
             q == CASE f \in {"Evidence", "Malformed"} -> "await" [] f = "Garbage" -> "failed"
                    [] OTHER -> "send"
  <2>1. pc[m] = "send" /\ next[m] \in 1..Len(Program[m])
    <3>1. pc[m] = "send" /\ next[m] <= Len(Program[m])
      BY <1>3 DEF Send
    <3>2. next[m] \in 1..Len(Program[m]) + 1
      BY <1>1, <3>1, Zenon DEF Account
    <3>3. Len(Program[m]) \in Nat
      BY ProgramFacts, Zenon
    <3> QED
      BY <3>1, <3>2, <3>3
  <2>2. f \in Sendable /\ q \in Points
    BY <2>1, ProgramFacts DEF Sendable, Points
  <2>3. Account(m, q, next[m] + 1, Append(up[m], f), down[m], ingested[m], answered[m])
    BY <1>1, <2>1, AccountSent
  <2> HIDE DEF f, q
  <2>4. /\ up' = [up EXCEPT ![m] = Append(@, f)] /\ next' = [next EXCEPT ![m] = @ + 1]
        /\ pc' = [pc EXCEPT ![m] = q]
        /\ UNCHANGED <<down, ingested, answered, backlog, service, conn>>
    BY <1>3 DEF Send, Sent, f, q
  <2>5. SessionTypes'
    <3>1. Append(up[m], f) \in Seq(Sendable) /\ next[m] + 1 \in Nat
      <4>1. up[m] \in Seq(Sendable) /\ next[m] \in Nat
        BY <1>1, Zenon
      <4>2. Append(up[m], f) \in Seq(Sendable)
        BY <2>2, <4>1, AppendProperties, Zenon
      <4> QED BY <4>1, <4>2, SMT
    <3>2. up' \in [Nodes -> Seq(Sendable)] /\ next' \in [Nodes -> Nat] /\ pc' \in [Nodes -> Points]
      BY <1>1, <2>2, <2>4, <3>1 DEF SessionTypes
    <3> QED
      BY <1>1, <2>4, <3>2 DEF SessionTypes
  <2>6. Books(m)'
    <3>1. /\ pc'[m] = q /\ next'[m] = next[m] + 1 /\ up'[m] = Append(up[m], f)
          /\ down'[m] = down[m] /\ ingested'[m] = ingested[m] /\ answered'[m] = answered[m]
      BY <1>1, <2>4 DEF SessionTypes
    <3> QED
      BY <2>3, <3>1, Zenon DEF Books
  <2> QED
    BY <1>1, <2>4, <2>5, <2>6, OthersKeep DEF SessionTypes
<1>4. CASE Exit(m, "failed") /\ UNCHANGED <<next, up, down, answered, serviceVars>>
  <2>1. SessionTypes'
    BY <1>1, <1>4 DEF Exit, SessionTypes, Points
  <2>2. Books(m)'
    <3>1. /\ pc'[m] = "failed" /\ next'[m] = next[m] /\ up'[m] = up[m] /\ down'[m] = down[m]
          /\ ingested'[m] = ingested[m] /\ answered'[m] = answered[m]
      BY <1>1, <1>4 DEF Exit, SessionTypes
    <3>2. Account(m, "failed", next[m], up[m], down[m], ingested[m], answered[m])
      BY <1>1, AccountFailed, Zenon
    <3> QED
      BY <3>1, <3>2, Zenon DEF Books
  <2> QED
    BY <1>1, <1>4, <2>1, <2>2, OthersKeep DEF Exit, SessionTypes
<1>5. CASE /\ pc[m] = "await" /\ down[m] # <<>>
           /\ down' = [down EXCEPT ![m] = Tail(@)]
           /\ answered' = [answered EXCEPT ![m] = @ + 1]
           /\ pc' = [pc EXCEPT ![m] = "send"]
           /\ UNCHANGED <<next, up, serviceVars>>
  <2>1. Account(m, "send", next[m], up[m], Tail(down[m]), ingested[m], answered[m] + 1)
    BY <1>1, <1>5, AccountReply
  <2>2. Tail(down[m]) \in Seq(Answers)
    BY <1>1, <1>5, HeadTailProperties
  <2>3. SessionTypes'
    BY <1>1, <1>5, <2>2 DEF SessionTypes, Points
  <2>4. Books(m)'
    <3>1. /\ pc'[m] = "send" /\ next'[m] = next[m] /\ up'[m] = up[m]
          /\ down'[m] = Tail(down[m]) /\ ingested'[m] = ingested[m]
          /\ answered'[m] = answered[m] + 1
      BY <1>1, <1>5 DEF SessionTypes
    <3> QED
      BY <2>1, <3>1, Zenon DEF Books
  <2> QED
    BY <1>1, <1>5, <2>3, <2>4, OthersKeep DEF SessionTypes
<1>6. CASE SayBye(m)
  <2> DEFINE v == Append(up[m], "Bye")
  <2>1. pc[m] = "send" /\ next[m] \in 1..Len(Program[m]) + 1 /\ next[m] > Len(Program[m])
    BY <1>1, <1>6 DEF SayBye, Account
  <2>2. next[m] = Len(Program[m]) + 1
    BY <2>1, ProgramFacts
  <2>3. /\ Len(up[m]) \in Nat /\ Len(v) = Len(up[m]) + 1 /\ v[Len(up[m]) + 1] = "Bye"
        /\ \A i \in 1..Len(up[m]) : v[i] = up[m][i]
    BY <1>1
  <2>4. v \in Seq(Sendable)
    BY <1>1 DEF Sendable
  <2> HIDE DEF v
  <2>5. \A i \in 1..Len(up[m]) : up[m][i] # "Evidence"
    BY <1>1, <2>1 DEF Account
  <2>6. \A i \in 1..Len(v) : v[i] # "Evidence"
    BY <2>3, <2>5
  <2>7. Account(m, "ok", next[m], v, down[m], ingested[m], answered[m])
    BY <1>1, <2>1, <2>2, <2>6 DEF Account
  <2>8. /\ up' = [up EXCEPT ![m] = v] /\ pc' = [pc EXCEPT ![m] = "ok"]
        /\ UNCHANGED <<next, down, ingested, answered, backlog, service, conn>>
    BY <1>6 DEF SayBye, Exit, v
  <2>9. SessionTypes'
    BY <1>1, <2>4, <2>8 DEF SessionTypes, Points
  <2>10. Books(m)'
    BY <1>1, <2>7, <2>8 DEF Books, SessionTypes
  <2> QED
    BY <1>1, <2>8, <2>9, <2>10, OthersKeep DEF SessionTypes
<1>7. CASE /\ Exit(m, "failed") /\ up' = [up EXCEPT ![m] = Append(@, "Cut")]
           /\ UNCHANGED <<next, down, answered, serviceVars>>
  <2>1. Append(up[m], "Cut") \in Seq(Sendable)
    <3>1. "Cut" \in Sendable /\ up[m] \in Seq(Sendable)
      BY <1>1 DEF Sendable
    <3> QED
      BY <3>1
  <2>2. SessionTypes'
    BY <1>1, <1>7, <2>1 DEF Exit, SessionTypes, Points
  <2>3. Books(m)'
    BY <1>1, <1>7, AccountFailed DEF Exit, Books, SessionTypes
  <2> QED
    BY <1>1, <1>7, <2>2, <2>3, OthersKeep DEF Exit, SessionTypes
<1>8. Send(m) => \/ Sent(m, Program[m][next[m]])
                 \/ Exit(m, "failed") /\ UNCHANGED <<next, up, down, answered, serviceVars>>
  BY DEF Send
<1>9. ReceiveReply(m) =>
          \/ /\ pc[m] = "await" /\ down[m] # <<>>
             /\ down' = [down EXCEPT ![m] = Tail(@)]
             /\ answered' = [answered EXCEPT ![m] = @ + 1]
             /\ pc' = [pc EXCEPT ![m] = "send"]
             /\ UNCHANGED <<next, up, serviceVars>>
          \/ Exit(m, "failed") /\ UNCHANGED <<next, up, down, answered, serviceVars>>
  BY DEF ReceiveReply
<1>10. Killed(m) =>
           \/ Exit(m, "failed") /\ UNCHANGED <<next, up, down, answered, serviceVars>>
           \/ /\ Exit(m, "failed") /\ up' = [up EXCEPT ![m] = Append(@, "Cut")]
              /\ UNCHANGED <<next, down, answered, serviceVars>>
  BY DEF Killed
<1> QED
  BY <1>2, <1>3, <1>4, <1>5, <1>6, <1>7, <1>8, <1>9, <1>10 DEF NodeStep

\* The steps of the service.
LEMMA ServiceKeeps == SessionInv /\ ServiceStep => SessionInv'
<1> SUFFICES ASSUME SessionInv, ServiceStep PROVE SessionInv'
  OBVIOUS
<1> USE DEF nodeVars, serviceVars
<1>1. SessionTypes /\ \A n \in Nodes : Books(n)
  BY DEF SessionInv
<1>2. CASE UNCHANGED <<nodeVars, up, down, ingested>> /\ SessionTypes'
  BY <1>1, <1>2 DEF SessionInv, Books
<1>3. ASSUME NEW f, Arrives(f), UNCHANGED <<nodeVars, down, ingested, backlog>>,
             service' = "serve" => conn' \in Nodes
      PROVE  SessionInv'
  <2>1. conn \in Nodes /\ up[conn] # <<>> /\ up' = [up EXCEPT ![conn] = Tail(@)]
    BY <1>1, <1>3 DEF Arrives, SessionTypes
  <2>2. up[conn] \in Seq(Sendable) /\ Tail(up[conn]) \in Seq(Sendable)
    BY <1>1, <2>1, HeadTailProperties DEF SessionTypes
  <2>3. SessionTypes'
    BY <1>1, <1>3, <2>1, <2>2 DEF SessionTypes
  <2>4. Account(conn, pc[conn], next[conn], Tail(up[conn]), down[conn], ingested[conn],
                answered[conn])
    BY <1>1, <2>1, <2>2, AccountArrives DEF SessionTypes, Books
  <2>5. Account(conn, pc'[conn], next'[conn], up'[conn], down'[conn], ingested'[conn],
                answered'[conn])
    BY <1>1, <1>3, <2>1, <2>4 DEF SessionTypes
  <2>6. ASSUME NEW n \in Nodes PROVE Books(n)'
    <3>1. CASE n = conn
      BY <2>5, <3>1 DEF Books
    <3>2. CASE n # conn
      BY <1>1, <1>3, <2>1, <3>2 DEF Books, SessionTypes
    <3> QED
      BY <3>1, <3>2
  <2> QED
    BY <2>3, <2>6 DEF SessionInv
<1>4. CASE ReceiveEvidence
  <2>1. /\ conn \in Nodes /\ up[conn] # <<>> /\ up' = [up EXCEPT ![conn] = Tail(@)]
        /\ Head(up[conn]) = "Evidence" /\ ingested' = [ingested EXCEPT ![conn] = @ + 1]
        /\ down' = [down EXCEPT ![conn] = Append(@, "Ack")]
        /\ UNCHANGED <<nodeVars, service, backlog, conn>>
    BY <1>1, <1>4 DEF ReceiveEvidence, Arrives, SessionTypes
  <2>2. /\ up[conn] \in Seq(Sendable) /\ Tail(up[conn]) \in Seq(Sendable)
        /\ down[conn] \in Seq(Answers) /\ Append(down[conn], "Ack") \in Seq(Answers)
        /\ ingested[conn] \in Nat /\ answered[conn] \in Nat /\ pc[conn] \in Points
    BY <1>1, <2>1, HeadTailProperties DEF SessionTypes, Answers
  <2>3. SessionTypes'
    BY <1>1, <2>1, <2>2 DEF SessionTypes
  <2>4. Account(conn, pc[conn], next[conn], Tail(up[conn]), Append(down[conn], "Ack"),
                ingested[conn] + 1, answered[conn])
    BY <1>1, <2>1, <2>2, AccountIngested DEF Books, Points
  <2>5. Account(conn, pc'[conn], next'[conn], up'[conn], down'[conn], ingested'[conn],
                answered'[conn])
    BY <1>1, <2>1, <2>4 DEF SessionTypes
  <2>6. ASSUME NEW n \in Nodes PROVE Books(n)'
    <3>1. CASE n = conn
      BY <2>5, <3>1 DEF Books
    <3>2. CASE n # conn
      BY <1>1, <2>1, <3>2 DEF Books, SessionTypes
    <3> QED
      BY <3>1, <3>2
  <2> QED
    BY <2>3, <2>6 DEF SessionInv
<1>5. CASE Accept
  <2>1. Head(backlog) \in Nodes /\ Tail(backlog) \in Seq(Nodes)
    BY <1>1, <1>5, HeadTailProperties DEF Accept, SessionTypes
  <2> QED
    BY <1>1, <1>2, <1>5, <2>1 DEF Accept, SessionTypes
<1>6. CASE AcceptFails \/ ReceiveClosed \/ Finish
  BY <1>1, <1>2, <1>6 DEF AcceptFails, ReceiveClosed, HangUp, Finish, SessionTypes
<1>7. CASE ReceiveHello \/ ReceiveMalformed
  BY <1>1, <1>3, <1>7 DEF ReceiveHello, ReceiveMalformed, SessionTypes
<1>8. CASE IngestFails
  BY <1>3, <1>8 DEF IngestFails
<1>9. CASE ReceiveLast
  BY <1>3, <1>9 DEF ReceiveLast, HangUp
<1> QED
  BY <1>4, <1>5, <1>6, <1>7, <1>8, <1>9 DEF ServiceStep

\* Every step keeps the books.
LEMMA SessionStep == SessionInv /\ [Next]_vars => SessionInv'
<1>1. ASSUME SessionInv, UNCHANGED vars PROVE SessionInv'
  BY <1>1 DEF SessionInv, SessionTypes, Books, vars, nodeVars, serviceVars
<1> QED
  BY <1>1, NodeKeeps, ServiceKeeps DEF Next

\* A node that reports success has had every record of its program ingested, for
\* any number of nodes and any programs, whoever is killed and whenever the
\* service fails: it has awaited an answer for each, and each answer is sent
\* after the record was ingested (pathobs_node_main.cpp, command_serve()).
THEOREM SessionSucceeds == Spec => []SuccessIsIngested
<1>1. SessionInv => SuccessIsIngested
  <2> SUFFICES ASSUME SessionInv, NEW n \in Nodes, pc[n] = "ok"
               PROVE  ingested[n] = Records(n)
    BY DEF SuccessIsIngested
  <2>1. /\ ingested[n] = answered[n] + Len(down[n]) /\ down[n] = <<>>
        /\ answered[n] = SentRecords(n, Len(Program[n]) + 1) /\ answered[n] \in Nat
    BY DEF SessionInv, SessionTypes, Books, Account
  <2>2. ingested[n] = answered[n]
    BY <2>1
  <2> QED
    BY <2>1, <2>2, AllRecords
<1> QED
  BY <1>1, SessionInit, SessionStep, PTL DEF Spec
=============================================================================
