--------------------------- MODULE FramingProofs ---------------------------
(***************************************************************************)
(* Theorems about Framing, for streams of any length, any payloads and     *)
(* reads that cut the stream anywhere.                                     *)
(***************************************************************************)
EXTENDS Framing, Integers, WellFoundedInduction, SequenceTheorems, TLAPS

(***************************************************************************)
(* Numbers and sequences                                                   *)
(***************************************************************************)
\* Every set of numbers that is not empty has a least element.
LEMMA Least ==
  ASSUME NEW T,
         T \in SUBSET Nat, T # {}
  PROVE  \E m \in T : \A u \in T : m <= u
<1>1. PICK m \in T : \A u \in T : ~(<<u, m>> \in OpToRel(<, Nat))
  BY WFMin, NatLessThanWellFounded
<1>2. \A u \in T : ~(u < m)
  BY <1>1 DEF OpToRel
<1> QED
  BY <1>2

\* Min is the least element, when there is one.
LEMMA MinIs ==
  ASSUME NEW T, NEW m,
         T \in SUBSET Nat, m \in T, \A u \in T : m <= u
  PROVE  Min(T) = m
<1>1. \E x \in T : \A y \in T : x <= y
  OBVIOUS
<1>2. Min(T) \in T /\ \A y \in T : Min(T) <= y
  BY <1>1 DEF Min
<1>3. Min(T) \in Nat /\ m \in Nat /\ Min(T) <= m /\ m <= Min(T)
  BY <1>2
<1> QED
  BY <1>3

\* Concatenation, and a sequence without its first n elements, as symbols that
\* only the lemmas below look into.
Join(s, t) == s \o t
Rest(s, n) == SubSeq(s, n + 1, Len(s))

\* What concatenation consists of.
LEMMA Joined ==
  ASSUME NEW S, NEW s, NEW t,
         s \in Seq(S), t \in Seq(S)
  PROVE  /\ Join(s, t) \in Seq(S) /\ Len(Join(s, t)) = Len(s) + Len(t)
         /\ \A i \in 1 .. Len(s) : Join(s, t)[i] = s[i]
         /\ \A i \in 1 .. Len(t) : Join(s, t)[Len(s) + i] = t[i]
BY DEF Join

\* Concatenation is associative.
LEMMA Regrouped ==
  ASSUME NEW S, NEW s, NEW t, NEW u,
         s \in Seq(S), t \in Seq(S), u \in Seq(S)
  PROVE  Join(Join(s, t), u) = Join(s, Join(t, u))
BY DEF Join

\* What is joined to the same start is the same if the results are.
LEMMA Cancelled ==
  ASSUME NEW S, NEW s, NEW t, NEW u,
         s \in Seq(S), t \in Seq(S), u \in Seq(S), Join(s, t) = Join(s, u)
  PROVE  t = u
BY ConcatSimplifications, Zenon DEF Join

\* A sequence is its first n elements and the rest.
LEMMA Rested ==
  ASSUME NEW S, NEW s, NEW n,
         s \in Seq(S), n \in 0 .. Len(s)
  PROVE  /\ SubSeq(s, 1, n) \in Seq(S) /\ Len(SubSeq(s, 1, n)) = n
         /\ \A i \in 1 .. n : SubSeq(s, 1, n)[i] = s[i]
         /\ Rest(s, n) \in Seq(S) /\ Len(Rest(s, n)) = Len(s) - n
         /\ Join(SubSeq(s, 1, n), Rest(s, n)) = s
<1> DEFINE x == SubSeq(s, 1, n)
           y == Rest(s, n)
<1>1. Len(s) \in Nat /\ n \in Nat /\ n <= Len(s)
  BY LenProperties
<1>2. x \in Seq(S) /\ Len(x) = n /\ \A i \in 1 .. n : x[i] = s[i]
  BY <1>1
<1>3. /\ y \in Seq(S) /\ Len(y) = Len(s) - n
      /\ \A i \in 1 .. Len(s) - n : y[i] = s[n + i]
  BY <1>1 DEF Rest
<1> HIDE DEF x, y
<1>4. /\ Join(x, y) \in Seq(S) /\ Len(Join(x, y)) = Len(x) + Len(y)
      /\ \A i \in 1 .. Len(x) : Join(x, y)[i] = x[i]
      /\ \A i \in 1 .. Len(y) : Join(x, y)[Len(x) + i] = y[i]
  <2>1. x \in Seq(S) /\ y \in Seq(S)
    BY <1>2, <1>3
  <2> QED
    BY ONLY <2>1 DEF Join
<1>5. ASSUME NEW i \in 1 .. Len(s) PROVE Join(x, y)[i] = s[i]
  <2>1. CASE i <= n
    BY <1>1, <1>2, <1>4, <2>1
  <2>2. CASE n < i
    <3> DEFINE j == i - n
    <3>1. j \in 1 .. Len(s) - n /\ j \in 1 .. Len(y) /\ i = n + j /\ i = Len(x) + j
      BY <1>1, <1>2, <1>3, <2>2
    <3> HIDE DEF j
    <3> QED
      BY <1>3, <1>4, <3>1
  <2> QED
    BY <1>1, <2>1, <2>2
<1>6. Join(x, y) = s
  BY <1>1, <1>2, <1>3, <1>4, <1>5, SeqEqual
<1> QED
  BY <1>2, <1>3, <1>6 DEF x, y

\* What can be cut in two ways: if a is as long as c, it begins with c.
LEMMA Cut ==
  ASSUME NEW S, NEW a, NEW b, NEW c, NEW d,
         a \in Seq(S), b \in Seq(S), c \in Seq(S), d \in Seq(S),
         Join(a, b) = Join(c, d), Len(c) <= Len(a)
  PROVE  Join(Rest(a, Len(c)), b) = d
<1> DEFINE front == SubSeq(a, 1, Len(c))
           rest == Rest(a, Len(c))
<1>1. Len(a) \in Nat /\ Len(c) \in 0 .. Len(a)
  BY LenProperties
<1>2. /\ front \in Seq(S) /\ Len(front) = Len(c) /\ \A i \in 1 .. Len(c) : front[i] = a[i]
      /\ rest \in Seq(S) /\ Join(front, rest) = a
  BY <1>1, Rested
<1> HIDE DEF front, rest
<1>3. ASSUME NEW i \in 1 .. Len(c) PROVE front[i] = c[i]
  <2>1. i \in 1 .. Len(a) /\ front[i] = a[i]
    BY <1>1, <1>2
  <2>2. Join(a, b)[i] = a[i]
    BY <2>1, Joined
  <2>3. Join(c, d)[i] = c[i]
    BY Joined
  <2> QED
    BY <2>1, <2>2, <2>3
<1>4. front = c
  BY <1>2, <1>3, SeqEqual
<1>5. Join(c, Join(rest, b)) = Join(c, d)
  BY <1>2, <1>4, Regrouped
<1>6. Join(rest, b) \in Seq(S)
  BY <1>2, Joined
<1>7. Join(rest, b) = d
  BY <1>5, <1>6, Cancelled
<1> QED
  BY <1>7 DEF rest

\* What moves from the front of b to the end of a leaves the two together as they were.
LEMMA Moved ==
  ASSUME NEW S, NEW a, NEW b, NEW n,
         a \in Seq(S), b \in Seq(S), n \in 0 .. Len(b)
  PROVE  Join(Join(a, SubSeq(b, 1, n)), Rest(b, n)) = Join(a, b)
<1> DEFINE x == SubSeq(b, 1, n)
           y == Rest(b, n)
<1>1. x \in Seq(S) /\ y \in Seq(S) /\ Join(x, y) = b
  BY Rested
<1> HIDE DEF x, y
<1>2. Join(Join(a, x), y) = Join(a, b)
  BY <1>1, Regrouped
<1> QED
  BY <1>2 DEF x, y

(***************************************************************************)
(* What a frame looks like                                                 *)
(***************************************************************************)
\* How many symbols the first line of a frame has.
LineLen(f) == IF f.op # "MSG" THEN 3 ELSE IF f.reply = <<>> THEN 9 ELSE 11

\* The control lines, as symbols that only the lemmas below look into.
Short(m, b, s, i, d, c, l) == Join(Join(<<m, b, s, b, i, b>>, <<>>), <<d, c, l>>)
Long(m, b, s, i, r, d, c, l) == Join(Join(<<m, b, s, b, i, b>>, <<r, b>>), <<d, c, l>>)
Other(m, c, l) == <<m, c, l>>
Size(s) == Len(s)

\* A control line without a reply_to, symbol by symbol.
LEMMA ShortIs ==
  ASSUME NEW m, NEW b, NEW s, NEW i, NEW d, NEW c, NEW l,
         m \in Bytes, b \in Bytes, s \in Bytes, i \in Bytes, d \in Bytes, c \in Bytes,
         l \in Bytes
  PROVE  LET line == Short(m, b, s, i, d, c, l) IN
         /\ line \in Seq(Bytes) /\ Size(line) = 9
         /\ line[1] = m /\ line[2] = b /\ line[3] = s /\ line[4] = b /\ line[5] = i
         /\ line[6] = b /\ line[7] = d /\ line[8] = c /\ line[9] = l
BY DEF Short, Join, Size

\* A control line with a reply_to, symbol by symbol.
LEMMA LongIs ==
  ASSUME NEW m, NEW b, NEW s, NEW i, NEW r, NEW d, NEW c, NEW l,
         m \in Bytes, b \in Bytes, s \in Bytes, i \in Bytes, r \in Bytes, d \in Bytes,
         c \in Bytes, l \in Bytes
  PROVE  LET line == Long(m, b, s, i, r, d, c, l) IN
         /\ line \in Seq(Bytes) /\ Size(line) = 11
         /\ line[1] = m /\ line[2] = b /\ line[3] = s /\ line[4] = b /\ line[5] = i
         /\ line[6] = b /\ line[7] = r /\ line[8] = b /\ line[9] = d /\ line[10] = c
         /\ line[11] = l
BY DEF Long, Join, Size

\* The line of any other frame, symbol by symbol.
LEMMA OtherIs ==
  ASSUME NEW m, NEW c, NEW l,
         m \in Bytes, c \in Bytes, l \in Bytes
  PROVE  LET line == Other(m, c, l) IN
         line \in Seq(Bytes) /\ Size(line) = 3 /\ line[1] = m /\ line[2] = c /\ line[3] = l
BY DEF Other, Size

\* What the fields of a frame can be.
LEMMA FrameIs ==
  ASSUME NEW f,
         f \in Frames
  PROVE  /\ f.op \in {"MSG", "PING", "+OK", "-ERR"}
         /\ f.op = "MSG" => f.payload \in Payloads
         /\ f.payload \in Seq(Bytes) /\ Len(f.payload) \in Nat /\ Len(f.payload) < 10
         /\ f.reply \in {<<>>, <<"reply">>}
<1>1. f.op = "MSG" => f.payload \in Payloads
  BY DEF Frames
<1>2. f.op # "MSG" => f.payload = <<>>
  BY DEF Frames
<1>3. f.payload \in Seq(Bytes) /\ Len(f.payload) < 10
  <2>1. CASE f.op = "MSG"
    <3>1. f.payload \in Seq(PayloadBytes) /\ Len(f.payload) < 10
      BY <1>1, <2>1, BoundsAssumption
    <3>2. PayloadBytes \subseteq Bytes
      BY DEF Bytes
    <3> QED
      BY <3>1, <3>2, SeqMonotonic
  <2>2. CASE f.op # "MSG"
    <3>1. f.payload = <<>> /\ <<>> \in Seq(Bytes)
      BY <1>2, <2>2, EmptySeq
    <3>2. Len(<<>>) < 10
      OBVIOUS
    <3> QED
      BY <3>1, <3>2
  <2> QED
    BY <2>1, <2>2
<1>4. Len(f.payload) \in Nat /\ Len(f.payload) < 10
  BY <1>3, LenProperties
<1>6. f.op \in {"MSG", "PING", "+OK", "-ERR"} /\ f.reply \in {<<>>, <<"reply">>}
  BY DEF Frames
<1> QED
  BY <1>1, <1>3, <1>4, <1>6

\* parse_size() reads what a size is written as, which is no line end.
LEMMA DigitIs ==
  ASSUME NEW n,
         n \in Nat, n < 10
  PROVE  /\ Digits[n + 1] \in Bytes /\ Digits[n + 1] \notin {CR, LF}
         /\ ParseSize(Digits[n + 1]) = n
<1>1. n + 1 \in 1 .. 10
  OBVIOUS
<1>2. Len(Digits) = 10 /\ DOMAIN Digits = 1 .. 10
  BY DEF Digits
<1>3. \A i, j \in 1 .. 10 : Digits[i] = Digits[j] => i = j
  BY DEF Digits
<1>4. Digits[n + 1] \in Bytes
  BY <1>1, <1>2 DEF Bytes
<1>5. Digits[n + 1] \notin {CR, LF}
  BY <1>1 DEF Digits, CR, LF
<1> DEFINE at == {i \in 1 .. Len(Digits) : Digits[i] = Digits[n + 1]}
<1>6. at = {n + 1}
  BY <1>1, <1>2, <1>3
<1>7. SelectInSeq(Digits, LAMBDA d : d = Digits[n + 1]) = Min(at)
  BY <1>6 DEF SelectInSeq
<1>8. Min(at) = n + 1
  <2>1. at \in SUBSET Nat /\ n + 1 \in at /\ \A u \in at : n + 1 <= u
    BY <1>1, <1>6
  <2> HIDE DEF at
  <2> QED
    BY <2>1, MinIs
<1> QED
  BY <1>1, <1>4, <1>5, <1>7, <1>8 DEF ParseSize

\* No word of a control line is a CR.
LEMMA Words ==
  /\ "MSG" \in Bytes /\ Space \in Bytes /\ "subject" \in Bytes /\ "sid" \in Bytes
  /\ "PING" \in Bytes /\ "+OK" \in Bytes /\ "-ERR" \in Bytes /\ "reply" \in Bytes
  /\ CR \in Bytes /\ LF \in Bytes
  /\ "MSG" # CR /\ Space # CR /\ "subject" # CR /\ "sid" # CR /\ "reply" # CR /\ LF # CR
  /\ "PING" # CR /\ "+OK" # CR /\ "-ERR" # CR
<1>1. /\ "MSG" \in Bytes /\ Space \in Bytes /\ "subject" \in Bytes /\ "sid" \in Bytes
      /\ "PING" \in Bytes /\ "+OK" \in Bytes /\ "-ERR" \in Bytes /\ "reply" \in Bytes
      /\ CR \in Bytes /\ LF \in Bytes
  BY DEF Bytes
<1>2. /\ "MSG" # CR /\ Space # CR /\ "subject" # CR /\ "sid" # CR /\ "reply" # CR /\ LF # CR
      /\ "PING" # CR /\ "+OK" # CR /\ "-ERR" # CR
  BY DEF Space, CR, LF
<1> QED
  BY <1>1, <1>2

\* The first line of a frame.
Line(f) ==
  IF f.op # "MSG" THEN Other(f.op, CR, LF)
  ELSE IF f.reply = <<>>
       THEN Short("MSG", Space, "subject", "sid", Digits[Len(f.payload) + 1], CR, LF)
       ELSE Long("MSG", Space, "subject", "sid", f.reply[1],
                 Digits[Len(f.payload) + 1], CR, LF)

\* The first line of a frame has one CR, and ends with the CRLF it begins.
LEMMA LineIs ==
  ASSUME NEW f,
         f \in Frames
  PROVE  /\ Line(f) \in Seq(Bytes) /\ LineLen(f) \in {3, 9, 11} /\ Size(Line(f)) = LineLen(f)
         /\ Line(f)[1] = f.op
         /\ \A i \in 1 .. LineLen(f) - 2 : Line(f)[i] # CR
         /\ Line(f)[LineLen(f) - 1] = CR /\ Line(f)[LineLen(f)] = LF
<1> DEFINE d == Digits[Len(f.payload) + 1]
<1>1. d \in Bytes /\ d # CR
  BY FrameIs, DigitIs
<1>2. f.reply \in {<<>>, <<"reply">>} /\ f.op \in {"MSG", "PING", "+OK", "-ERR"}
  BY FrameIs
<1> HIDE DEF d
<1>3. CASE f.op # "MSG"
  <2>1. f.op \in Bytes /\ f.op # CR
    BY <1>2, <1>3, Words
  <2>2. Line(f) = Other(f.op, CR, LF) /\ LineLen(f) = 3
    BY <1>3 DEF Line, LineLen
  <2> QED
    BY <2>1, <2>2, Words, OtherIs
<1>4. CASE f.op = "MSG" /\ f.reply = <<>>
  <2> DEFINE line == Short("MSG", Space, "subject", "sid", d, CR, LF)
  <2>1. Line(f) = line
    BY <1>4 DEF Line, d
  <2>2. /\ line \in Seq(Bytes) /\ Size(line) = 9
        /\ line[1] = "MSG" /\ line[2] = Space /\ line[3] = "subject" /\ line[4] = Space
        /\ line[5] = "sid" /\ line[6] = Space /\ line[7] = d /\ line[8] = CR /\ line[9] = LF
    BY <1>1, Words, ShortIs
  <2> HIDE DEF line
  <2>3. LineLen(f) = 9
    BY <1>4 DEF LineLen
  <2>4. \A i \in 1 .. 7 : line[i] # CR
    BY <1>1, <2>2, Words
  <2> QED
    BY <1>4, <2>1, <2>2, <2>3, <2>4
<1>5. CASE f.op = "MSG" /\ f.reply = <<"reply">>
  <2> DEFINE line == Long("MSG", Space, "subject", "sid", "reply", d, CR, LF)
  <2>1. f.reply # <<>> /\ f.reply[1] = "reply"
    BY <1>5
  <2>2. Line(f) = line
    BY <1>5, <2>1 DEF Line, d
  <2>3. /\ line \in Seq(Bytes) /\ Size(line) = 11
        /\ line[1] = "MSG" /\ line[2] = Space /\ line[3] = "subject" /\ line[4] = Space
        /\ line[5] = "sid" /\ line[6] = Space /\ line[7] = "reply" /\ line[8] = Space
        /\ line[9] = d /\ line[10] = CR /\ line[11] = LF
    BY <1>1, Words, LongIs
  <2> HIDE DEF line
  <2>4. LineLen(f) = 11
    BY <1>5, <2>1 DEF LineLen
  <2>5. \A i \in 1 .. 9 : line[i] # CR
    BY <1>1, <2>3, Words
  <2> QED
    BY <1>5, <2>2, <2>3, <2>4, <2>5
<1> QED
  BY <1>2, <1>3, <1>4, <1>5

(***************************************************************************)
(* What a frame consists of                                                *)
(***************************************************************************)
\* How many symbols a frame has.
EncodedLen(f) == IF f.op # "MSG" THEN 3 ELSE LineLen(f) + Len(f.payload) + 2

\* A message is its line, its payload and a CRLF; any other frame is its line.
LEMMA Encoded ==
  ASSUME NEW f, f \in Frames
  PROVE  /\ f.op = "MSG" => Encode(f) = Join(Line(f), Join(f.payload, CRLF))
         /\ f.op # "MSG" => Encode(f) = Line(f)
<1>1. CASE f.op = "MSG"
  <2>1. Encode(f) = Join(Join(Line(f), f.payload), CRLF)
    <3>1. CASE f.reply = <<>>
      BY <1>1, <3>1, Zenon DEF Encode, Line, Short, Join
    <3>2. CASE f.reply # <<>>
      BY <1>1, <3>2, Zenon DEF Encode, Line, Long, Join
    <3> QED
      BY <3>1, <3>2
  <2>2. Line(f) \in Seq(Bytes) /\ f.payload \in Seq(Bytes)
    BY LineIs, FrameIs
  <2>3. CRLF \in Seq(Bytes)
    <3>1. CR \in Bytes /\ LF \in Bytes
      BY Words
    <3> QED
      BY <3>1 DEF CRLF
  <2> QED
    BY <1>1, <2>1, <2>2, <2>3, Regrouped
<1>2. CASE f.op # "MSG"
  BY <1>2, Zenon DEF Encode, Line, Other
<1> QED
  BY <1>1, <1>2

\* A line end is two symbols.
LEMMA LineEnd ==
  /\ CRLF \in Seq(Bytes) /\ Size(CRLF) = 2 /\ CRLF[1] = CR /\ CRLF[2] = LF
<1>1. CR \in Bytes /\ LF \in Bytes
  BY Words
<1> QED
  BY <1>1 DEF CRLF, Size

\* Where the parts of an encoded frame are.
LEMMA EncodedIs ==
  ASSUME NEW f, f \in Frames
  PROVE  /\ Encode(f) \in Seq(Bytes) /\ Len(Encode(f)) = EncodedLen(f)
         /\ EncodedLen(f) \in Nat /\ LineLen(f) \in 3 .. EncodedLen(f)
         /\ \A i \in 1 .. LineLen(f) : Encode(f)[i] = Line(f)[i]
         /\ f.op = "MSG" =>
              /\ \A i \in 1 .. Len(f.payload) : Encode(f)[LineLen(f) + i] = f.payload[i]
              /\ Encode(f)[EncodedLen(f) - 1] = CR /\ Encode(f)[EncodedLen(f)] = LF
<1>1. /\ Line(f) \in Seq(Bytes) /\ LineLen(f) \in {3, 9, 11}
      /\ Len(Line(f)) = LineLen(f)
  <2>1. /\ Line(f) \in Seq(Bytes) /\ LineLen(f) \in {3, 9, 11}
        /\ Size(Line(f)) = LineLen(f)
    BY LineIs
  <2>2. Len(Line(f)) = LineLen(f)
    BY <2>1, Zenon DEF Size
  <2> QED
    BY <2>1, <2>2
<1>2. CASE f.op # "MSG"
  <2>1. Encode(f) = Line(f) /\ LineLen(f) = 3 /\ EncodedLen(f) = 3
    BY <1>2, Encoded DEF LineLen, EncodedLen
  <2>2. Len(Encode(f)) = EncodedLen(f)
    BY <1>1, <2>1, Zenon
  <2> QED
    BY <1>1, <1>2, <2>1, <2>2
<1>3. CASE f.op = "MSG"
  <2> DEFINE rest == Join(f.payload, CRLF)
             p == f.payload
             n == LineLen(f)
  <2>1. p \in Seq(Bytes) /\ Len(p) \in Nat
    BY FrameIs
  <2>2. CRLF \in Seq(Bytes) /\ Size(CRLF) = 2 /\ CRLF[1] = CR /\ CRLF[2] = LF
    BY LineEnd
  <2>3. Len(CRLF) = 2
    BY <2>2, Zenon DEF Size
  <2> HIDE DEF p
  <2>4. /\ rest \in Seq(Bytes) /\ Len(rest) = Len(p) + 2
        /\ \A i \in 1 .. Len(p) : rest[i] = p[i]
        /\ rest[Len(p) + 1] = CR /\ rest[Len(p) + 2] = LF
    <3>1. /\ Join(p, CRLF) \in Seq(Bytes) /\ Len(Join(p, CRLF)) = Len(p) + Len(CRLF)
          /\ \A i \in 1 .. Len(p) : Join(p, CRLF)[i] = p[i]
          /\ \A i \in 1 .. Len(CRLF) : Join(p, CRLF)[Len(p) + i] = CRLF[i]
      BY <2>1, <2>2, Joined
    <3>2. rest = Join(p, CRLF)
      BY DEF p
    <3>3. 1 \in 1 .. Len(CRLF) /\ 2 \in 1 .. Len(CRLF)
      BY <2>3
    <3> QED
      BY <2>2, <2>3, <3>1, <3>2, <3>3
  <2> HIDE DEF rest, n
  <2>5. Encode(f) = Join(Line(f), rest) /\ n = LineLen(f) /\ EncodedLen(f) = n + Len(p) + 2
    BY <1>3, Encoded DEF rest, n, p, EncodedLen
  <2>6. /\ Join(Line(f), rest) \in Seq(Bytes) /\ Len(Join(Line(f), rest)) = n + Len(rest)
        /\ \A i \in 1 .. n : Join(Line(f), rest)[i] = Line(f)[i]
        /\ \A i \in 1 .. Len(rest) : Join(Line(f), rest)[n + i] = rest[i]
    <3> DEFINE a == Line(f)
    <3>1. a \in Seq(Bytes) /\ rest \in Seq(Bytes)
      BY <1>1, <2>4
    <3>3. Len(a) = n
      BY <1>1, <2>5
    <3> HIDE DEF a
    <3>2. /\ Join(a, rest) \in Seq(Bytes) /\ Len(Join(a, rest)) = Len(a) + Len(rest)
          /\ \A i \in 1 .. Len(a) : Join(a, rest)[i] = a[i]
          /\ \A i \in 1 .. Len(rest) : Join(a, rest)[Len(a) + i] = rest[i]
      BY <3>1, Joined
    <3> QED
      BY <3>2, <3>3, Zenon DEF a
  <2>7. n \in {3, 9, 11}
    BY <1>1, <2>5
  <2> DEFINE e == Join(Line(f), rest)
  <2> HIDE DEF e
  <2>8. /\ e \in Seq(Bytes) /\ Len(e) = n + Len(p) + 2
        /\ \A i \in 1 .. n : e[i] = Line(f)[i]
        /\ \A i \in 1 .. Len(rest) : e[n + i] = rest[i]
    BY <2>1, <2>4, <2>6, <2>7 DEF e
  <2>9. \A i \in 1 .. Len(p) : e[n + i] = p[i]
    BY <2>1, <2>4, <2>8
  <2>10. e[n + Len(p) + 1] = CR /\ e[n + Len(p) + 2] = LF
    <3>1. /\ Len(p) + 1 \in 1 .. Len(rest) /\ Len(p) + 2 \in 1 .. Len(rest)
          /\ n + Len(p) + 1 = n + (Len(p) + 1) /\ n + Len(p) + 2 = n + (Len(p) + 2)
      BY <2>1, <2>4, <2>7
    <3> QED
      BY <2>4, <2>8, <3>1
  <2>11. EncodedLen(f) - 1 = n + Len(p) + 1 /\ n \in 3 .. n + Len(p) + 2
         /\ n + Len(p) + 2 \in Nat
    BY <2>1, <2>5, <2>7
  <2>12. Encode(f) = e
    BY <2>5 DEF e
  <2>13. Len(p) = Len(f.payload) /\ p = f.payload
    BY DEF p
  <2> QED
    BY <2>5, <2>8, <2>9, <2>10, <2>11, <2>12, <2>13
<1> QED
  BY <1>2, <1>3

(***************************************************************************)
(* What rx() and parse_msg() make of bytes that begin with a line          *)
(***************************************************************************)
\* All of the first line of a frame is in data.
Begins(data, f) ==
  /\ LineLen(f) <= Len(data)
  /\ \A i \in 1 .. LineLen(f) : data[i] = Line(f)[i]

\* The line end that rx() finds first is that of the frame's first line.
LEMMA FirstLineIs ==
  ASSUME NEW f, NEW data, f \in Frames, data \in Seq(Bytes), Begins(data, f)
  PROVE  FirstLine(data) = LineLen(f)
<1> DEFINE n == LineLen(f)
           ends == {i \in 2 .. Len(data) : data[i - 1] = CR /\ data[i] = LF}
<1>1. n \in {3, 9, 11} /\ Len(data) \in Nat /\ n <= Len(data)
  BY LineIs, LenProperties DEF Begins
<1>2. \A i \in 1 .. n - 2 : data[i] # CR
  <2> TAKE i \in 1 .. n - 2
  <2>1. i \in 1 .. n
    BY <1>1
  <2>2. data[i] = Line(f)[i]
    BY <2>1 DEF Begins
  <2>3. Line(f)[i] # CR
    BY LineIs
  <2> QED
    BY <2>2, <2>3
<1>3. data[n - 1] = CR /\ data[n] = LF
  <2>1. n - 1 \in 1 .. n /\ n \in 1 .. n
    BY <1>1
  <2>2. data[n - 1] = Line(f)[n - 1] /\ data[n] = Line(f)[n]
    BY <2>1 DEF Begins
  <2> QED
    BY <2>2, LineIs
<1> HIDE DEF n
<1>4. ends \in SUBSET Nat /\ n \in ends
  BY <1>1, <1>3
<1>5. \A i \in ends : n <= i
  <2> SUFFICES ASSUME NEW i \in ends, i < n PROVE FALSE
    BY <1>1
  <2>1. i - 1 \in 1 .. n - 2 /\ data[i - 1] = CR
    BY <1>1
  <2> QED
    BY <1>2, <2>1
<1>6. FirstLine(data) = Min(ends)
  BY <1>4 DEF FirstLine
<1> HIDE DEF ends
<1>7. Min(ends) = n
  BY <1>4, <1>5, MinIs
<1> QED
  BY <1>6, <1>7 DEF n

\* split_control_line() finds the words of the frame's line, and no more.
LEMMA FieldsAre ==
  ASSUME NEW f, NEW data, f \in Frames, f.op = "MSG", data \in Seq(Bytes), Begins(data, f)
  PROVE  Fields(data) = [k \in 1 .. (LineLen(f) - 1) \div 2 |-> data[2 * k - 1]]
<1> DEFINE n == LineLen(f)
           ends == {i \in 1 .. Len(data) : data[i] = CR}
<1>1. n \in {3, 9, 11} /\ Len(data) \in Nat /\ n <= Len(data)
  BY LineIs, LenProperties DEF Begins
<1>2. \A i \in 1 .. n - 2 : data[i] # CR
  <2> TAKE i \in 1 .. n - 2
  <2>1. i \in 1 .. n
    BY <1>1
  <2>2. data[i] = Line(f)[i]
    BY <2>1 DEF Begins
  <2>3. Line(f)[i] # CR
    BY LineIs
  <2> QED
    BY <2>2, <2>3
<1>3. data[n - 1] = CR
  <2>1. n - 1 \in 1 .. n
    BY <1>1
  <2>2. data[n - 1] = Line(f)[n - 1]
    BY <2>1 DEF Begins
  <2> QED
    BY <2>2, LineIs
<1> HIDE DEF n
<1>4. ends \in SUBSET Nat /\ n - 1 \in ends
  BY <1>1, <1>3
<1>5. \A i \in ends : n - 1 <= i
  <2> SUFFICES ASSUME NEW i \in ends, i < n - 1 PROVE FALSE
    BY <1>1
  <2>1. i \in 1 .. n - 2 /\ data[i] = CR
    BY <1>1
  <2> QED
    BY <1>2, <2>1
<1>6. SelectInSeq(data, LAMBDA b : b = CR) = Min(ends)
  BY <1>4 DEF SelectInSeq
<1> HIDE DEF ends
<1>7. Min(ends) = n - 1
  BY <1>4, <1>5, MinIs
<1> QED
  BY <1>6, <1>7 DEF n, Fields

\* parse_msg() finds the size and the reply_to in both places they can be.
LEMMA HeadIs ==
  ASSUME NEW f, NEW data, f \in Frames, f.op = "MSG", data \in Seq(Bytes), Begins(data, f)
  PROVE  PayloadSize(Fields(data)) = Len(f.payload) /\ ReplyTo(Fields(data)) = f.reply
<1> DEFINE d == Digits[Len(f.payload) + 1]
<1>1. f.reply \in {<<>>, <<"reply">>}
  BY FrameIs
<1>2. d \in Bytes /\ ParseSize(d) = Len(f.payload)
  BY FrameIs, DigitIs
<1> HIDE DEF d
<1>3. CASE f.reply = <<>>
  <2>1. LineLen(f) = 9
    BY <1>3 DEF LineLen
  <2>2. data[7] = d
    <3>1. Line(f)[7] = d
      <4>1. Line(f) = Short("MSG", Space, "subject", "sid", d, CR, LF)
        BY <1>3 DEF Line, d
      <4> QED
        BY <1>2, <4>1, Words, ShortIs
    <3>2. 7 \in 1 .. LineLen(f)
      BY <2>1
    <3> QED
      BY <3>1, <3>2 DEF Begins
  <2>3. Fields(data) = [k \in 1 .. 4 |-> data[2 * k - 1]]
    <3>1. (LineLen(f) - 1) \div 2 = 4
      BY <2>1
    <3>2. Fields(data) = [k \in 1 .. (LineLen(f) - 1) \div 2 |-> data[2 * k - 1]]
      BY FieldsAre
    <3> QED
      BY <3>1, <3>2, Zenon
  <2> DEFINE fields == [k \in 1 .. 4 |-> data[2 * k - 1]]
  <2>4. Len(fields) < MaxTokens
    BY DEF MaxTokens
  <2>5. fields[MaxTokens - 1] = data[7]
    BY DEF MaxTokens
  <2> HIDE DEF fields
  <2>6. PayloadSize(fields) = ParseSize(d) /\ ReplyTo(fields) = <<>>
    BY <2>2, <2>4, <2>5 DEF PayloadSize, SizeField, ReplyTo
  <2> QED
    BY <1>2, <1>3, <2>3, <2>6 DEF fields
<1>4. CASE f.reply = <<"reply">>
  <2>1. f.reply # <<>> /\ f.reply[1] = "reply"
    BY <1>4
  <2>2. LineLen(f) = 11
    BY <2>1 DEF LineLen
  <2>3. data[7] = "reply" /\ data[9] = d
    <3>1. Line(f)[7] = "reply" /\ Line(f)[9] = d
      <4>1. Line(f) = Long("MSG", Space, "subject", "sid", "reply", d, CR, LF)
        BY <2>1 DEF Line, d
      <4> QED
        BY <1>2, <4>1, Words, LongIs
    <3>2. 7 \in 1 .. LineLen(f) /\ 9 \in 1 .. LineLen(f)
      BY <2>2
    <3> QED
      BY <3>1, <3>2 DEF Begins
  <2>4. Fields(data) = [k \in 1 .. 5 |-> data[2 * k - 1]]
    <3>1. (LineLen(f) - 1) \div 2 = 5
      BY <2>2
    <3>2. Fields(data) = [k \in 1 .. (LineLen(f) - 1) \div 2 |-> data[2 * k - 1]]
      BY FieldsAre
    <3> QED
      BY <3>1, <3>2, Zenon
  <2> DEFINE fields == [k \in 1 .. 5 |-> data[2 * k - 1]]
  <2>5. ~(Len(fields) < MaxTokens)
    BY DEF MaxTokens
  <2>6. fields[MaxTokens] = data[9] /\ fields[MaxTokens - 1] = data[7]
    BY DEF MaxTokens
  <2> HIDE DEF fields
  <2>7. PayloadSize(fields) = ParseSize(d) /\ ReplyTo(fields) = <<data[7]>>
    BY <2>3, <2>5, <2>6 DEF PayloadSize, SizeField, ReplyTo
  <2> QED
    BY <1>2, <1>4, <2>3, <2>4, <2>7 DEF fields
<1> QED
  BY <1>1, <1>3, <1>4

\* Two ways to cut the same bytes agree where both begin.
LEMMA Agree ==
  ASSUME NEW S, NEW a, NEW b, NEW c, NEW d, NEW i,
         a \in Seq(S), b \in Seq(S), c \in Seq(S), d \in Seq(S), Join(a, b) = Join(c, d),
         i \in 1 .. Len(a), i \in 1 .. Len(c)
  PROVE  a[i] = c[i]
<1>1. Join(a, b)[i] = a[i]
  BY Joined
<1>2. Join(c, d)[i] = c[i]
  BY Joined
<1> QED
  BY <1>1, <1>2

\* When there is a line, it is the first line of the frame.
LEMMA LineThere ==
  ASSUME NEW f, NEW data, NEW more, NEW rest,
         f \in Frames, data \in Seq(Bytes), more \in Seq(Bytes), rest \in Seq(Bytes),
         Join(data, more) = Join(Encode(f), rest),
         FirstLine(data) # 0 \/ LineLen(f) <= Len(data)
  PROVE  Begins(data, f)
<1>1. LineLen(f) \in {3, 9, 11} /\ Len(data) \in Nat
  BY LineIs, LenProperties
<1>2. ASSUME NEW i, i \in 1 .. Len(data), i \in 1 .. LineLen(f) PROVE data[i] = Line(f)[i]
  <2>1. Encode(f) \in Seq(Bytes) /\ Encode(f)[i] = Line(f)[i]
    BY <1>2, EncodedIs
  <2>2. i \in 1 .. Len(Encode(f))
    <3>1. Len(Encode(f)) = EncodedLen(f) /\ EncodedLen(f) \in Nat
          /\ LineLen(f) \in 3 .. EncodedLen(f)
      BY EncodedIs
    <3>2. i \in 1 .. EncodedLen(f)
      BY <1>1, <1>2, <3>1
    <3> QED
      BY <3>1, <3>2, Zenon
  <2>3. data[i] = Encode(f)[i]
    BY <1>2, <2>1, <2>2, Agree
  <2> QED
    BY <2>1, <2>3
<1>3. LineLen(f) <= Len(data)
  <2> SUFFICES ASSUME ~(LineLen(f) <= Len(data)) PROVE FALSE
    OBVIOUS
  <2>1. PICK i \in 2 .. Len(data) : data[i - 1] = CR
    <3>1. {i \in 2 .. Len(data) : data[i - 1] = CR /\ data[i] = LF} # {}
      BY Zenon DEF FirstLine
    <3> QED
      BY <3>1
  <2>2. i - 1 \in 1 .. Len(data) /\ i - 1 \in 1 .. LineLen(f) /\ i - 1 \in 1 .. LineLen(f) - 2
    BY <1>1
  <2>3. Line(f)[i - 1] # CR
    BY <2>2, LineIs
  <2> QED
    BY <1>2, <2>1, <2>2, <2>3
<1>4. \A i \in 1 .. LineLen(f) : data[i] = Line(f)[i]
  <2> TAKE i \in 1 .. LineLen(f)
  <2>1. i \in 1 .. Len(data)
    BY <1>1, <1>3
  <2> QED
    BY <1>2, <2>1
<1> QED
  BY <1>3, <1>4 DEF Begins

\* All of a frame is in data.
Holds(data, f) ==
  /\ EncodedLen(f) <= Len(data)
  /\ \A i \in 1 .. EncodedLen(f) : data[i] = Encode(f)[i]

\* When there are as many bytes as the frame has, they are the frame.
LEMMA FrameThere ==
  ASSUME NEW f, NEW data, NEW more, NEW rest,
         f \in Frames, data \in Seq(Bytes), more \in Seq(Bytes), rest \in Seq(Bytes),
         Join(data, more) = Join(Encode(f), rest), EncodedLen(f) <= Len(data)
  PROVE  Holds(data, f)
<1>1. EncodedLen(f) \in Nat /\ Len(data) \in Nat /\ Encode(f) \in Seq(Bytes)
  BY EncodedIs, LenProperties
<1>2. ASSUME NEW i \in 1 .. EncodedLen(f) PROVE data[i] = Encode(f)[i]
  <2>1. i \in 1 .. Len(data)
    BY <1>1
  <2>2. i \in 1 .. Len(Encode(f))
    <3>1. Len(Encode(f)) = EncodedLen(f)
      BY EncodedIs
    <3> QED
      BY <3>1, Zenon
  <2> QED
    BY <1>1, <2>1, <2>2, Agree
<1> QED
  BY <1>2 DEF Holds

\* Who has the frame has its first line.
LEMMA HoldsBegins ==
  ASSUME NEW f, NEW data, f \in Frames, data \in Seq(Bytes), Holds(data, f)
  PROVE  Begins(data, f)
<1>1. EncodedLen(f) \in Nat /\ LineLen(f) \in 3 .. EncodedLen(f) /\ Len(data) \in Nat
      /\ \A i \in 1 .. LineLen(f) : Encode(f)[i] = Line(f)[i]
  BY EncodedIs, LenProperties
<1>2. \A i \in 1 .. LineLen(f) : i \in 1 .. EncodedLen(f)
  BY <1>1
<1>3. EncodedLen(f) <= Len(data) /\ \A i \in 1 .. EncodedLen(f) : data[i] = Encode(f)[i]
  BY DEF Holds
<1>4. LineLen(f) <= Len(data)
  BY <1>1, <1>3
<1>5. \A i \in 1 .. LineLen(f) : data[i] = Line(f)[i]
  BY <1>1, <1>2, <1>3, Zenon
<1> QED
  BY <1>4, <1>5 DEF Begins

\* What follows the line is the payload, and a CRLF.
LEMMA BodyIs ==
  ASSUME NEW f, NEW data, f \in Frames, f.op = "MSG", data \in Seq(Bytes), Holds(data, f)
  PROVE  /\ SubSeq(data, LineLen(f) + 1, LineLen(f) + Len(f.payload)) = f.payload
         /\ SubSeq(data, EncodedLen(f) - 1, EncodedLen(f)) = CRLF
<1> DEFINE n == LineLen(f)
           p == f.payload
           e == Encode(f)
           m == EncodedLen(f)
<1>1. /\ p \in Seq(Bytes) /\ Len(p) \in Nat /\ n \in Nat /\ m = n + Len(p) + 2
      /\ Len(data) \in Nat /\ m <= Len(data)
  BY FrameIs, LineIs, LenProperties DEF EncodedLen, Holds
<1>2. /\ \A i \in 1 .. m : data[i] = e[i]
      /\ \A i \in 1 .. Len(p) : e[n + i] = p[i]
      /\ e[m - 1] = CR /\ e[m] = LF
  BY EncodedIs DEF Holds
<1> HIDE DEF n, p, e, m
<1>3. SubSeq(data, n + 1, n + Len(p)) = p
  <2> DEFINE s == SubSeq(data, n + 1, n + Len(p))
  <2>1. s \in Seq(Bytes) /\ Len(s) = Len(p) /\ \A i \in 1 .. Len(p) : s[i] = data[n + i]
    BY <1>1
  <2> HIDE DEF s
  <2>2. ASSUME NEW i \in 1 .. Len(p) PROVE s[i] = p[i]
    <3>1. n + i \in 1 .. m
      BY <1>1
    <3> QED
      BY <1>2, <2>1, <3>1
  <2>3. s = p
    BY <1>1, <2>1, <2>2, SeqEqual
  <2> QED
    BY <2>3 DEF s
<1>4. SubSeq(data, m - 1, m) = CRLF
  <2> DEFINE s == SubSeq(data, m - 1, m)
  <2>1. s \in Seq(Bytes) /\ Len(s) = 2 /\ s[1] = data[m - 1] /\ s[2] = data[m]
    <3>1. m - 1 \in Nat \ {0} /\ m \in Nat /\ m <= Len(data) /\ m - (m - 1) + 1 = 2
      BY <1>1
    <3>2. \A i \in m - 1 .. m : data[i] \in Bytes
      BY <3>1
    <3>3. /\ s \in Seq(Bytes) /\ Len(s) = m - (m - 1) + 1
          /\ \A i \in 1 .. m - (m - 1) + 1 : s[i] = data[m - 1 + i - 1]
      BY <3>1, <3>2, SubSeqProperties
    <3> QED
      BY <3>1, <3>3
  <2>2. m - 1 \in 1 .. m /\ m \in 1 .. m
    BY <1>1
  <2>3. data[m - 1] = CR /\ data[m] = LF
    BY <1>2, <2>2
  <2> HIDE DEF s
  <2>4. s = <<CR, LF>>
    BY <2>1, <2>3
  <2> QED
    BY <2>4 DEF s, CRLF
<1> QED
  BY <1>3, <1>4 DEF n, p, m

\* make_message() finds the payload in a whole message.
LEMMA PayloadFound ==
  ASSUME NEW f, NEW data, f \in Frames, f.op = "MSG", data \in Seq(Bytes), Holds(data, f),
         Len(data) = EncodedLen(f)
  PROVE  PayloadIn(data) = f.payload
<1> DEFINE n == LineLen(f)
           p == f.payload
<1>1. PayloadSize(Fields(data)) = Len(p) /\ FirstLine(data) = n
  BY HoldsBegins, HeadIs, FirstLineIs
<1>2. SubSeq(data, n + 1, n + Len(p)) = p
  BY BodyIs
<1>3. /\ p \in Seq(Bytes) /\ Len(p) \in Nat /\ n \in Nat
      /\ EncodedLen(f) = n + Len(p) + 2
  BY FrameIs, LineIs DEF EncodedLen
<1> HIDE DEF n, p
<1>4. Len(data) - n = Len(p) + 2
  BY <1>3
<1>5. Min({Len(p), Len(data) - n}) = Len(p)
  <2> DEFINE both == {Len(p), Len(data) - n}
  <2>1. both \in SUBSET Nat /\ Len(p) \in both /\ \A u \in both : Len(p) <= u
    BY <1>3, <1>4
  <2> HIDE DEF both
  <2>2. Min(both) = Len(p)
    BY <2>1, MinIs
  <2> QED
    BY <2>2 DEF both
<1>6. CASE Len(p) = 0
  <2>1. p = <<>>
    BY <1>3, <1>6, EmptySeq
  <2>2. PayloadIn(data) = <<>>
    BY <1>1, <1>6, Zenon DEF PayloadIn
  <2> QED
    BY <2>1, <2>2 DEF p
<1>7. CASE Len(p) # 0
  <2>1. PayloadIn(data) = SubSeq(data, n + 1, n + Len(p))
    BY <1>1, <1>5, <1>7, Zenon DEF PayloadIn
  <2> QED
    BY <1>2, <2>1 DEF p
<1> QED
  BY <1>6, <1>7

(***************************************************************************)
(* The bytes of the last frames: the recursive function is what its        *)
(* definition says                                                         *)
(***************************************************************************)
\* How EncodeLast is computed from itself; g is EncodeLast as far as m.
Step(fs, g, n) == IF n = 0 THEN <<>> ELSE Join(Encode(fs[Len(fs) + 1 - n]), g[n - 1])
IsLast(fs, g, m) == g = [n \in 0 .. m |-> Step(fs, g, n)]

\* There is such a function: a least m without one would follow one that has one.
LEMMA LastExists ==
  ASSUME NEW fs, fs \in Seq(Frames)
  PROVE  \A m \in 0 .. Len(fs) : \E g : IsLast(fs, g, m)
<1> SUFFICES ASSUME ~(\A m \in 0 .. Len(fs) : \E g : IsLast(fs, g, m)) PROVE FALSE
  OBVIOUS
<1> DEFINE bad == {m \in 0 .. Len(fs) : ~(\E g : IsLast(fs, g, m))}
<1>1. bad \in SUBSET Nat /\ bad # {}
  OBVIOUS
<1>2. PICK m \in bad : \A u \in bad : m <= u
  BY <1>1, Least
<1>3. Len(fs) \in Nat /\ m \in 0 .. Len(fs) /\ ~(\E g : IsLast(fs, g, m))
  BY <1>2, LenProperties
<1>4. m # 0
  <2> SUFFICES ASSUME m = 0 PROVE FALSE
    OBVIOUS
  <2> DEFINE g == [n \in 0 .. 0 |-> <<>>]
  <2>1. \A n \in 0 .. 0 : Step(fs, g, n) = <<>>
    BY DEF Step
  <2>2. [n \in 0 .. 0 |-> Step(fs, g, n)] = g
    BY <2>1
  <2> QED
    BY <1>3, <2>2 DEF IsLast
<1>5. PICK g : IsLast(fs, g, m - 1)
  <2>1. m - 1 \in 0 .. Len(fs) /\ ~(m <= m - 1)
    BY <1>3, <1>4
  <2>2. m - 1 \notin bad
    BY <1>2, <2>1
  <2> QED
    BY <2>1, <2>2
<1> DEFINE h == [n \in 0 .. m |-> IF n = m THEN Step(fs, g, m) ELSE g[n]]
<1>6. \A n \in 0 .. m - 1 : g[n] = Step(fs, g, n) /\ h[n] = g[n]
  <2> TAKE n \in 0 .. m - 1
  <2>1. n \in 0 .. m /\ n # m
    BY <1>3
  <2>2. [k \in 0 .. m - 1 |-> Step(fs, g, k)][n] = Step(fs, g, n)
    OBVIOUS
  <2>3. g[n] = Step(fs, g, n)
    BY <1>5, <2>2, Zenon DEF IsLast
  <2> QED
    BY <2>1, <2>3
<1>7. h[m] = Step(fs, g, m)
  BY <1>3
<1>8. \A n \in 0 .. m : Step(fs, h, n) = Step(fs, g, n)
  <2> TAKE n \in 0 .. m
  <2>1. CASE n = 0
    BY <2>1 DEF Step
  <2>2. CASE n # 0
    <3>1. n - 1 \in 0 .. m - 1
      BY <1>3, <2>2
    <3>2. h[n - 1] = g[n - 1]
      BY <1>6, <3>1
    <3> HIDE DEF h
    <3> QED
      BY <2>2, <3>2 DEF Step
  <2> QED
    BY <2>1, <2>2
<1>9. \A n \in 0 .. m : h[n] = Step(fs, h, n)
  <2> TAKE n \in 0 .. m
  <2>1. n = m \/ n \in 0 .. m - 1
    BY <1>3
  <2> HIDE DEF h
  <2> QED
    BY <1>6, <1>7, <1>8, <2>1
<1>10. IsLast(fs, h, m)
  <2>1. h = [n \in 0 .. m |-> h[n]]
    OBVIOUS
  <2> HIDE DEF h
  <2>2. [n \in 0 .. m |-> h[n]] = [n \in 0 .. m |-> Step(fs, h, n)]
    BY <1>9
  <2> QED
    BY <2>1, <2>2, Zenon DEF IsLast
<1> QED
  BY <1>3, <1>10

\* So EncodeLast, which is chosen, is it.
LEMMA LastIs ==
  ASSUME NEW fs, fs \in Seq(Frames)
  PROVE  IsLast(fs, EncodeLast(fs), Len(fs))
<1>1. \E g : IsLast(fs, g, Len(fs))
  <2>1. Len(fs) \in 0 .. Len(fs)
    BY LenProperties
  <2> QED
    BY <2>1, LastExists
<1>2. EncodeLast(fs) = CHOOSE g : IsLast(fs, g, Len(fs))
  BY Zenon DEF EncodeLast, IsLast, Step, Join
<1> QED
  BY <1>1, <1>2, Zenon

\* And it does what its recursive definition says.
LEMMA Unfold ==
  ASSUME NEW fs, fs \in Seq(Frames)
  PROVE  /\ EncodeLast(fs)[0] = <<>>
         /\ \A n \in 1 .. Len(fs) :
              EncodeLast(fs)[n] = Join(Encode(fs[Len(fs) + 1 - n]), EncodeLast(fs)[n - 1])
<1> DEFINE g == EncodeLast(fs)
<1>1. IsLast(fs, g, Len(fs)) /\ Len(fs) \in Nat
  BY LastIs, LenProperties
<1> HIDE DEF g
<1>2. \A n \in 0 .. Len(fs) : g[n] = Step(fs, g, n)
  <2> TAKE n \in 0 .. Len(fs)
  <2>1. [k \in 0 .. Len(fs) |-> Step(fs, g, k)][n] = Step(fs, g, n)
    OBVIOUS
  <2> QED
    BY <1>1, <2>1, Zenon DEF IsLast
<1>3. g[0] = <<>>
  BY <1>1, <1>2 DEF Step
<1>4. ASSUME NEW n \in 1 .. Len(fs)
      PROVE  g[n] = Join(Encode(fs[Len(fs) + 1 - n]), g[n - 1])
  <2>1. n \in 0 .. Len(fs) /\ n # 0
    BY <1>1
  <2> QED
    BY <1>2, <2>1 DEF Step
<1> QED
  BY <1>3, <1>4 DEF g

\* It returns bytes.
LEMMA LastTyped ==
  ASSUME NEW fs, fs \in Seq(Frames)
  PROVE  \A n \in 0 .. Len(fs) : EncodeLast(fs)[n] \in Seq(Bytes)
<1> SUFFICES ASSUME ~(\A n \in 0 .. Len(fs) : EncodeLast(fs)[n] \in Seq(Bytes)) PROVE FALSE
  OBVIOUS
<1> DEFINE bad == {n \in 0 .. Len(fs) : EncodeLast(fs)[n] \notin Seq(Bytes)}
<1>1. bad \in SUBSET Nat /\ bad # {}
  OBVIOUS
<1>2. PICK m \in bad : \A u \in bad : m <= u
  BY <1>1, Least
<1>3. Len(fs) \in Nat /\ m \in 0 .. Len(fs) /\ EncodeLast(fs)[m] \notin Seq(Bytes)
  BY <1>2, LenProperties
<1>4. m # 0
  BY <1>3, Unfold, EmptySeq
<1>5. EncodeLast(fs)[m - 1] \in Seq(Bytes)
  <2>1. m - 1 \in 0 .. Len(fs) /\ ~(m <= m - 1)
    BY <1>3, <1>4
  <2> QED
    BY <1>2, <2>1
<1>6. m \in 1 .. Len(fs) /\ Len(fs) + 1 - m \in 1 .. Len(fs)
  BY <1>3, <1>4
<1>7. Encode(fs[Len(fs) + 1 - m]) \in Seq(Bytes)
  <2>1. fs[Len(fs) + 1 - m] \in Frames
    BY <1>6
  <2> QED
    BY <2>1, EncodedIs
<1>8. EncodeLast(fs)[m] = Join(Encode(fs[Len(fs) + 1 - m]), EncodeLast(fs)[m - 1])
  BY <1>6, Unfold
<1> QED
  BY <1>3, <1>5, <1>7, <1>8, Joined

\* What is sent after n frames is the next frame and what is sent after that.
LEMMA NextFrame ==
  ASSUME NEW fs, NEW n, fs \in Seq(Frames), n \in Nat, n < Len(fs)
  PROVE  /\ fs[n + 1] \in Frames
         /\ EncodeLast(fs)[Len(fs) - (n + 1)] \in Seq(Bytes)
         /\ EncodeLast(fs)[Len(fs) - n]
              = Join(Encode(fs[n + 1]), EncodeLast(fs)[Len(fs) - (n + 1)])
<1>1. Len(fs) \in Nat
  BY LenProperties
<1> DEFINE k == Len(fs) - n
<1>2. k \in 1 .. Len(fs) /\ k - 1 \in 0 .. Len(fs) /\ Len(fs) + 1 - k = n + 1
      /\ k - 1 = Len(fs) - (n + 1) /\ n + 1 \in 1 .. Len(fs)
  BY <1>1
<1>3. fs[n + 1] \in Frames
  BY <1>2
<1> HIDE DEF k
<1>4. EncodeLast(fs)[k - 1] \in Seq(Bytes)
  BY <1>2, LastTyped
<1>5. EncodeLast(fs)[k] = Join(Encode(fs[Len(fs) + 1 - k]), EncodeLast(fs)[k - 1])
  BY <1>2, Unfold
<1>6. EncodeLast(fs)[k] = Join(Encode(fs[n + 1]), EncodeLast(fs)[Len(fs) - (n + 1)])
  BY <1>2, <1>5, Zenon
<1>7. EncodeLast(fs)[Len(fs) - (n + 1)] \in Seq(Bytes)
  BY <1>2, <1>4, Zenon
<1> QED
  BY <1>3, <1>6, <1>7 DEF k

(***************************************************************************)
(* The messages that were made of the first frames                         *)
(***************************************************************************)
\* Message i of ms is frame at[i] of the first n of fs, of which none is left out.
Matches(ms, fs, n, at) ==
  /\ \A i, j \in DOMAIN ms : i < j => at[i] < at[j]
  /\ \A k \in 1 .. n : fs[k].op = "MSG" <=> \E i \in DOMAIN ms : at[i] = k
  /\ \A i \in DOMAIN ms :
       ms[i] = [reply |-> fs[at[i]].reply, payload |-> fs[at[i]].payload]

Made(ms, fs, n) == \E at \in [DOMAIN ms -> 1 .. n] : Matches(ms, fs, n, at)

\* Nothing is made of no frame.
LEMMA MadeNone == ASSUME NEW fs PROVE Made(<<>>, fs, 0)
<1> DEFINE at == [i \in DOMAIN <<>> |-> 0]
<1>1. DOMAIN <<>> = {}
  OBVIOUS
<1>2. at \in [DOMAIN <<>> -> 1 .. 0]
  BY <1>1
<1>3. Matches(<<>>, fs, 0, at)
  BY <1>1 DEF Matches
<1> QED
  BY <1>2, <1>3 DEF Made

\* A frame that is no message adds none.
LEMMA MadeSame ==
  ASSUME NEW ms, NEW fs, NEW n, n \in Nat, Made(ms, fs, n), fs[n + 1].op # "MSG"
  PROVE  Made(ms, fs, n + 1)
<1>1. PICK at \in [DOMAIN ms -> 1 .. n] : Matches(ms, fs, n, at)
  BY DEF Made
<1>2. at \in [DOMAIN ms -> 1 .. n + 1] /\ \A i \in DOMAIN ms : at[i] # n + 1
  BY <1>1
<1>3. \A k \in 1 .. n + 1 : k \in 1 .. n \/ k = n + 1
  OBVIOUS
<1>4. \A k \in 1 .. n + 1 : fs[k].op = "MSG" <=> \E i \in DOMAIN ms : at[i] = k
  BY <1>1, <1>2, <1>3 DEF Matches
<1>5. Matches(ms, fs, n + 1, at)
  BY <1>1, <1>4 DEF Matches
<1> QED
  BY <1>2, <1>5 DEF Made

\* A message adds itself.
LEMMA MadeMore ==
  ASSUME NEW M, NEW ms, NEW fs, NEW n, NEW m,
         ms \in Seq(M), m \in M, n \in Nat, Made(ms, fs, n), fs[n + 1].op = "MSG",
         m = [reply |-> fs[n + 1].reply, payload |-> fs[n + 1].payload]
  PROVE  Made(Append(ms, m), fs, n + 1)
<1>1. PICK at \in [DOMAIN ms -> 1 .. n] : Matches(ms, fs, n, at)
  BY DEF Made
<1> DEFINE ns == Append(ms, m)
           l == Len(ms)
           b == [i \in 1 .. l + 1 |-> IF i = l + 1 THEN n + 1 ELSE at[i]]
<1>2. /\ l \in Nat /\ DOMAIN ms = 1 .. l /\ DOMAIN ns = 1 .. l + 1
      /\ \A i \in 1 .. l : ns[i] = ms[i]
      /\ ns[l + 1] = m
  <2>1. DOMAIN ns = 1 .. Len(ns) /\ Len(ns) = l + 1
    BY AppendProperties
  <2> QED
    BY <2>1, AppendProperties, LenProperties
<1> HIDE DEF ns, l
<1>3. \A i \in 1 .. l : at[i] \in 1 .. n
  BY <1>1, <1>2
<1>4. \A i \in 1 .. l : i \in 1 .. l + 1 /\ b[i] = at[i] /\ b[i] \in 1 .. n
  <2> TAKE i \in 1 .. l
  <2>1. i \in 1 .. l + 1 /\ i # l + 1
    BY <1>2
  <2> QED
    BY <1>3, <2>1
<1>5. b[l + 1] = n + 1 /\ l + 1 \in 1 .. l + 1
  BY <1>2
<1>6. \A i \in 1 .. l + 1 : i \in 1 .. l \/ i = l + 1
  BY <1>2
<1>7. b \in [1 .. l + 1 -> 1 .. n + 1]
  BY <1>2, <1>3, <1>6
<1> HIDE DEF b
<1>8. \A i, j \in 1 .. l + 1 : i < j => b[i] < b[j]
  <2> SUFFICES ASSUME NEW i \in 1 .. l + 1, NEW j \in 1 .. l + 1, i < j PROVE b[i] < b[j]
    OBVIOUS
  <2>1. i \in 1 .. l
    BY <1>2
  <2>2. CASE j \in 1 .. l
    <3>1. at[i] < at[j]
      BY <1>1, <1>2, <2>1, <2>2 DEF Matches
    <3> QED
      BY <1>4, <2>1, <2>2, <3>1
  <2>3. CASE j = l + 1
    BY <1>4, <1>5, <2>1, <2>3
  <2> QED
    BY <1>6, <2>2, <2>3
<1>9. \A k \in 1 .. n + 1 : fs[k].op = "MSG" <=> \E i \in 1 .. l + 1 : b[i] = k
  <2> TAKE k \in 1 .. n + 1
  <2>1. CASE k = n + 1
    BY <1>5, <2>1
  <2>2. CASE k \in 1 .. n
    <3>1. fs[k].op = "MSG" <=> \E i \in 1 .. l : at[i] = k
      BY <1>1, <1>2, <2>2 DEF Matches
    <3>2. b[l + 1] # k
      BY <1>5, <2>2
    <3>3. (\E i \in 1 .. l : at[i] = k) <=> \E i \in 1 .. l + 1 : b[i] = k
      BY <1>4, <1>6, <3>2
    <3> QED
      BY <3>1, <3>3
  <2> QED
    BY <2>1, <2>2
<1>10. \A i \in 1 .. l + 1 :
         ns[i] = [reply |-> fs[b[i]].reply, payload |-> fs[b[i]].payload]
  <2> TAKE i \in 1 .. l + 1
  <2>1. CASE i \in 1 .. l
    <3>1. ms[i] = [reply |-> fs[at[i]].reply, payload |-> fs[at[i]].payload]
      BY <1>1, <1>2, <2>1 DEF Matches
    <3>2. ns[i] = ms[i] /\ b[i] = at[i]
      BY <1>2, <1>4, <2>1
    <3> QED
      BY <3>1, <3>2, Zenon
  <2>2. CASE i = l + 1
    BY <1>2, <1>5, <2>2, Zenon
  <2> QED
    BY <1>6, <2>1, <2>2
<1>11. Matches(ns, fs, n + 1, b) /\ b \in [DOMAIN ns -> 1 .. n + 1]
  BY <1>2, <1>7, <1>8, <1>9, <1>10, Zenon DEF Matches
<1> QED
  BY <1>11 DEF Made, ns

(***************************************************************************)
(* The inductive invariant                                                 *)
(***************************************************************************)
\* What rx() still has to look at when it is done with the first n frames.
Ahead(n) == EncodeLast(frames)[Len(frames) - n]

\* It is done with the first n frames, and what follows starts with the next.
Handled(n) ==
  /\ \A k \in 1 .. n : frames[k].op # "-ERR"
  /\ Join(buffer, wire) = Ahead(n)
  /\ Made(messages, frames, n)
  /\ Len(messages) + pongs <= n

\* While it waits for a payload, the sizes are those of the frame it is at.
InBody(n) ==
  rx \in {"body", "readBody"} =>
    /\ n < Len(frames) /\ frames[n + 1].op = "MSG"
    /\ lineSize = LineLen(frames[n + 1]) /\ lineSize <= Len(buffer)
    /\ total = EncodedLen(frames[n + 1])

\* The match condition is called with what it has not counted yet.
Counts == count = from /\ (rx \notin {"body", "readBody"} => from = 0)

\* The inductive invariant.
IInv == TypeOK /\ Counts /\ \E n \in 0 .. Len(frames) : Handled(n) /\ InBody(n)

\* What rx() makes of MSG frames.
Messages == [reply : {<<>>, <<"reply">>}, payload : Payloads]

\* What is in the buffer and still to come is the next frame and those after it.
LEMMA AtFrame ==
  ASSUME NEW n \in 0 .. Len(frames), TypeOK, Handled(n), n < Len(frames)
  PROVE  /\ frames[n + 1] \in Frames /\ Ahead(n + 1) \in Seq(Bytes)
         /\ Join(buffer, wire) = Join(Encode(frames[n + 1]), Ahead(n + 1))
<1>1. frames \in Seq(Frames) /\ n \in Nat
  BY DEF TypeOK
<1>2. /\ frames[n + 1] \in Frames
      /\ EncodeLast(frames)[Len(frames) - (n + 1)] \in Seq(Bytes)
      /\ EncodeLast(frames)[Len(frames) - n]
           = Join(Encode(frames[n + 1]), EncodeLast(frames)[Len(frames) - (n + 1)])
  BY <1>1, NextFrame
<1> QED
  BY <1>2, Zenon DEF Handled, Ahead

\* A line end in the buffer means that the buffer begins with the next frame's line.
LEMMA AtLine ==
  ASSUME NEW n \in 0 .. Len(frames), TypeOK, Handled(n), LineSize # 0
  PROVE  /\ n < Len(frames) /\ Begins(buffer, frames[n + 1])
         /\ LineSize = LineLen(frames[n + 1]) /\ buffer[1] = frames[n + 1].op
<1>1. buffer \in Seq(Bytes) /\ wire \in Seq(Bytes) /\ frames \in Seq(Frames)
  BY DEF TypeOK
<1>2. n < Len(frames)
  <2> SUFFICES ASSUME ~(n < Len(frames)) PROVE FALSE
    OBVIOUS
  <2>1. Len(frames) - n = 0
    BY <1>1, LenProperties
  <2>2. Join(buffer, wire) = <<>>
    <3>1. EncodeLast(frames)[0] = <<>>
      BY <1>1, Unfold
    <3> QED
      BY <2>1, <3>1, Zenon DEF Handled, Ahead
  <2>3. ~(0 < Len(buffer)) /\ Len(buffer) \in Nat
    <3>1. Len(Join(buffer, wire)) = Len(buffer) + Len(wire)
      BY <1>1, Joined
    <3>2. ~(0 < Len(Join(buffer, wire)))
      BY <2>2
    <3>3. Len(buffer) \in Nat /\ Len(wire) \in Nat
      BY <1>1, LenProperties
    <3> QED
      BY <3>1, <3>2, <3>3
  <2>4. {i \in 2 .. Len(buffer) : buffer[i - 1] = CR /\ buffer[i] = LF} = {}
    BY <2>3
  <2> QED
    BY <2>4, Zenon DEF LineSize, FirstLine
<1>3. /\ frames[n + 1] \in Frames /\ Ahead(n + 1) \in Seq(Bytes)
      /\ Join(buffer, wire) = Join(Encode(frames[n + 1]), Ahead(n + 1))
  BY <1>2, AtFrame
<1>4. FirstLine(buffer) # 0
  BY DEF LineSize
<1>5. Begins(buffer, frames[n + 1])
  BY <1>1, <1>3, <1>4, LineThere
<1>6. LineSize = LineLen(frames[n + 1])
  BY <1>1, <1>3, <1>5, FirstLineIs DEF LineSize
<1>7. buffer[1] = frames[n + 1].op
  <2>1. 1 \in 1 .. LineLen(frames[n + 1]) /\ Line(frames[n + 1])[1] = frames[n + 1].op
    BY <1>3, LineIs
  <2> QED
    BY <1>5, <2>1 DEF Begins
<1> QED
  BY <1>2, <1>5, <1>6, <1>7

\* What is true when the match condition says that the message is complete.
LEMMA Complete ==
  ASSUME NEW n \in 0 .. Len(frames), TypeOK, Counts, Handled(n), InBody(n),
         rx = "body", Counted >= total
  PROVE  /\ n < Len(frames) /\ frames[n + 1] \in Frames /\ frames[n + 1].op = "MSG"
         /\ total = EncodedLen(frames[n + 1]) /\ Matched = total /\ total <= Len(buffer)
         /\ Holds(buffer, frames[n + 1])
         /\ Message = [reply |-> frames[n + 1].reply, payload |-> frames[n + 1].payload]
<1> DEFINE f == frames[n + 1]
<1>1. /\ buffer \in Seq(Bytes) /\ wire \in Seq(Bytes) /\ Len(buffer) \in Nat
      /\ total \in Nat /\ count \in Nat /\ from \in Nat /\ count = from
  <2>1. from \in 0 .. Len(buffer) /\ buffer \in Seq(Bytes)
    BY DEF TypeOK
  <2>2. Len(buffer) \in Nat
    BY <2>1, LenProperties
  <2>3. from \in Nat
    BY <2>1, <2>2
  <2> QED
    BY <2>1, <2>2, <2>3 DEF TypeOK, Counts
<1>2. /\ n < Len(frames) /\ f.op = "MSG" /\ lineSize = LineLen(f) /\ lineSize <= Len(buffer)
      /\ total = EncodedLen(f)
  BY DEF InBody
<1>3. /\ f \in Frames /\ Ahead(n + 1) \in Seq(Bytes)
      /\ Join(buffer, wire) = Join(Encode(f), Ahead(n + 1))
  BY <1>2, AtFrame
<1> HIDE DEF f
<1>4. total <= Len(buffer) /\ Matched = total
  BY <1>1 DEF Counted, Distance, Matched
<1>5. Holds(buffer, f)
  <2>1. EncodedLen(f) <= Len(buffer)
    BY <1>2, <1>4
  <2> QED
    BY <1>1, <1>3, <2>1, FrameThere
<1> DEFINE line == SubSeq(buffer, 1, lineSize)
<1>6. line \in Seq(Bytes) /\ Begins(line, f)
  <2>1. LineLen(f) \in {3, 9, 11}
    BY <1>3, LineIs
  <2>2. lineSize \in 0 .. Len(buffer)
    BY <1>1, <1>2, <2>1
  <2>3. line \in Seq(Bytes) /\ \A i \in 1 .. lineSize : line[i] = buffer[i]
    BY <1>1, <2>2, Rested
  <2>4. Len(line) = lineSize
    BY <1>1, <2>2, Rested
  <2> HIDE DEF line
  <2>5. Begins(buffer, f)
    BY <1>1, <1>3, <1>5, HoldsBegins
  <2>6. \A i \in 1 .. LineLen(f) : line[i] = Line(f)[i]
    BY <1>2, <2>3, <2>5 DEF Begins
  <2>7. LineLen(f) <= Len(line)
    BY <1>2, <2>1, <2>4
  <2> QED
    BY <2>3, <2>6, <2>7 DEF Begins
<1> HIDE DEF line
<1>7. PayloadSize(Fields(line)) = Len(f.payload) /\ ReplyTo(Fields(line)) = f.reply
  BY <1>2, <1>3, <1>6, HeadIs
<1>8. SubSeq(buffer, LineLen(f) + 1, LineLen(f) + Len(f.payload)) = f.payload
  BY <1>1, <1>2, <1>3, <1>5, BodyIs
<1>9. Message = [reply |-> f.reply, payload |-> f.payload]
  BY <1>2, <1>7, <1>8, Zenon DEF Message, line
<1> QED
  BY <1>2, <1>3, <1>4, <1>5, <1>9 DEF f

(***************************************************************************)
(* Every step keeps the invariant                                          *)
(***************************************************************************)
\* At the start nothing is handled.
LEMMA InitInv == Init => IInv
<1> SUFFICES ASSUME Init PROVE IInv
  OBVIOUS
<1>1. frames \in Seq(Frames)
  <2>1. PICK k \in 0 .. MaxFrames : frames \in [1 .. k -> Frames]
    BY DEF Init
  <2> QED
    BY <2>1, BoundsAssumption
<1>2. Len(frames) \in Nat /\ Len(<<>>) = 0
  BY <1>1, LenProperties
<1>3. wire = Ahead(0)
  <2>1. Len(frames) - 0 = Len(frames)
    BY <1>2
  <2> QED
    BY <2>1, Zenon DEF Init, EncodeAll, Ahead
<1>4. wire \in Seq(Bytes)
  <2>1. Len(frames) \in 0 .. Len(frames) /\ Len(frames) - 0 = Len(frames)
    BY <1>2
  <2> QED
    BY <1>1, <1>3, <2>1, LastTyped DEF Ahead
<1>5. TypeOK
  <2>1. <<>> \in Seq(Bytes) /\ <<>> \in Seq(Messages)
    BY EmptySeq
  <2>2. buffer \in Seq(Bytes) /\ messages \in Seq(Messages)
    BY <2>1 DEF Init
  <2>3. /\ rx \in {"line", "body", "readLine", "readBody", "ended"}
        /\ lineSize \in Nat /\ total \in Nat /\ count \in Nat
    BY DEF Init
  <2>4. from \in 0 .. Len(buffer) /\ pongs \in 0 .. Len(frames) /\ Len(messages) <= Len(frames)
    BY <1>2 DEF Init
  <2> QED
    BY <1>1, <1>4, <2>2, <2>3, <2>4 DEF TypeOK, Messages
<1>6. Counts
  BY DEF Init, Counts
<1>7. Handled(0)
  <2>1. Join(buffer, wire) = Ahead(0)
    <3>1. buffer = <<>>
      BY DEF Init
    <3>2. Join(<<>>, wire) = wire
      BY <1>4, ConcatEmptySeq DEF Join
    <3> QED
      BY <1>3, <3>1, <3>2, Zenon
  <2>2. Made(messages, frames, 0)
    BY MadeNone DEF Init
  <2>3. \A k \in 1 .. 0 : frames[k].op # "-ERR"
    OBVIOUS
  <2>4. Len(messages) + pongs <= 0
    BY DEF Init
  <2> QED
    BY <2>1, <2>2, <2>3, <2>4 DEF Handled
<1>8. InBody(0)
  BY DEF Init, InBody
<1>9. 0 \in 0 .. Len(frames)
  BY <1>2
<1> QED
  BY <1>5, <1>6, <1>7, <1>8, <1>9 DEF IInv

\* A read of any number of bytes moves them, and rx() looks again.
LEMMA ReadSomeInv == IInv /\ ReadSome => IInv'
<1> SUFFICES ASSUME IInv, ReadSome PROVE IInv'
  OBVIOUS
<1>1. TypeOK /\ Counts
  BY DEF IInv
<1>2. PICK n \in 0 .. Len(frames) : Handled(n) /\ InBody(n)
  BY DEF IInv
<1>3. PICK k \in 1 .. Len(wire) :
        buffer' = buffer \o SubSeq(wire, 1, k) /\ wire' = SubSeq(wire, k + 1, Len(wire))
  BY DEF ReadSome
<1>4. buffer \in Seq(Bytes) /\ wire \in Seq(Bytes) /\ Len(buffer) \in Nat /\ Len(wire) \in Nat
  BY <1>1, LenProperties DEF TypeOK
<1>5. k \in 0 .. Len(wire)
  BY <1>4
<1> DEFINE x == SubSeq(wire, 1, k)
<1>6. buffer' = Join(buffer, x) /\ wire' = Rest(wire, k)
  BY <1>3, Zenon DEF Join, Rest
<1>7. x \in Seq(Bytes) /\ Rest(wire, k) \in Seq(Bytes)
  BY <1>4, <1>5, Rested
<1>8. Join(buffer', wire') = Join(buffer, wire)
  <2>1. Join(Join(buffer, x), Rest(wire, k)) = Join(buffer, wire)
    BY <1>4, <1>5, Moved
  <2> QED
    BY <1>6, <2>1, Zenon
<1> HIDE DEF x
<1>9. buffer' \in Seq(Bytes) /\ wire' \in Seq(Bytes)
  BY <1>4, <1>6, <1>7, Joined
<1>10. Len(buffer') \in Nat /\ Len(buffer) <= Len(buffer')
  <2>1. Len(Join(buffer, x)) = Len(buffer) + Len(x)
    BY <1>4, <1>7, Joined
  <2>2. Len(x) \in Nat
    BY <1>7, LenProperties
  <2>3. Len(buffer) <= Len(Join(buffer, x)) /\ Len(Join(buffer, x)) \in Nat
    BY <1>4, <2>1, <2>2
  <2> QED
    BY <1>6, <2>3, Zenon
<1>11. /\ UNCHANGED <<frames, lineSize, total, from, count, messages, pongs>>
       /\ rx \in {"readLine", "readBody"}
       /\ rx' = IF rx = "readLine" THEN "line" ELSE "body"
  BY DEF ReadSome, match
<1>12. TypeOK'
  <2>1. from' \in 0 .. Len(buffer')
    BY <1>1, <1>4, <1>10, <1>11 DEF TypeOK
  <2>2. /\ rx' \in {"line", "body", "readLine", "readBody", "ended"}
        /\ lineSize' \in Nat /\ total' \in Nat /\ count' \in Nat
    BY <1>1, <1>11 DEF TypeOK
  <2>3. /\ frames' \in Seq(Frames)
        /\ messages' \in Seq([reply : {<<>>, <<"reply">>}, payload : Payloads])
        /\ pongs' \in 0 .. Len(frames') /\ Len(messages') <= Len(frames')
    BY <1>1, <1>11, Zenon DEF TypeOK
  <2> QED
    BY <1>9, <2>1, <2>2, <2>3 DEF TypeOK
<1>13. Counts'
  BY <1>1, <1>11 DEF Counts
<1>14. Handled(n)'
  BY <1>2, <1>8, <1>11, Zenon DEF Handled, Ahead
<1>15. InBody(n)'
  <2> SUFFICES ASSUME rx' \in {"body", "readBody"}
               PROVE  /\ n < Len(frames) /\ frames[n + 1].op = "MSG"
                      /\ lineSize = LineLen(frames[n + 1]) /\ lineSize <= Len(buffer')
                      /\ total = EncodedLen(frames[n + 1])
    BY <1>11, Zenon DEF InBody
  <2>1. rx = "readBody"
    BY <1>11
  <2>2. /\ n < Len(frames) /\ frames[n + 1].op = "MSG"
        /\ lineSize = LineLen(frames[n + 1]) /\ lineSize <= Len(buffer)
        /\ total = EncodedLen(frames[n + 1])
    BY <1>2, <2>1 DEF InBody
  <2>3. lineSize \in Nat
    BY <1>1 DEF TypeOK
  <2>4. lineSize <= Len(buffer')
    BY <1>4, <1>10, <2>2, <2>3
  <2> QED
    BY <2>2, <2>4
<1>16. n \in 0 .. Len(frames')
  BY <1>11
<1> QED
  BY <1>12, <1>13, <1>14, <1>15, <1>16 DEF IInv

\* Without a line end, rx() reads on.
LEMMA NoLineInv == IInv /\ NoLine => IInv'
<1> SUFFICES ASSUME IInv, NoLine PROVE IInv'
  OBVIOUS
<1>1. TypeOK /\ Counts
  BY DEF IInv
<1>2. PICK n \in 0 .. Len(frames) : Handled(n) /\ InBody(n)
  BY DEF IInv
<1>3. /\ UNCHANGED <<frames, wire, buffer, lineSize, total, from, count, messages, pongs>>
      /\ rx = "line" /\ rx' = "readLine"
  BY DEF NoLine, match
<1>4. TypeOK'
  <2>1. rx' \in {"line", "body", "readLine", "readBody", "ended"}
    BY <1>3
  <2> QED
    BY <1>1, <1>3, <2>1, Zenon DEF TypeOK
<1>5. Counts'
  BY <1>1, <1>3 DEF Counts
<1>6. Handled(n)'
  BY <1>2, <1>3, Zenon DEF Handled, Ahead
<1>7. InBody(n)'
  BY <1>3 DEF InBody
<1>8. n \in 0 .. Len(frames')
  BY <1>3
<1> QED
  BY <1>4, <1>5, <1>6, <1>7, <1>8 DEF IInv

\* The sizes that rx() computes from a control line are those of its message.
LEMMA MsgLineInv == IInv /\ MsgLine => IInv'
<1> SUFFICES ASSUME IInv, MsgLine PROVE IInv'
  OBVIOUS
<1>1. TypeOK /\ Counts
  BY DEF IInv
<1>2. PICK n \in 0 .. Len(frames) : Handled(n) /\ InBody(n)
  BY DEF IInv
<1>3. /\ UNCHANGED <<frames, wire, buffer, messages, pongs>>
      /\ rx = "line" /\ rx' = "body" /\ LineSize # 0 /\ buffer[1] = "MSG"
      /\ from' = 0 /\ count' = 0 /\ lineSize' = LineSize
      /\ total' = LineSize + PayloadSize(Fields(ControlLine)) + Len(CRLF)
  BY DEF MsgLine
<1> DEFINE f == frames[n + 1]
<1>4. n < Len(frames) /\ Begins(buffer, f) /\ LineSize = LineLen(f) /\ f.op = "MSG"
  BY <1>1, <1>2, <1>3, AtLine
<1>5. f \in Frames
  BY <1>1, <1>2, <1>4, AtFrame
<1>6. buffer \in Seq(Bytes) /\ Len(buffer) \in Nat
  BY <1>1, LenProperties DEF TypeOK
<1> HIDE DEF f
<1>7. LineLen(f) \in {3, 9, 11} /\ LineLen(f) <= Len(buffer)
  BY <1>4, <1>5, LineIs DEF Begins
<1>8. PayloadSize(Fields(ControlLine)) = Len(f.payload)
  <2> DEFINE line == SubSeq(buffer, 1, LineSize)
  <2>1. LineSize \in 0 .. Len(buffer)
    BY <1>4, <1>6, <1>7
  <2>2. line \in Seq(Bytes) /\ \A i \in 1 .. LineSize : line[i] = buffer[i]
    BY <1>6, <2>1, Rested
  <2>3. Len(line) = LineSize
    BY <1>6, <2>1, Rested
  <2> HIDE DEF line
  <2>4. LineLen(f) <= Len(line)
    BY <1>4, <1>7, <2>3
  <2>5. \A i \in 1 .. LineLen(f) : line[i] = Line(f)[i]
    BY <1>4, <2>2 DEF Begins
  <2>6. Begins(line, f)
    BY <2>4, <2>5 DEF Begins
  <2>7. PayloadSize(Fields(line)) = Len(f.payload)
    BY <1>4, <1>5, <2>2, <2>6, HeadIs
  <2> QED
    BY <2>7, Zenon DEF ControlLine, line
<1>9. total' = EncodedLen(f) /\ total' \in Nat
  <2>1. Len(CRLF) = 2
    BY DEF CRLF
  <2>2. total' = LineLen(f) + Len(f.payload) + 2
    BY <1>3, <1>4, <1>8, <2>1, Zenon
  <2>3. EncodedLen(f) = LineLen(f) + Len(f.payload) + 2 /\ EncodedLen(f) \in Nat
    BY <1>4, <1>5, EncodedIs DEF EncodedLen
  <2> QED
    BY <2>2, <2>3, Zenon
<1>10. TypeOK'
  <2>1. /\ rx' \in {"line", "body", "readLine", "readBody", "ended"}
        /\ lineSize' \in Nat /\ count' \in Nat
    BY <1>3, <1>4, <1>7
  <2>2. from' \in 0 .. Len(buffer')
    BY <1>3, <1>6
  <2> QED
    BY <1>1, <1>3, <1>9, <2>1, <2>2, Zenon DEF TypeOK
<1>11. Counts'
  BY <1>3 DEF Counts
<1>12. Handled(n)'
  BY <1>2, <1>3, Zenon DEF Handled, Ahead
<1>13. InBody(n)'
  BY <1>3, <1>4, <1>7, <1>9, Zenon DEF InBody, f
<1>14. n \in 0 .. Len(frames')
  BY <1>3
<1> QED
  BY <1>10, <1>11, <1>12, <1>13, <1>14 DEF IInv

\* What is left in the buffer after the first frame of it is a number of frames on.
LEMMA Consumed ==
  ASSUME NEW n \in 0 .. Len(frames), NEW k, TypeOK, Handled(n), n < Len(frames),
         k = EncodedLen(frames[n + 1]), k <= Len(buffer), Consume(k), UNCHANGED <<frames, wire>>
  PROVE  Join(buffer', wire') = Ahead(n + 1)' /\ buffer' \in Seq(Bytes)
<1> DEFINE e == Encode(frames[n + 1])
<1>1. /\ frames[n + 1] \in Frames /\ Ahead(n + 1) \in Seq(Bytes)
      /\ Join(buffer, wire) = Join(e, Ahead(n + 1))
  BY AtFrame
<1>2. e \in Seq(Bytes) /\ Len(e) = k /\ k \in Nat
  BY <1>1, EncodedIs
<1>3. buffer \in Seq(Bytes) /\ wire \in Seq(Bytes) /\ Len(buffer) \in Nat
  BY LenProperties DEF TypeOK
<1> HIDE DEF e
<1>4. Len(e) <= Len(buffer)
  BY <1>2, Zenon
<1>5. e \in Seq(Bytes)
  BY <1>2
<1>6. Join(Rest(buffer, Len(e)), wire) = Ahead(n + 1)
  BY <1>1, <1>3, <1>4, <1>5, Cut
<1>7. buffer' = Rest(buffer, k)
  BY Zenon DEF Consume, Rest
<1>8. Rest(buffer, k) \in Seq(Bytes)
  <2>1. k \in 0 .. Len(buffer)
    BY <1>2, <1>3
  <2> QED
    BY <1>3, <2>1, Rested
<1>9. Ahead(n + 1)' = Ahead(n + 1)
  BY Zenon DEF Ahead
<1>10. Len(e) = k
  BY <1>2
<1> QED
  BY <1>6, <1>7, <1>8, <1>9, <1>10, Zenon

\* Any other line is consumed whole, and an error ends rx().
LEMMA OtherLineInv == IInv /\ OtherLine => IInv'
<1> SUFFICES ASSUME IInv, OtherLine PROVE IInv'
  OBVIOUS
<1>1. TypeOK /\ Counts
  BY DEF IInv
<1>2. PICK n \in 0 .. Len(frames) : Handled(n) /\ InBody(n)
  BY DEF IInv
<1>3. /\ UNCHANGED <<frames, wire, lineSize, total, from, count, messages>>
      /\ rx = "line" /\ LineSize # 0 /\ buffer[1] # "MSG"
      /\ pongs' = IF buffer[1] = "PING" THEN pongs + 1 ELSE pongs
      /\ IF buffer[1] = "-ERR" THEN rx' = "ended" /\ UNCHANGED buffer
                               ELSE rx' = "line" /\ Consume(LineSize)
  BY DEF OtherLine
<1> DEFINE f == frames[n + 1]
<1>4. /\ n < Len(frames) /\ Begins(buffer, f) /\ LineSize = LineLen(f)
      /\ f.op = buffer[1] /\ f.op # "MSG"
  BY <1>1, <1>2, <1>3, AtLine
<1>5. f \in Frames
  BY <1>1, <1>2, <1>4, AtFrame
<1>6. /\ buffer \in Seq(Bytes) /\ frames \in Seq(Frames) /\ messages \in Seq(Messages)
      /\ pongs \in Nat /\ Len(frames) \in Nat /\ Len(messages) \in Nat
      /\ from = 0 /\ from' = 0
  <2>1. /\ buffer \in Seq(Bytes) /\ frames \in Seq(Frames) /\ messages \in Seq(Messages)
        /\ pongs \in 0 .. Len(frames)
    BY <1>1 DEF TypeOK, Messages
  <2>2. Len(frames) \in Nat /\ Len(messages) \in Nat
    BY <2>1, LenProperties
  <2>3. from = 0 /\ from' = 0
    BY <1>1, <1>3 DEF Counts
  <2> QED
    BY <2>1, <2>2, <2>3
<1>7. LineSize = EncodedLen(f)
  BY <1>4 DEF LineLen, EncodedLen
<1>8. LineSize <= Len(buffer)
  BY <1>4 DEF Begins
<1>9. rx' \in {"line", "ended"}
  BY <1>3
<1>10. Counts'
  BY <1>1, <1>3 DEF Counts
<1>11. ASSUME NEW m \in 0 .. Len(frames), Handled(m)', buffer' \in Seq(Bytes), pongs' \in Nat
       PROVE  IInv'
  <2>1. pongs' \in 0 .. Len(frames') /\ Len(messages') <= Len(frames')
    <3>1. Len(messages) + pongs' <= m
      BY <1>3, <1>11 DEF Handled
    <3>2. pongs' \in 0 .. Len(frames) /\ Len(messages) <= Len(frames)
      BY <1>6, <1>11, <3>1
    <3> QED
      BY <1>3, <3>2, Zenon
  <2>2. from' \in 0 .. Len(buffer')
    <3>1. Len(buffer') \in Nat
      BY <1>11, LenProperties
    <3> QED
      BY <1>6, <3>1
  <2>3. rx' \in {"line", "body", "readLine", "readBody", "ended"}
    BY <1>9
  <2>4. TypeOK'
    BY <1>1, <1>3, <1>11, <2>1, <2>2, <2>3, Zenon DEF TypeOK
  <2>5. InBody(m)'
    BY <1>9 DEF InBody
  <2>6. m \in 0 .. Len(frames')
    BY <1>3
  <2> QED
    BY <1>10, <1>11, <2>4, <2>5, <2>6 DEF IInv
<1>12. CASE f.op = "-ERR"
  <2>1. buffer' = buffer /\ pongs' = pongs
    BY <1>3, <1>4, <1>12
  <2>2. Handled(n)'
    BY <1>2, <1>3, <2>1, Zenon DEF Handled, Ahead
  <2> QED
    BY <1>6, <1>11, <2>1, <2>2
<1>13. CASE f.op # "-ERR"
  <2>1. Consume(LineSize) /\ UNCHANGED <<frames, wire>>
    BY <1>3, <1>4, <1>13
  <2>2. Join(buffer', wire') = Ahead(n + 1)' /\ buffer' \in Seq(Bytes)
    BY <1>1, <1>2, <1>4, <1>7, <1>8, <2>1, Consumed
  <2>3. Made(messages', frames', n + 1)
    <3>1. Made(messages, frames, n + 1)
      BY <1>2, <1>4, MadeSame DEF Handled
    <3> QED
      BY <1>3, <3>1
  <2>4. \A k \in 1 .. n + 1 : frames'[k].op # "-ERR"
    <3>1. \A k \in 1 .. n + 1 : k \in 1 .. n \/ k = n + 1
      OBVIOUS
    <3> QED
      BY <1>2, <1>3, <1>13, <3>1 DEF Handled
  <2>5. pongs' \in Nat /\ Len(messages') + pongs' <= n + 1
    <3>1. Len(messages) + pongs <= n
      BY <1>2 DEF Handled
    <3>2. pongs' \in {pongs, pongs + 1} /\ messages' = messages
      BY <1>3
    <3> QED
      BY <1>6, <3>1, <3>2
  <2>6. Handled(n + 1)'
    BY <2>2, <2>3, <2>4, <2>5, Zenon DEF Handled
  <2>7. n + 1 \in 0 .. Len(frames)
    BY <1>4, <1>6
  <2> QED
    BY <1>11, <2>2, <2>5, <2>6, <2>7
<1> QED
  BY <1>12, <1>13

\* The match condition has then counted all that is in the buffer.
LEMMA NotReceivedInv == IInv /\ NotReceived => IInv'
<1> SUFFICES ASSUME IInv, NotReceived PROVE IInv'
  OBVIOUS
<1>1. TypeOK /\ Counts
  BY DEF IInv
<1>2. PICK n \in 0 .. Len(frames) : Handled(n) /\ InBody(n)
  BY DEF IInv
<1>3. /\ UNCHANGED <<frames, wire, buffer, lineSize, total, messages, pongs>>
      /\ rx = "body" /\ rx' = "readBody"
      /\ count' = Counted /\ from' = Len(buffer)
  BY DEF NotReceived
<1>4. Counted = Len(buffer) /\ Len(buffer) \in Nat
  <2>1. from \in 0 .. Len(buffer) /\ buffer \in Seq(Bytes) /\ count = from
    BY <1>1 DEF TypeOK, Counts
  <2>2. Len(buffer) \in Nat
    BY <2>1, LenProperties
  <2> QED
    BY <2>1, <2>2 DEF Counted, Distance
<1>5. TypeOK'
  <2>1. rx' \in {"line", "body", "readLine", "readBody", "ended"}
    BY <1>3
  <2>2. from' \in 0 .. Len(buffer') /\ count' \in Nat
    BY <1>3, <1>4
  <2> QED
    BY <1>1, <1>3, <2>1, <2>2, Zenon DEF TypeOK
<1>6. Counts'
  BY <1>3, <1>4 DEF Counts
<1>7. Handled(n)'
  BY <1>2, <1>3, Zenon DEF Handled, Ahead
<1>8. InBody(n)'
  <2>1. rx \in {"body", "readBody"}
    BY <1>3
  <2> QED
    BY <1>2, <1>3, <2>1, Zenon DEF InBody
<1>9. n \in 0 .. Len(frames')
  BY <1>3
<1> QED
  BY <1>5, <1>6, <1>7, <1>8, <1>9 DEF IInv

\* A message is cut out whole, and the next frame is at the start of the buffer.
LEMMA ReceivedInv == IInv /\ Received => IInv'
<1> SUFFICES ASSUME IInv, Received PROVE IInv'
  OBVIOUS
<1>1. TypeOK /\ Counts
  BY DEF IInv
<1>2. PICK n \in 0 .. Len(frames) : Handled(n) /\ InBody(n)
  BY DEF IInv
<1>3. /\ UNCHANGED <<frames, wire, lineSize, total, pongs>>
      /\ rx = "body" /\ Counted >= total /\ rx' = "line"
      /\ from' = 0 /\ count' = 0
      /\ messages' = Append(messages, Message) /\ Consume(Matched)
  BY DEF Received
<1> DEFINE f == frames[n + 1]
<1>4. /\ n < Len(frames) /\ f \in Frames /\ f.op = "MSG"
      /\ total = EncodedLen(f) /\ Matched = total /\ total <= Len(buffer)
      /\ Message = [reply |-> f.reply, payload |-> f.payload]
  BY <1>1, <1>2, <1>3, Complete
<1>5. /\ frames \in Seq(Frames) /\ messages \in Seq(Messages)
      /\ pongs \in Nat /\ Len(frames) \in Nat /\ Len(messages) \in Nat
  <2>1. /\ frames \in Seq(Frames) /\ messages \in Seq(Messages)
        /\ pongs \in 0 .. Len(frames)
    BY <1>1 DEF TypeOK, Messages
  <2>2. Len(frames) \in Nat /\ Len(messages) \in Nat
    BY <2>1, LenProperties
  <2> QED
    BY <2>1, <2>2
<1>6. Message \in Messages
  <2>1. f.reply \in {<<>>, <<"reply">>} /\ f.payload \in Payloads
    BY <1>4, FrameIs
  <2> QED
    BY <1>4, <2>1 DEF Messages
<1>7. Join(buffer', wire') = Ahead(n + 1)' /\ buffer' \in Seq(Bytes)
  <2>1. Consume(total) /\ UNCHANGED <<frames, wire>>
    BY <1>3, <1>4
  <2> QED
    BY <1>1, <1>2, <1>4, <2>1, Consumed
<1>8. /\ messages' \in Seq(Messages) /\ Len(messages') = Len(messages) + 1
      /\ Made(messages', frames', n + 1)
  <2>1. Append(messages, Message) \in Seq(Messages)
    BY <1>5, <1>6, AppendProperties
  <2>2. Len(Append(messages, Message)) = Len(messages) + 1
    BY <1>5, <1>6, AppendProperties
  <2>3. Made(messages, frames, n)
    BY <1>2 DEF Handled
  <2>4. Made(Append(messages, Message), frames, n + 1)
    <3> DEFINE m == Message
    <3>1. /\ messages \in Seq(Messages) /\ m \in Messages /\ n \in Nat
          /\ Made(messages, frames, n) /\ frames[n + 1].op = "MSG"
          /\ m = [reply |-> frames[n + 1].reply, payload |-> frames[n + 1].payload]
      BY <1>4, <1>5, <1>6, <2>3
    <3> HIDE DEF m, f
    <3>2. Made(Append(messages, m), frames, n + 1)
      BY ONLY <3>1, MadeMore
    <3> QED
      BY <3>2 DEF m
  <2> QED
    BY <1>3, <2>1, <2>2, <2>4, Zenon
<1>9. \A k \in 1 .. n + 1 : frames'[k].op # "-ERR"
  <2>1. \A k \in 1 .. n + 1 : k \in 1 .. n \/ k = n + 1
    OBVIOUS
  <2> QED
    BY <1>2, <1>3, <1>4, <2>1 DEF Handled
<1>10. Len(messages') + pongs' <= n + 1
  <2>1. Len(messages) + pongs <= n
    BY <1>2 DEF Handled
  <2>2. Len(messages) + 1 + pongs <= n + 1
    BY <1>5, <2>1
  <2> QED
    BY <1>3, <1>8, <2>2, Zenon
<1>11. Handled(n + 1)'
  BY <1>7, <1>8, <1>9, <1>10, Zenon DEF Handled
<1>12. n + 1 \in 0 .. Len(frames)
  BY <1>4, <1>5
<1>13. TypeOK'
  <2>1. rx' \in {"line", "body", "readLine", "readBody", "ended"} /\ count' \in Nat
    BY <1>3
  <2>2. from' \in 0 .. Len(buffer')
    <3>1. Len(buffer') \in Nat
      BY <1>7, LenProperties
    <3> QED
      BY <1>3, <3>1
  <2>3. Len(messages') <= Len(frames')
    <3>1. Len(messages) + pongs <= n
      BY <1>2 DEF Handled
    <3>2. Len(messages) + 1 <= Len(frames)
      BY <1>4, <1>5, <3>1
    <3> QED
      BY <1>3, <1>8, <3>2, Zenon
  <2>4. messages' \in Seq([reply : {<<>>, <<"reply">>}, payload : Payloads])
    BY <1>8 DEF Messages
  <2> QED
    BY <1>1, <1>3, <1>7, <2>1, <2>2, <2>3, <2>4, Zenon DEF TypeOK
<1>14. Counts'
  BY <1>3 DEF Counts
<1>15. InBody(n + 1)'
  BY <1>3 DEF InBody
<1>16. n + 1 \in 0 .. Len(frames')
  BY <1>3, <1>12
<1> QED
  BY <1>11, <1>13, <1>14, <1>15, <1>16 DEF IInv

\* Every step is one of these.
LEMMA StepInv == IInv /\ [Next]_vars => IInv'
<1> SUFFICES ASSUME IInv, [Next]_vars PROVE IInv'
  OBVIOUS
<1>1. CASE ReadSome
  BY <1>1, ReadSomeInv
<1>2. CASE NoLine
  BY <1>2, NoLineInv
<1>3. CASE MsgLine
  BY <1>3, MsgLineInv
<1>4. CASE OtherLine
  BY <1>4, OtherLineInv
<1>5. CASE NotReceived
  BY <1>5, NotReceivedInv
<1>6. CASE Received
  BY <1>6, ReceivedInv
<1>7. CASE UNCHANGED vars
  <2>1. UNCHANGED <<frames, wire, buffer, rx, lineSize, total, from, count, messages, pongs>>
    BY <1>7 DEF vars, match
  <2>2. TypeOK /\ Counts
    BY DEF IInv
  <2>3. PICK n \in 0 .. Len(frames) : Handled(n) /\ InBody(n)
    BY DEF IInv
  <2>4. TypeOK' /\ Counts'
    BY <2>1, <2>2, Zenon DEF TypeOK, Counts
  <2>5. Handled(n)' /\ InBody(n)'
    BY <2>1, <2>3, Zenon DEF Handled, Ahead, InBody
  <2>6. n \in 0 .. Len(frames')
    BY <2>1
  <2> QED
    BY <2>4, <2>5, <2>6 DEF IInv
<1> QED
  BY <1>1, <1>2, <1>3, <1>4, <1>5, <1>6, <1>7 DEF Next

(***************************************************************************)
(* What follows from the invariant                                         *)
(***************************************************************************)
\* The assertions follow from where the match ends and what is before it.
LEMMA AssertsFollow == IInv => AssertsHold
<1> SUFFICES ASSUME IInv, rx = "body", Counted >= total
             PROVE  /\ Matched = total /\ total <= Len(buffer)
                    /\ SubSeq(buffer, total - 1, total) = CRLF
                    /\ PayloadIn(SubSeq(buffer, 1, total)) = Message.payload
  BY DEF AssertsHold
<1>1. TypeOK /\ Counts
  BY DEF IInv
<1>2. PICK n \in 0 .. Len(frames) : Handled(n) /\ InBody(n)
  BY DEF IInv
<1> DEFINE f == frames[n + 1]
<1>3. /\ f \in Frames /\ f.op = "MSG" /\ Holds(buffer, f)
      /\ total = EncodedLen(f) /\ Matched = total /\ total <= Len(buffer)
      /\ Message = [reply |-> f.reply, payload |-> f.payload]
  BY <1>1, <1>2, Complete
<1>4. buffer \in Seq(Bytes) /\ Len(buffer) \in Nat /\ total \in Nat
  BY <1>1, LenProperties DEF TypeOK
<1> HIDE DEF f
<1>5. SubSeq(buffer, total - 1, total) = CRLF
  BY <1>3, <1>4, BodyIs
<1> DEFINE data == SubSeq(buffer, 1, total)
<1>6. /\ data \in Seq(Bytes) /\ Len(data) = total
      /\ \A i \in 1 .. total : data[i] = buffer[i]
  BY <1>3, <1>4, Rested
<1> HIDE DEF data
<1>7. Holds(data, f)
  <2>1. \A i \in 1 .. total : buffer[i] = Encode(f)[i]
    BY <1>3 DEF Holds
  <2>2. \A i \in 1 .. total : data[i] = Encode(f)[i]
    BY <1>6, <2>1
  <2>3. EncodedLen(f) <= Len(data)
    BY <1>3, <1>4, <1>6
  <2> QED
    BY <1>3, <2>2, <2>3 DEF Holds
<1>8. PayloadIn(data) = f.payload
  BY <1>3, <1>6, <1>7, PayloadFound
<1>9. Message.payload = f.payload
  BY <1>3
<1>10. PayloadIn(SubSeq(buffer, 1, total)) = Message.payload
  BY <1>8, <1>9, Zenon DEF data
<1> QED
  BY <1>3, <1>5, <1>10

\* The messages follow, with the number of frames that are handled.
LEMMA MessagesFollow == IInv => MessagesAreThoseSent
<1> SUFFICES ASSUME IInv PROVE MessagesAreThoseSent
  OBVIOUS
<1>1. PICK n \in 0 .. Len(frames) : Handled(n)
  BY DEF IInv
<1>2. \A k \in 1 .. n : frames[k].op # "-ERR"
  BY <1>1 DEF Handled
<1>3. buffer \o wire = EncodeLast(frames)[Len(frames) - n]
  BY <1>1, Zenon DEF Handled, Ahead, Join
<1>4. MadeOf(n)
  BY <1>1, Zenon DEF Handled, Made, Matches, MadeOf
<1> QED
  BY <1>2, <1>3, <1>4, Zenon DEF MessagesAreThoseSent

\* rx() stops where it should: at the end of the stream every message has been made,
\* and when it has ended, all that were sent before the first error.
AllMade ==
  /\ buffer = <<>> /\ wire = <<>> =>
       MadeOf(Len(frames)) /\ \A k \in 1 .. Len(frames) : frames[k].op # "-ERR"
  /\ rx = "ended" =>
       \E n \in 0 .. Len(frames) - 1 :
         /\ MadeOf(n) /\ frames[n + 1].op = "-ERR"
         /\ \A k \in 1 .. n : frames[k].op # "-ERR"

\* It ends with the error at the start of the buffer.
Ended == rx = "ended" => LineSize # 0 /\ buffer[1] = "-ERR"

\* Nothing happens after that.
LEMMA EndedInv == Ended /\ [Next]_vars => Ended'
<1> SUFFICES ASSUME Ended, [Next]_vars, rx' = "ended" PROVE (LineSize # 0 /\ buffer[1] = "-ERR")'
  BY DEF Ended
<1>1. CASE OtherLine
  <2>1. buffer[1] = "-ERR" /\ LineSize > 0 /\ UNCHANGED buffer
    BY <1>1 DEF OtherLine
  <2> QED
    BY <2>1 DEF LineSize
<1>2. CASE UNCHANGED vars
  <2>1. UNCHANGED <<rx, buffer>>
    BY <1>2 DEF vars
  <2> QED
    BY <2>1 DEF Ended, LineSize
<1>3. CASE ReadSome \/ NoLine \/ MsgLine \/ NotReceived \/ Received
  BY <1>3 DEF ReadSome, NoLine, MsgLine, NotReceived, Received
<1> QED
  BY <1>1, <1>2, <1>3 DEF Next

\* At the end of the stream n is the number of frames, since a frame is never empty.
LEMMA AllAtTheEnd ==
  ASSUME IInv, buffer = <<>>, wire = <<>>
  PROVE  MadeOf(Len(frames)) /\ \A k \in 1 .. Len(frames) : frames[k].op # "-ERR"
<1>1. TypeOK
  BY DEF IInv
<1>2. PICK n \in 0 .. Len(frames) : Handled(n)
  BY DEF IInv
<1>3. frames \in Seq(Frames) /\ Len(frames) \in Nat /\ buffer \in Seq(Bytes) /\ wire \in Seq(Bytes)
  BY <1>1, LenProperties DEF TypeOK
<1>4. n = Len(frames)
  <2> SUFFICES ASSUME n # Len(frames) PROVE FALSE
    OBVIOUS
  <2>1. n < Len(frames)
    BY <1>3
  <2> DEFINE f == frames[n + 1]
  <2>2. f \in Frames /\ Ahead(n + 1) \in Seq(Bytes) /\ Join(buffer, wire) = Join(Encode(f), Ahead(n + 1))
    BY <1>1, <1>2, <2>1, AtFrame
  <2> HIDE DEF f
  <2>3. Len(Join(buffer, wire)) = Len(buffer) + Len(wire)
    BY <1>3, Joined
  <2>4. Len(buffer) = 0 /\ Len(wire) = 0
    OBVIOUS
  <2>5. /\ Encode(f) \in Seq(Bytes) /\ Len(Encode(f)) = EncodedLen(f) /\ EncodedLen(f) \in Nat
        /\ LineLen(f) \in 3 .. EncodedLen(f)
    BY <2>2, EncodedIs
  <2>6. Len(Join(Encode(f), Ahead(n + 1))) = Len(Encode(f)) + Len(Ahead(n + 1))
    BY <2>2, <2>5, Joined
  <2>7. Len(Ahead(n + 1)) \in Nat
    BY <2>2, LenProperties
  <2> QED
    BY <2>2, <2>3, <2>4, <2>5, <2>6, <2>7
<1>5. MadeOf(n)
  BY <1>2, Zenon DEF Handled, Made, Matches, MadeOf
<1> QED
  BY <1>2, <1>4, <1>5 DEF Handled

\* When rx() has ended, the next frame is the one whose line it has found.
LEMMA AllBeforeTheError ==
  ASSUME IInv, Ended, rx = "ended"
  PROVE  \E n \in 0 .. Len(frames) - 1 :
           /\ MadeOf(n) /\ frames[n + 1].op = "-ERR"
           /\ \A k \in 1 .. n : frames[k].op # "-ERR"
<1>1. TypeOK
  BY DEF IInv
<1>2. PICK n \in 0 .. Len(frames) : Handled(n)
  BY DEF IInv
<1>3. LineSize # 0 /\ buffer[1] = "-ERR"
  BY DEF Ended
<1>4. n < Len(frames) /\ buffer[1] = frames[n + 1].op
  BY <1>1, <1>2, <1>3, AtLine
<1>5. n \in 0 .. Len(frames) - 1
  <2>1. Len(frames) \in Nat
    BY <1>1, LenProperties DEF TypeOK
  <2> QED
    BY <1>4, <2>1
<1>6. MadeOf(n)
  BY <1>2, Zenon DEF Handled, Made, Matches, MadeOf
<1>7. \A k \in 1 .. n : frames[k].op # "-ERR"
  BY <1>2 DEF Handled
<1>8. frames[n + 1].op = "-ERR"
  BY <1>3, <1>4
<1> QED
  BY <1>5, <1>6, <1>7, <1>8, Zenon

(***************************************************************************)
(* The theorems                                                            *)
(***************************************************************************)
\* What rx() has read and not consumed, with what the connection still brings, is
\* always what the server sent from some frame on; what it made of the frames before
\* is their messages; and while a payload is missing the sizes it remembers are those
\* of the message it is in.
THEOREM Inductive == Spec => []IInv
<1>1. Init => IInv
  BY InitInv
<1>2. IInv /\ [Next]_vars => IInv'
  BY StepInv
<1> QED
  BY <1>1, <1>2, PTL DEF Spec

\* rx() handles no more messages and PINGs than were sent, and the match condition is
\* never called past the end of the streambuf.
THEOREM TypeCorrect == Spec => []TypeOK
<1>1. IInv => TypeOK
  BY DEF IInv
<1> QED
  BY <1>1, Inductive, PTL

\* The assertions of rx() and make_message() hold: the match of `received' ends exactly
\* where the message ends, whatever bytes the payload has (a line end, or a whole
\* message) and wherever the reads cut it, and the message gets the payload sent.
THEOREM AssertsAlwaysHold == Spec => []AssertsHold
<1>1. IInv => AssertsHold
  BY AssertsFollow
<1> QED
  BY <1>1, Inductive, PTL

\* The messages rx() makes are the MSG frames the server sent, each once, in order,
\* with their payload and reply_to; and it never loses its place in the stream.
THEOREM MessagesAlwaysThoseSent == Spec => []MessagesAreThoseSent
<1>1. IInv => MessagesAreThoseSent
  BY MessagesFollow
<1> QED
  BY <1>1, Inductive, PTL

\* rx() leaves no message out: when nothing is left to read or to look at, it has made
\* all that were sent, and when an error has ended it, all that were sent before.  This
\* is the part of AllHandled that needs no fairness.
THEOREM NothingIsLeftOut == Spec => []AllMade
<1>1. Init => Ended
  BY DEF Init, Ended
<1>2. Ended /\ [Next]_vars => Ended'
  BY EndedInv
<1>3. IInv /\ Ended => AllMade
  BY AllAtTheEnd, AllBeforeTheError, Zenon DEF AllMade
<1> QED
  BY <1>1, <1>2, <1>3, Inductive, PTL DEF Spec
=============================================================================
