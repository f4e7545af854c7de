---------------------------- MODULE Frame_lemmas ----------------------------
(***************************************************************************)
(* Facts about bytes, lines and checksums, for frames of every length.     *)
(*                                                                         *)
(* Induction needs no theorem with an operator parameter: a set of naturals *)
(* that 0 and every successor belong to is Nat, because the complement     *)
(* would have a least element.                                             *)
(***************************************************************************)
EXTENDS ModbusCrc, AsciiFrame, SequenceTheorems, WellFoundedInduction, TLAPS

-----------------------------------------------------------------------------
(* Bytes, digits and the CRC *)

LEMMA ByteOfType == \A w, k : ByteOf(w, k) \in Byte
BY DEF ByteOf, Byte

LEMMA CrcBytesType == \A crc : CrcBytes(crc) \in Seq(Byte) /\ Len(CrcBytes(crc)) = 2
<1>1. \A a, b \in Byte : << a, b >> \in Seq(Byte) /\ Len(<< a, b >>) = 2
  OBVIOUS
<1>2. QED
  BY <1>1, ByteOfType DEF CrcBytes

LEMMA CrcShiftType == \A w \in Word : CrcShift(w) \in Word
BY DEF CrcShift, Word, Xor, Polynomial

LEMMA CrcType ==
  ASSUME NEW crc \in Word, NEW b \in Byte
  PROVE  app_updateModbusCrc(crc, b) \in Word
<1> DEFINE twice == [w \in Word |-> CrcShift(CrcShift(w))]
           fourTimes == [w \in Word |-> twice[twice[w]]]
<1>1. Xor(crc, Bits(b)) \in Word
  <2>1. Bits(b) \subseteq 0 .. 7
    BY Zenon DEF Bits
  <2>2. 0 .. 7 \subseteq 0 .. 15 /\ crc \subseteq 0 .. 15
    BY DEF Word
  <2>3. QED
    BY <2>1, <2>2, Zenon DEF Xor, Word
<1>2. \A w \in Word : twice[w] \in Word
  BY CrcShiftType
<1>3. \A w \in Word : fourTimes[w] \in Word
  <2> HIDE DEF twice
  <2> QED  BY <1>2
<1>4. app_updateModbusCrc(crc, b) = fourTimes[fourTimes[Xor(crc, Bits(b))]]
  BY DEF app_updateModbusCrc
<1> HIDE DEF fourTimes
<1>5. QED
  BY <1>1, <1>3, <1>4

LEMMA DigitType == \A n \in 0 .. 15 : Digit(n) \in Byte
BY DEF Digit, Byte

LEMMA TextType == \A b \in Byte : ByteText(b) \in Seq(Byte) /\ Len(ByteText(b)) = 2
<1> SUFFICES ASSUME NEW b \in Byte
             PROVE  ByteText(b) \in Seq(Byte) /\ Len(ByteText(b)) = 2
  OBVIOUS
<1>1. b \div 16 \in 0 .. 15 /\ b % 16 \in 0 .. 15
  BY DEF Byte
<1>2. Digit(b \div 16) \in Byte /\ Digit(b % 16) \in Byte
  BY <1>1, DigitType
<1>3. QED
  BY <1>2 DEF ByteText

-----------------------------------------------------------------------------
(* Sequences and lines *)

LEMMA EmptyType == << >> \in Seq(Byte) /\ Len(<< >>) = 0
OBVIOUS

LEMMA CharType ==
  /\ <<Colon>> \in Seq(Byte) /\ Len(<<Colon>>) = 1
  /\ <<CR, LF>> \in Seq(Byte) /\ Len(<<CR, LF>>) = 2
BY DEF Colon, CR, LF, Byte

LEMMA ConcatType ==
  ASSUME NEW S, NEW s \in Seq(S), NEW t \in Seq(S)
  PROVE  s \o t \in Seq(S) /\ Len(s \o t) = Len(s) + Len(t)
OBVIOUS

LEMMA AppendTwice ==
  ASSUME NEW m \in Seq(Byte), NEW a \in Byte, NEW b \in Byte
  PROVE  m \o << a, b >> = Append(Append(m, a), b)
<1> DEFINE pair == << a, b >>
           t == Append(m, a)
           u == Append(t, b)
<1>1. pair \in Seq(Byte) /\ Len(pair) = 2 /\ pair[1] = a /\ pair[2] = b /\ Len(m) \in Nat
  OBVIOUS
<1>2. /\ t \in Seq(Byte) /\ Len(t) = Len(m) + 1 /\ t[Len(m) + 1] = a
      /\ \A i \in 1 .. Len(m) : t[i] = m[i]
  BY AppendProperties
<1> HIDE DEF pair, t
<1>3. /\ u \in Seq(Byte) /\ Len(u) = Len(t) + 1 /\ u[Len(t) + 1] = b
      /\ \A i \in 1 .. Len(t) : u[i] = t[i]
  BY <1>2, AppendProperties
<1>4. /\ m \o pair \in Seq(Byte) /\ Len(m \o pair) = Len(m) + Len(pair)
      /\ \A i \in 1 .. Len(m) + Len(pair) : (m \o pair)[i] =
           IF i <= Len(m) THEN m[i] ELSE pair[i - Len(m)]
  BY <1>1, ConcatProperties
<1> HIDE DEF u
<1>5. ASSUME NEW i \in 1 .. Len(m) + 2 PROVE (m \o pair)[i] = u[i]
  BY <1>1, <1>2, <1>3, <1>4
<1>6. m \o pair = u
  BY <1>1, <1>2, <1>3, <1>4, <1>5, SeqEqual
<1>7. QED
  BY <1>6 DEF pair, t, u

\* A sequence with two more elements.
LEMMA JoinPair ==
  ASSUME NEW p \in Seq(Byte), NEW q \in Seq(Byte), Len(q) = 2
  PROVE  /\ p \o q \in Seq(Byte) /\ Len(p \o q) = Len(p) + 2
         /\ \A i \in 1 .. Len(p) : (p \o q)[i] = p[i]
         /\ (p \o q)[Len(p) + 1] = q[1] /\ (p \o q)[Len(p) + 2] = q[2]
<1> DEFINE r == p \o q
<1>1. /\ r \in Seq(Byte) /\ Len(r) = Len(p) + Len(q)
      /\ \A i \in 1 .. Len(p) + Len(q) : r[i] = IF i <= Len(p) THEN p[i] ELSE q[i - Len(p)]
  BY ConcatProperties
<1>2. Len(p) \in Nat
  OBVIOUS
<1> HIDE DEF r
<1>3. /\ r \in Seq(Byte) /\ Len(r) = Len(p) + 2
      /\ \A i \in 1 .. Len(p) : r[i] = p[i]
      /\ r[Len(p) + 1] = q[1] /\ r[Len(p) + 2] = q[2]
  BY <1>1, <1>2
<1>4. QED
  BY <1>3 DEF r

LEMMA DigitValueType == \A c \in Digits : DigitValue(c) \in 0 .. 15
<1>1. \A n \in 0 .. 15 : DigitValue(Digit(n)) \in 0 .. 15
  BY DEF Digit, DigitValue
<1>2. QED
  BY <1>1, Zenon DEF Digits

LEMMA BufferType ==
  ASSUME NEW text \in Seq(Byte), Legal(text)
  PROVE  BufferOf(text) \in Seq(Byte)
<1> DEFINE m == (Len(text) - 5) \div 2
<1>1. Len(text) \in Nat /\ Len(text) >= 9 /\ \A i \in 2 .. Len(text) - 2 : text[i] \in Digits
  BY DEF Legal
<1>2. m \in Nat /\ 2 * m <= Len(text) - 5
  BY <1>1
<1>3. \A c \in Digits : DigitValue(c) \in 0 .. 15
  BY DigitValueType
<1>4. ASSUME NEW j \in 1 .. m
      PROVE  ByteAt(text, 2 * j) \in Byte
  <2>1. 2 * j \in 2 .. Len(text) - 2 /\ 2 * j + 1 \in 2 .. Len(text) - 2
    BY <1>1, <1>2
  <2>2. DigitValue(text[2 * j]) \in 0 .. 15 /\ DigitValue(text[2 * j + 1]) \in 0 .. 15
    BY <1>1, <1>3, <2>1
  <2>3. \A d, e \in 0 .. 15 : 16 * d + e \in 0 .. 255
    OBVIOUS
  <2>4. QED
    BY <2>2, <2>3, Zenon DEF ByteAt, Byte
<1>5. BufferOf(text) = [j \in 1 .. m |-> ByteAt(text, 2 * j)]
  BY DEF BufferOf
<1> HIDE DEF m
<1>6. QED
  BY <1>2, <1>4, <1>5

-----------------------------------------------------------------------------
(* Induction *)

Less == { ss \in Nat \X Nat : ss[1] < ss[2] }

LEMMA LessWellFounded == IsWellFoundedOn(Less, Nat)
BY NatLessThanWellFounded DEF OpToRel, Less

LEMMA Natural ==
  ASSUME NEW S, S \subseteq Nat, 0 \in S, \A n \in S : n + 1 \in S
  PROVE  S = Nat
<1> DEFINE T == Nat \ S
<1> SUFFICES ASSUME T # {} PROVE FALSE
  OBVIOUS
<1>1. T \subseteq Nat
  OBVIOUS
<1>2. PICK x \in T : \A y \in T : ~(<<y, x>> \in Less)
  BY <1>1, LessWellFounded, WFMin
<1>3. x # 0 /\ x - 1 \in Nat
  OBVIOUS
<1>4. x - 1 \in T
  <2>1. x - 1 \in S => x - 1 + 1 \in S
    OBVIOUS
  <2>2. QED
    BY <1>3, <2>1
<1>5. <<x - 1, x>> \in Less
  BY <1>3, <1>4 DEF Less
<1>6. QED
  BY <1>2, <1>4, <1>5

\* A set of sequences over T that holds the empty one and, with a sequence, every
\* longer one by one element, holds them all.
LEMMA Sequences ==
  ASSUME NEW T, NEW P, P \subseteq Seq(T), <<>> \in P,
         \A s \in P, x \in T : Append(s, x) \in P
  PROVE  P = Seq(T)
<1> DEFINE S == { n \in Nat : \A s \in Seq(T) : Len(s) = n => s \in P }
<1>1. 0 \in S
  <2>1. \A s \in Seq(T) : Len(s) = 0 => s = <<>>
    OBVIOUS
  <2>2. QED
    BY <2>1
<1>2. ASSUME NEW n \in S PROVE n + 1 \in S
  <2>1. ASSUME NEW s \in Seq(T), Len(s) = n + 1 PROVE s \in P
    <3>1. PICK front \in Seq(T), x \in T : s = Append(front, x)
      <4>1. s # <<>>
        BY <2>1
      <4>2. QED
        BY <4>1, SequenceEmptyOrAppend
    <3>2. Len(front) = n
      BY <2>1, <3>1
    <3>3. front \in P
      BY <3>2
    <3>4. QED
      BY <3>1, <3>3
  <2>2. QED
    BY <2>1
<1>3. S \subseteq Nat
  OBVIOUS
<1>4. S = Nat
  <2> HIDE DEF S
  <2>1. QED
    BY <1>1, <1>2, <1>3, Natural
<1>5. ASSUME NEW s \in Seq(T) PROVE s \in P
  <2>1. Len(s) \in Nat
    OBVIOUS
  <2>2. Len(s) \in S
    BY <1>4, <2>1
  <2>3. QED
    BY <2>2
<1>6. QED
  BY <1>5

-----------------------------------------------------------------------------
(* A fold over a sequence is the last of its intermediate results *)

LEMMA TopOfSegment ==
  ASSUME NEW n \in Nat, NEW u \in SUBSET (1 .. n + 1), n + 1 \in u
  PROVE  Max(u) = n + 1 /\ u \ {n + 1} \in SUBSET (1 .. n)
<1> DEFINE top == CHOOSE x \in u : \A y \in u : x >= y
<1>1. \A y \in u : n + 1 >= y
  OBVIOUS
<1>2. top \in u /\ \A y \in u : top >= y
  BY <1>1, Zenon
<1>3. \A x \in u : x >= n + 1 => x = n + 1
  OBVIOUS
<1>4. top = n + 1
  BY <1>2, <1>3
<1>5. Max(u) = top
  BY DEF Max
<1> HIDE DEF top
<1>6. QED
  BY <1>4, <1>5

LEMMA Segment ==
  ASSUME NEW n \in Nat
  PROVE  Max(1 .. n + 1) = n + 1 /\ (1 .. n + 1) \ {n + 1} = 1 .. n /\ 1 .. n + 1 # {}
<1>1. n + 1 \in 1 .. n + 1 /\ (1 .. n + 1) \ {n + 1} = 1 .. n
  OBVIOUS
<1>2. QED
  BY <1>1, TopOfSegment

\* The results of a fold of g over the parts of s, as the recursive function in the
\* definition of FoldLeft computes them.
TraceOf(it, V, g, b, n, s) ==
  /\ it \in [SUBSET (1 .. n) -> V]
  /\ \A u \in SUBSET (1 .. n) :
       /\ u # {} => Max(u) \in u
       /\ it[u] = IF u = {} THEN b ELSE g[<< it[u \ {Max(u)}], s[Max(u)] >>]

\* Such a function exists.
LEMMA TraceExists ==
  ASSUME NEW V, NEW T, NEW g \in [V \X T -> V], NEW b \in V,
         NEW n \in Nat, NEW s \in [1 .. n -> T]
  PROVE  \E it : TraceOf(it, V, g, b, n, s)
<1> DEFINE Trace(m, it) ==
             \A u \in SUBSET (1 .. m) :
               /\ u # {} => Max(u) \in u
               /\ it[u] = IF u = {} THEN b ELSE g[<< it[u \ {Max(u)}], s[Max(u)] >>]
           Traced(m) == \E it \in [SUBSET (1 .. m) -> V] : Trace(m, it)
<1>1. Traced(0)
  <2>1. 1 .. 0 = {}
    OBVIOUS
  <2> DEFINE first == [u \in SUBSET (1 .. 0) |-> b]
  <2>2. first \in [SUBSET (1 .. 0) -> V]
    OBVIOUS
  <2>3. Trace(0, first)
    BY <2>1
  <2> HIDE DEF first, Trace
  <2>4. QED
    BY <2>2, <2>3
<1>2. ASSUME NEW m \in Nat, m + 1 <= n, Traced(m) PROVE Traced(m + 1)
  <2>1. m \in Nat /\ m <= n
    BY <1>2
  <2>2. PICK h \in [SUBSET (1 .. m) -> V] : Trace(m, h)
    BY <1>2
  <2> DEFINE it == [u \in SUBSET (1 .. m + 1) |->
                      IF m + 1 \in u THEN g[<< h[u \ {m + 1}], s[m + 1] >>] ELSE h[u]]
  <2>3. s[m + 1] \in T
    BY <1>2
  <2>4. ASSUME NEW u \in SUBSET (1 .. m + 1)
        PROVE  /\ it[u] \in V
               /\ u # {} => Max(u) \in u
               /\ it[u] = IF u = {} THEN b ELSE g[<< it[u \ {Max(u)}], s[Max(u)] >>]
    <3>1. CASE m + 1 \in u
      <4>1. Max(u) = m + 1 /\ u \ {m + 1} \in SUBSET (1 .. m)
        BY <2>1, <3>1, TopOfSegment
      <4>2. it[u \ {m + 1}] = h[u \ {m + 1}]
        BY <4>1
      <4>3. it[u] = g[<< h[u \ {m + 1}], s[m + 1] >>]
        BY <3>1
      <4>4. h[u \ {m + 1}] \in V
        BY <2>2, <4>1
      <4>5. g[<< h[u \ {m + 1}], s[m + 1] >>] \in V
        BY <2>3, <4>4
      <4> HIDE DEF it
      <4>6. QED
        BY <3>1, <4>1, <4>2, <4>3, <4>5
    <3>2. CASE m + 1 \notin u
      <4>1. u \in SUBSET (1 .. m) /\ u \ {Max(u)} \in SUBSET (1 .. m)
        <5>1. \A i \in u : i \in 1 .. m
          BY <2>1, <3>2
        <5>2. QED
          BY <5>1, Zenon
      <4>2. it[u] = h[u]
        BY <3>2
      <4>3. it[u \ {Max(u)}] = h[u \ {Max(u)}]
        BY <3>2
      <4> HIDE DEF it
      <4>4. QED
        BY <2>2, <4>1, <4>2, <4>3
    <3>3. QED
      BY <3>1, <3>2
  <2>5. it \in [SUBSET (1 .. m + 1) -> V]
    BY <2>4
  <2>6. Trace(m + 1, it)
    BY <2>4
  <2> HIDE DEF it, Trace
  <2>7. QED
    BY <2>5, <2>6
<1> DEFINE S == { m \in Nat : m <= n => Traced(m) }
<1>3. n \in S
  <2> HIDE DEF Traced
  <2>1. S \subseteq Nat /\ 0 \in S
    BY <1>1
  <2>2. \A m \in S : m + 1 \in S
    BY <1>2
  <2> HIDE DEF S
  <2>3. QED
    BY <2>1, <2>2, Natural
<1>4. Traced(n)
  <2> HIDE DEF Traced
  <2>1. QED
    BY <1>3
<1>5. QED
  BY <1>4 DEF TraceOf

-----------------------------------------------------------------------------
(* The CRC of a frame *)

CrcFold(s) == FoldLeft(app_updateModbusCrc, CrcStart, s)

CrcTrace(it, s) ==
  \A u \in SUBSET DOMAIN s :
    it[u] = IF u = {} THEN CrcStart ELSE app_updateModbusCrc(it[u \ {Max(u)}], s[Max(u)])

LEMMA CrcFoldTrace ==
  ASSUME NEW s \in Seq(Byte)
  PROVE  \E it : CrcTrace(it, s) /\ CrcFold(s) = it[DOMAIN s]
<1> DEFINE Eq(it) == it = [u \in SUBSET DOMAIN s |->
                            IF u = {} THEN CrcStart
                            ELSE app_updateModbusCrc(it[u \ {Max(u)}], s[Max(u)])]
<1>1. CrcFold(s) = (CHOOSE it : Eq(it))[DOMAIN s]
  BY DEF CrcFold, FoldLeft, MapThenFoldSet
<1>2. \E it : Eq(it)
  <2> DEFINE g == [p \in Word \X Byte |-> app_updateModbusCrc(p[1], p[2])]
  <2>1. g \in [Word \X Byte -> Word]
    BY CrcType
  <2>2. CrcStart \in Word
    BY DEF CrcStart, Word
  <2>3. PICK n \in Nat : s \in [1 .. n -> Byte]
    OBVIOUS
  <2>4. PICK h : TraceOf(h, Word, g, CrcStart, n, s)
    <3> HIDE DEF g
    <3>1. QED
      BY <2>1, <2>2, <2>3, TraceExists
  <2>5. ASSUME NEW u \in SUBSET (1 .. n)
        PROVE  h[u] = IF u = {} THEN CrcStart
                      ELSE app_updateModbusCrc(h[u \ {Max(u)}], s[Max(u)])
    <3>1. CASE u = {}
      BY <2>4, <3>1 DEF TraceOf
    <3>2. CASE u # {}
      <4>1. u \ {Max(u)} \in SUBSET (1 .. n) /\ Max(u) \in 1 .. n
        BY <2>4, <3>2 DEF TraceOf
      <4>2. h[u \ {Max(u)}] \in Word /\ s[Max(u)] \in Byte
        BY <2>3, <2>4, <4>1 DEF TraceOf
      <4>3. h[u] = g[<< h[u \ {Max(u)}], s[Max(u)] >>]
        BY <2>4, <3>2 DEF TraceOf
      <4>4. QED
        BY <3>2, <4>2, <4>3
    <3>3. QED
      BY <3>1, <3>2
  <2>6. Eq(h)
    BY <2>3, <2>4, <2>5 DEF TraceOf
  <2>7. QED
    BY <2>6
<1> DEFINE f == CHOOSE it : Eq(it)
<1>3. Eq(f)
  <2> HIDE DEF Eq
  <2>1. QED
    BY <1>2
<1> HIDE DEF f
<1>4. CrcTrace(f, s)
  BY <1>3 DEF CrcTrace
<1>5. QED
  BY <1>1, <1>4 DEF f

LEMMA CrcTraceStep ==
  ASSUME NEW it, NEW s, CrcTrace(it, s), NEW m \in Nat, 1 .. m + 1 \in SUBSET DOMAIN s
  PROVE  it[1 .. m + 1] = app_updateModbusCrc(it[1 .. m], s[m + 1])
BY Segment, Zenon DEF CrcTrace

LEMMA CrcFoldEmpty == CrcFold(<<>>) = CrcStart
<1>1. PICK it : CrcTrace(it, <<>>) /\ CrcFold(<<>>) = it[DOMAIN <<>>]
  BY CrcFoldTrace, EmptyType
<1>2. DOMAIN <<>> = {}
  OBVIOUS
<1>3. QED
  BY <1>1, <1>2 DEF CrcTrace

LEMMA CrcFoldAppend ==
  ASSUME NEW s \in Seq(Byte), NEW b \in Byte
  PROVE  CrcFold(Append(s, b)) = app_updateModbusCrc(CrcFold(s), b)
<1> DEFINE t == Append(s, b)
<1>1. PICK n \in Nat : n = Len(s) /\ DOMAIN s = 1 .. n /\ DOMAIN t = 1 .. n + 1
  OBVIOUS
<1>2. /\ t \in Seq(Byte) /\ t[n + 1] = b
      /\ \A m \in 1 .. n : t[m] = s[m]
  BY <1>1
<1> HIDE DEF t
<1>3. PICK f : CrcTrace(f, s) /\ CrcFold(s) = f[1 .. n]
  BY <1>1, CrcFoldTrace
<1>4. PICK h : CrcTrace(h, t) /\ CrcFold(t) = h[1 .. n + 1]
  BY <1>1, <1>2, CrcFoldTrace
<1>5. ASSUME NEW m \in Nat, m + 1 <= n
      PROVE  f[1 .. m + 1] = app_updateModbusCrc(f[1 .. m], s[m + 1])
  <2>1. 1 .. m + 1 \in SUBSET DOMAIN s
    BY <1>1, <1>5
  <2>2. QED
    BY <1>3, <2>1, CrcTraceStep
<1>6. ASSUME NEW m \in Nat, m <= n
      PROVE  h[1 .. m + 1] = app_updateModbusCrc(h[1 .. m], t[m + 1])
  <2>1. 1 .. m + 1 \in SUBSET DOMAIN t
    BY <1>1, <1>6
  <2>2. QED
    BY <1>4, <2>1, CrcTraceStep
<1> DEFINE S == { m \in Nat : m <= n => f[1 .. m] = h[1 .. m] }
<1>7. 0 \in S
  <2>1. 1 .. 0 = {} /\ {} \in SUBSET DOMAIN s /\ {} \in SUBSET DOMAIN t
    OBVIOUS
  <2>2. QED
    BY <1>3, <1>4, <2>1 DEF CrcTrace
<1>8. ASSUME NEW m \in S PROVE m + 1 \in S
  BY <1>2, <1>5, <1>6
<1>9. n \in S
  <2>1. S \subseteq Nat
    OBVIOUS
  <2> HIDE DEF S
  <2>2. QED
    BY <1>7, <1>8, <2>1, Natural
<1>10. f[1 .. n] = h[1 .. n]
  BY <1>9
<1> HIDE DEF S
<1>11. CrcFold(t) = app_updateModbusCrc(CrcFold(s), b)
  BY <1>2, <1>3, <1>4, <1>6, <1>10
<1>12. QED
  BY <1>11 DEF t

LEMMA CrcFoldType == \A s \in Seq(Byte) : CrcFold(s) \in Word
<1> DEFINE P == { s \in Seq(Byte) : CrcFold(s) \in Word }
<1>1. <<>> \in P
  BY CrcFoldEmpty DEF CrcStart, Word
<1>2. \A s \in P, b \in Byte : Append(s, b) \in P
  BY CrcFoldAppend, CrcType
<1>3. P = Seq(Byte)
  <2>1. P \subseteq Seq(Byte)
    OBVIOUS
  <2> HIDE DEF P
  <2>2. QED
    BY <1>1, <1>2, <2>1, Sequences
<1>4. QED
  BY <1>3

-----------------------------------------------------------------------------
(* The sum of the bytes of a frame *)

Plus(a, b) == (a + b) % 256

LEMMA PlusType == \A a, b \in Byte : Plus(a, b) \in Byte
BY DEF Plus, Byte

SumTrace(it, s) ==
  \A u \in SUBSET DOMAIN s :
    it[u] = IF u = {} THEN 0 ELSE Plus(it[u \ {Max(u)}], s[Max(u)])

LEMMA SumHasTrace ==
  ASSUME NEW s \in Seq(Byte)
  PROVE  \E it : SumTrace(it, s) /\ ByteSum(s) = it[DOMAIN s]
<1> DEFINE Eq(it) == it = [u \in SUBSET DOMAIN s |->
                            IF u = {} THEN 0
                            ELSE Plus(it[u \ {Max(u)}], s[Max(u)])]
<1>1. ByteSum(s) = (CHOOSE it : Eq(it))[DOMAIN s]
  BY DEF ByteSum, Plus, FoldLeft, MapThenFoldSet
<1>2. \E it : Eq(it)
  <2> DEFINE g == [p \in Byte \X Byte |-> Plus(p[1], p[2])]
  <2>1. g \in [Byte \X Byte -> Byte]
    BY PlusType
  <2>2. 0 \in Byte
    BY DEF Byte
  <2>3. PICK n \in Nat : s \in [1 .. n -> Byte]
    OBVIOUS
  <2>4. PICK h : TraceOf(h, Byte, g, 0, n, s)
    <3> HIDE DEF g
    <3>1. QED
      BY <2>1, <2>2, <2>3, TraceExists
  <2>5. ASSUME NEW u \in SUBSET (1 .. n)
        PROVE  h[u] = IF u = {} THEN 0
                      ELSE Plus(h[u \ {Max(u)}], s[Max(u)])
    <3>1. CASE u = {}
      BY <2>4, <3>1 DEF TraceOf
    <3>2. CASE u # {}
      <4>1. u \ {Max(u)} \in SUBSET (1 .. n) /\ Max(u) \in 1 .. n
        BY <2>4, <3>2 DEF TraceOf
      <4>2. h[u \ {Max(u)}] \in Byte /\ s[Max(u)] \in Byte
        BY <2>3, <2>4, <4>1 DEF TraceOf
      <4>3. h[u] = g[<< h[u \ {Max(u)}], s[Max(u)] >>]
        BY <2>4, <3>2 DEF TraceOf
      <4>4. QED
        BY <3>2, <4>2, <4>3
    <3>3. QED
      BY <3>1, <3>2
  <2>6. Eq(h)
    BY <2>3, <2>4, <2>5 DEF TraceOf
  <2>7. QED
    BY <2>6
<1> DEFINE f == CHOOSE it : Eq(it)
<1>3. Eq(f)
  <2> HIDE DEF Eq
  <2>1. QED
    BY <1>2
<1> HIDE DEF f
<1>4. SumTrace(f, s)
  BY <1>3 DEF SumTrace
<1>5. QED
  BY <1>1, <1>4 DEF f

LEMMA SumTraceStep ==
  ASSUME NEW it, NEW s, SumTrace(it, s), NEW m \in Nat, 1 .. m + 1 \in SUBSET DOMAIN s
  PROVE  it[1 .. m + 1] = Plus(it[1 .. m], s[m + 1])
BY Segment, Zenon DEF SumTrace

LEMMA ByteSumEmpty == ByteSum(<<>>) = 0
<1>1. PICK it : SumTrace(it, <<>>) /\ ByteSum(<<>>) = it[DOMAIN <<>>]
  BY SumHasTrace, EmptyType
<1>2. DOMAIN <<>> = {}
  OBVIOUS
<1>3. QED
  BY <1>1, <1>2 DEF SumTrace

LEMMA ByteSumAppend ==
  ASSUME NEW s \in Seq(Byte), NEW b \in Byte
  PROVE  ByteSum(Append(s, b)) = Plus(ByteSum(s), b)
<1> DEFINE t == Append(s, b)
<1>1. PICK n \in Nat : n = Len(s) /\ DOMAIN s = 1 .. n /\ DOMAIN t = 1 .. n + 1
  OBVIOUS
<1>2. /\ t \in Seq(Byte) /\ t[n + 1] = b
      /\ \A m \in 1 .. n : t[m] = s[m]
  BY <1>1
<1> HIDE DEF t
<1>3. PICK f : SumTrace(f, s) /\ ByteSum(s) = f[1 .. n]
  BY <1>1, SumHasTrace
<1>4. PICK h : SumTrace(h, t) /\ ByteSum(t) = h[1 .. n + 1]
  BY <1>1, <1>2, SumHasTrace
<1>5. ASSUME NEW m \in Nat, m + 1 <= n
      PROVE  f[1 .. m + 1] = Plus(f[1 .. m], s[m + 1])
  <2>1. 1 .. m + 1 \in SUBSET DOMAIN s
    BY <1>1, <1>5
  <2>2. QED
    BY <1>3, <2>1, SumTraceStep
<1>6. ASSUME NEW m \in Nat, m <= n
      PROVE  h[1 .. m + 1] = Plus(h[1 .. m], t[m + 1])
  <2>1. 1 .. m + 1 \in SUBSET DOMAIN t
    BY <1>1, <1>6
  <2>2. QED
    BY <1>4, <2>1, SumTraceStep
<1> DEFINE S == { m \in Nat : m <= n => f[1 .. m] = h[1 .. m] }
<1>7. 0 \in S
  <2>1. 1 .. 0 = {} /\ {} \in SUBSET DOMAIN s /\ {} \in SUBSET DOMAIN t
    OBVIOUS
  <2>2. QED
    BY <1>3, <1>4, <2>1 DEF SumTrace
<1>8. ASSUME NEW m \in S PROVE m + 1 \in S
  BY <1>2, <1>5, <1>6
<1>9. n \in S
  <2>1. S \subseteq Nat
    OBVIOUS
  <2> HIDE DEF S
  <2>2. QED
    BY <1>7, <1>8, <2>1, Natural
<1>10. f[1 .. n] = h[1 .. n]
  BY <1>9
<1> HIDE DEF S
<1>11. ByteSum(t) = Plus(ByteSum(s), b)
  BY <1>2, <1>3, <1>4, <1>6, <1>10
<1>12. QED
  BY <1>11 DEF t

LEMMA ByteSumType == \A s \in Seq(Byte) : ByteSum(s) \in Byte
<1> DEFINE P == { s \in Seq(Byte) : ByteSum(s) \in Byte }
<1>1. <<>> \in P
  BY ByteSumEmpty DEF Byte
<1>2. \A s \in P, b \in Byte : Append(s, b) \in P
  BY ByteSumAppend, PlusType
<1>3. P = Seq(Byte)
  <2>1. P \subseteq Seq(Byte)
    OBVIOUS
  <2> HIDE DEF P
  <2>2. QED
    BY <1>1, <1>2, <2>1, Sequences
<1>4. QED
  BY <1>3

LEMMA PlusInjective ==
  \A a, b, c \in Byte : (Plus(a, c) = Plus(b, c) => a = b) /\ (Plus(c, a) = Plus(c, b) => a = b)
BY DEF Plus, Byte

-----------------------------------------------------------------------------
(* What one byte does to the CRC *)

LEMMA XorInjective ==
  \A v, w, x : (Xor(v, x) = Xor(w, x) => v = w) /\ (Xor(x, v) = Xor(x, w) => v = w)
BY DEF Xor

LEMMA ShiftInjective ==
  ASSUME NEW v \in Word, NEW w \in Word, CrcShift(v) = CrcShift(w)
  PROVE  v = w
<1> DEFINE half(x) == { i \in 0 .. 14 : i + 1 \in x }
<1>1. \A x \in Word : 15 \in CrcShift(x) <=> 0 \in x
  BY DEF CrcShift, Xor, Polynomial
<1>2. 0 \in v <=> 0 \in w
  BY <1>1
<1>3. half(v) = half(w)
  <2>1. CrcShift(v) = IF 0 \in v THEN Xor(half(v), Polynomial) ELSE half(v)
    BY DEF CrcShift
  <2>2. CrcShift(w) = IF 0 \in w THEN Xor(half(w), Polynomial) ELSE half(w)
    BY DEF CrcShift
  <2> HIDE DEF half
  <2>3. QED
    BY <1>2, <2>1, <2>2, XorInjective, Zenon
<1>4. ASSUME NEW i \in 0 .. 15 PROVE i \in v <=> i \in w
  <2>1. CASE i = 0
    BY <1>2, <2>1
  <2>2. CASE i # 0
    <3>1. i - 1 \in 0 .. 14 /\ i - 1 + 1 = i
      BY <2>2
    <3>2. QED
      BY <1>3, <3>1
  <2>3. QED
    BY <2>1, <2>2
<1>5. QED
  BY <1>4 DEF Word

LEMMA BitsInjective == \A a, b \in Byte : Bits(a) = Bits(b) => a = b
<1> SUFFICES ASSUME NEW a \in 0 .. 255, NEW b \in 0 .. 255, Bits(a) = Bits(b)
             PROVE  a = b
  BY DEF Byte
<1>1. \A i \in 0 .. 7 : ((a \div 2^i) % 2 = 1) <=> ((b \div 2^i) % 2 = 1)
  BY DEF Bits
<1>2. QED
  BY <1>1, SMTT(60)

\* Eight shifts, as app_updateModbusCrc() does them.
EightShifts(w) ==
  CrcShift(CrcShift(CrcShift(CrcShift(CrcShift(CrcShift(CrcShift(CrcShift(w))))))))

LEMMA CrcIsEightShifts ==
  ASSUME NEW crc \in Word, NEW b \in Byte
  PROVE  /\ Xor(crc, Bits(b)) \in Word
         /\ app_updateModbusCrc(crc, b) = EightShifts(Xor(crc, Bits(b)))
<1> DEFINE twice == [w \in Word |-> CrcShift(CrcShift(w))]
           fourTimes == [w \in Word |-> twice[twice[w]]]
<1>1. Xor(crc, Bits(b)) \in Word
  <2>1. Bits(b) \subseteq 0 .. 7
    BY Zenon DEF Bits
  <2>2. 0 .. 7 \subseteq 0 .. 15 /\ crc \subseteq 0 .. 15
    BY DEF Word
  <2>3. QED
    BY <2>1, <2>2, Zenon DEF Xor, Word
<1>2. \A w \in Word : twice[w] = CrcShift(CrcShift(w)) /\ twice[w] \in Word
  BY CrcShiftType
<1>3. \A w \in Word : /\ fourTimes[w] = CrcShift(CrcShift(CrcShift(CrcShift(w))))
                       /\ fourTimes[w] \in Word
  <2> HIDE DEF twice
  <2>1. QED
    BY <1>2
<1>4. app_updateModbusCrc(crc, b) = fourTimes[fourTimes[Xor(crc, Bits(b))]]
  BY DEF app_updateModbusCrc
<1> HIDE DEF fourTimes
<1>5. QED
  BY <1>1, <1>3, <1>4, Zenon DEF EightShifts

LEMMA EightShiftsInjective ==
  ASSUME NEW v \in Word, NEW w \in Word, EightShifts(v) = EightShifts(w)
  PROVE  v = w
<1>1. \A x, y \in Word : CrcShift(x) \in Word /\ (CrcShift(x) = CrcShift(y) => x = y)
  BY CrcShiftType, ShiftInjective, Zenon
<1>2. QED
  BY <1>1, SMT DEF EightShifts

\* Another byte, or another CRC before it, gives another CRC.
LEMMA CrcInjective ==
  ASSUME NEW c \in Word, NEW d \in Word, NEW a \in Byte, NEW b \in Byte,
         app_updateModbusCrc(c, a) = app_updateModbusCrc(d, b)
  PROVE  (c = d => a = b) /\ (a = b => c = d)
<1>1. Xor(c, Bits(a)) = Xor(d, Bits(b))
  <2>1. /\ Xor(c, Bits(a)) \in Word
        /\ app_updateModbusCrc(c, a) = EightShifts(Xor(c, Bits(a)))
    BY CrcIsEightShifts
  <2>2. /\ Xor(d, Bits(b)) \in Word
        /\ app_updateModbusCrc(d, b) = EightShifts(Xor(d, Bits(b)))
    BY CrcIsEightShifts
  <2>3. EightShifts(Xor(c, Bits(a))) = EightShifts(Xor(d, Bits(b)))
    BY <2>1, <2>2
  <2>4. QED
    BY <2>1, <2>2, <2>3, EightShiftsInjective
<1>2. QED
  BY <1>1, XorInjective, BitsInjective, Zenon

-----------------------------------------------------------------------------
(* The CRC over its own two bytes *)

LEMMA BitsOfByteOf ==
  ASSUME NEW w \in Word, NEW k \in {0, 8}
  PROVE  Bits(ByteOf(w, k)) = { i \in 0 .. 7 : k + i \in w }
<1> DEFINE bit(i) == IF k + i \in w THEN 1 ELSE 0
           number(b0, b1, b2, b3, b4, b5, b6, b7) ==
             b0 + 2 * b1 + 4 * b2 + 8 * b3 + 16 * b4 + 32 * b5 + 64 * b6 + 128 * b7
           at(n, i) == (n \div 2^i) % 2
<1>1. \A b0, b1, b2, b3, b4, b5, b6, b7 \in {0, 1} :
        LET n == number(b0, b1, b2, b3, b4, b5, b6, b7)
        IN  /\ at(n, 0) = b0 /\ at(n, 1) = b1 /\ at(n, 2) = b2 /\ at(n, 3) = b3
            /\ at(n, 4) = b4 /\ at(n, 5) = b5 /\ at(n, 6) = b6 /\ at(n, 7) = b7
  OBVIOUS
<1>2. ByteOf(w, k) = number(bit(0), bit(1), bit(2), bit(3), bit(4), bit(5), bit(6), bit(7))
  BY DEF ByteOf
<1>3. \A i : bit(i) \in {0, 1} /\ (bit(i) = 1 <=> k + i \in w)
  OBVIOUS
<1>4. \A i \in 0 .. 7 : i \in {0, 1, 2, 3, 4, 5, 6, 7}
  OBVIOUS
<1>5. Bits(ByteOf(w, k)) = { i \in 0 .. 7 : at(ByteOf(w, k), i) = 1 }
  BY DEF Bits
<1> HIDE DEF bit, number, at
<1>6. \A i \in 0 .. 7 : at(ByteOf(w, k), i) = bit(i)
  <2> DEFINE n == ByteOf(w, k)
  <2>1. /\ at(n, 0) = bit(0) /\ at(n, 1) = bit(1) /\ at(n, 2) = bit(2) /\ at(n, 3) = bit(3)
        /\ at(n, 4) = bit(4) /\ at(n, 5) = bit(5) /\ at(n, 6) = bit(6) /\ at(n, 7) = bit(7)
    BY <1>1, <1>2, <1>3, SMTT(60)
  <2>2. QED
    BY <1>4, <2>1, Zenon
<1>7. QED
  BY <1>3, <1>5, <1>6, Zenon

\* The upper byte of a word, moved down by k bits.
Moved(w, k) == { i \in 8 - k .. 15 - k : i + k \in w }

LEMMA ShiftMoves ==
  ASSUME NEW w \in Word, NEW k \in 0 .. 7
  PROVE  CrcShift(Moved(w, k)) = Moved(w, k + 1)
<1>1. 0 \notin Moved(w, k)
  BY DEF Moved
<1>2. CrcShift(Moved(w, k)) = { i \in 0 .. 14 : i + 1 \in Moved(w, k) }
  BY <1>1 DEF CrcShift
<1>3. QED
  BY <1>2 DEF Moved

LEMMA CrcOfCrcBytes ==
  ASSUME NEW c \in Word
  PROVE  app_updateModbusCrc(app_updateModbusCrc(c, ByteOf(c, 0)), ByteOf(c, 8)) = {}
<1>1. Bits(ByteOf(c, 0)) = { i \in 0 .. 7 : 0 + i \in c }
      /\ Bits(ByteOf(c, 8)) = { i \in 0 .. 7 : 8 + i \in c }
  BY BitsOfByteOf
<1>2. Xor(c, Bits(ByteOf(c, 0))) = Moved(c, 0)
  <2>1. Xor(c, Bits(ByteOf(c, 0))) \subseteq 0 .. 15 /\ Moved(c, 0) \subseteq 0 .. 15
    <3>1. c \subseteq 0 .. 15 /\ Bits(ByteOf(c, 0)) \subseteq 0 .. 7 /\ 0 .. 7 \subseteq 0 .. 15
      BY <1>1 DEF Word
    <3>2. Xor(c, Bits(ByteOf(c, 0))) \subseteq 0 .. 15
      BY <3>1, Zenon DEF Xor
    <3>3. Moved(c, 0) \subseteq 0 .. 15
      BY DEF Moved
    <3>4. QED
      BY <3>2, <3>3
  <2>2. ASSUME NEW i \in 0 .. 15 PROVE i \in Xor(c, Bits(ByteOf(c, 0))) <=> i \in Moved(c, 0)
    BY <1>1 DEF Xor, Moved, Word
  <2>3. QED
    BY <2>1, <2>2
<1>3. EightShifts(Moved(c, 0)) = Moved(c, 8)
  <2>1. /\ CrcShift(Moved(c, 0)) = Moved(c, 1) /\ CrcShift(Moved(c, 1)) = Moved(c, 2)
        /\ CrcShift(Moved(c, 2)) = Moved(c, 3) /\ CrcShift(Moved(c, 3)) = Moved(c, 4)
        /\ CrcShift(Moved(c, 4)) = Moved(c, 5) /\ CrcShift(Moved(c, 5)) = Moved(c, 6)
        /\ CrcShift(Moved(c, 6)) = Moved(c, 7) /\ CrcShift(Moved(c, 7)) = Moved(c, 8)
    BY ShiftMoves
  <2>2. QED
    BY <2>1, Zenon DEF EightShifts
<1>4. app_updateModbusCrc(c, ByteOf(c, 0)) = Moved(c, 8) /\ Moved(c, 8) \in Word
  <2>1. Moved(c, 8) \in Word
    BY DEF Moved, Word
  <2>2. QED
    BY <1>2, <1>3, <2>1, CrcIsEightShifts, ByteOfType
<1>5. Xor(Moved(c, 8), Bits(ByteOf(c, 8))) = {}
  BY <1>1 DEF Xor, Moved
<1>6. EightShifts({}) = {}
  <2>1. CrcShift({}) = {}
    BY DEF CrcShift
  <2>2. QED
    BY <2>1, Zenon DEF EightShifts
<1>7. QED
  BY <1>4, <1>5, <1>6, CrcIsEightShifts, ByteOfType

-----------------------------------------------------------------------------
(* One wrong byte in a frame *)

\* A sequence with one element replaced is the replaced front and the last element,
\* or the front and another last element.
LEMMA ReplacedInAppend ==
  ASSUME NEW s \in Seq(Byte), NEW y \in Byte, NEW i \in 1 .. Len(s) + 1, NEW x \in Byte
  PROVE  IF i = Len(s) + 1
         THEN [Append(s, y) EXCEPT ![i] = x] = Append(s, x) /\ Append(s, y)[i] = y
         ELSE /\ [Append(s, y) EXCEPT ![i] = x] = Append([s EXCEPT ![i] = x], y)
              /\ Append(s, y)[i] = s[i] /\ i \in DOMAIN s
<1> DEFINE t == Append(s, y)
<1>1. /\ t \in Seq(Byte) /\ Len(t) = Len(s) + 1 /\ Len(s) \in Nat
      /\ \A j \in 1 .. Len(s) + 1 : t[j] = IF j <= Len(s) THEN s[j] ELSE y
  OBVIOUS
<1> HIDE DEF t
<1> DEFINE u == [t EXCEPT ![i] = x]
<1>2. /\ u \in Seq(Byte) /\ Len(u) = Len(s) + 1
      /\ \A j \in 1 .. Len(s) + 1 : u[j] = IF j = i THEN x ELSE t[j]
  BY <1>1, ExceptSeq
<1> HIDE DEF u
<1>3. CASE i = Len(s) + 1
  <2> DEFINE v == Append(s, x)
  <2>1. /\ v \in Seq(Byte) /\ Len(v) = Len(s) + 1
        /\ \A j \in 1 .. Len(s) + 1 : v[j] = IF j <= Len(s) THEN s[j] ELSE x
    OBVIOUS
  <2> HIDE DEF v
  <2>2. u = v
    BY <1>1, <1>2, <1>3, <2>1, SeqEqual
  <2>3. t[i] = y
    BY <1>1, <1>3
  <2>4. QED
    BY <1>3, <2>2, <2>3 DEF t, u, v
<1>4. CASE i # Len(s) + 1
  <2> DEFINE w == [s EXCEPT ![i] = x]
             v == Append(w, y)
  <2>0. i \in 1 .. Len(s) /\ i \in DOMAIN s
    BY <1>1, <1>4
  <2>1. /\ w \in Seq(Byte) /\ Len(w) = Len(s)
        /\ \A j \in 1 .. Len(s) : w[j] = IF j = i THEN x ELSE s[j]
    BY <2>0, ExceptSeq
  <2> HIDE DEF w
  <2>2. /\ v \in Seq(Byte) /\ Len(v) = Len(s) + 1
        /\ \A j \in 1 .. Len(s) + 1 : v[j] = IF j <= Len(s) THEN w[j] ELSE y
    BY <2>1
  <2> HIDE DEF v
  <2>3. \A j \in 1 .. Len(u) : u[j] = v[j]
    BY <1>1, <1>2, <2>0, <2>1, <2>2
  <2>4. u = v
    BY <1>2, <2>2, <2>3, SeqEqual
  <2>5. t[i] = s[i]
    BY <1>1, <2>0
  <2>6. QED
    BY <1>4, <2>0, <2>4, <2>5 DEF t, u, v, w
<1>5. QED
  BY <1>3, <1>4

LEMMA CrcChanges ==
  ASSUME NEW s \in Seq(Byte), NEW i \in DOMAIN s, NEW x \in Byte, x # s[i]
  PROVE  CrcFold([s EXCEPT ![i] = x]) # CrcFold(s)
<1> DEFINE Differs(q) == \A j \in DOMAIN q, b \in Byte :
                           b # q[j] => CrcFold([q EXCEPT ![j] = b]) # CrcFold(q)
           P == { q \in Seq(Byte) : Differs(q) }
<1>1. <<>> \in P
  OBVIOUS
<1>2. ASSUME NEW q \in P, NEW y \in Byte PROVE Append(q, y) \in P
  <2>1. q \in Seq(Byte) /\ Differs(q) /\ Append(q, y) \in Seq(Byte)
    OBVIOUS
  <2>2. ASSUME NEW j \in DOMAIN Append(q, y), NEW b \in Byte, b # Append(q, y)[j]
        PROVE  CrcFold([Append(q, y) EXCEPT ![j] = b]) # CrcFold(Append(q, y))
    <3>1. j \in 1 .. Len(q) + 1
      BY <2>1
    <3>2. CrcFold(Append(q, y)) = app_updateModbusCrc(CrcFold(q), y) /\ CrcFold(q) \in Word
      BY <2>1, CrcFoldAppend, CrcFoldType
    <3>3. CASE j = Len(q) + 1
      <4>1. [Append(q, y) EXCEPT ![j] = b] = Append(q, b) /\ b # y
        BY <2>1, <2>2, <3>1, <3>3, ReplacedInAppend
      <4>2. CrcFold(Append(q, b)) = app_updateModbusCrc(CrcFold(q), b)
        BY <2>1, CrcFoldAppend
      <4>3. app_updateModbusCrc(CrcFold(q), b) # app_updateModbusCrc(CrcFold(q), y)
        BY <3>2, <4>1, CrcInjective
      <4>4. QED
        BY <3>2, <4>1, <4>2, <4>3
    <3>4. CASE j # Len(q) + 1
      <4> DEFINE r == [q EXCEPT ![j] = b]
      <4>1. /\ [Append(q, y) EXCEPT ![j] = b] = Append(r, y)
            /\ b # q[j] /\ j \in DOMAIN q
        BY <2>1, <2>2, <3>1, <3>4, ReplacedInAppend
      <4>2. CrcFold(r) # CrcFold(q)
        BY <2>1, <4>1
      <4>3. r \in Seq(Byte)
        BY <2>1, <4>1
      <4> HIDE DEF r
      <4>4. CrcFold(Append(r, y)) = app_updateModbusCrc(CrcFold(r), y) /\ CrcFold(r) \in Word
        BY <4>3, CrcFoldAppend, CrcFoldType
      <4>5. app_updateModbusCrc(CrcFold(r), y) # app_updateModbusCrc(CrcFold(q), y)
        BY <3>2, <4>2, <4>4, CrcInjective
      <4>6. QED
        BY <3>2, <4>1, <4>4, <4>5
    <3>5. QED
      BY <3>3, <3>4
  <2>3. Differs(Append(q, y))
    BY <2>2
  <2> HIDE DEF Differs
  <2>4. QED
    BY <2>1, <2>3
<1>3. P = Seq(Byte)
  <2>1. P \subseteq Seq(Byte)
    OBVIOUS
  <2> HIDE DEF P
  <2>2. QED
    BY <1>1, <1>2, <2>1, Sequences
<1>4. Differs(s)
  <2> HIDE DEF Differs
  <2>1. QED
    BY <1>3
<1>5. QED
  BY <1>4

LEMMA SumChanges ==
  ASSUME NEW s \in Seq(Byte), NEW i \in DOMAIN s, NEW x \in Byte, x # s[i]
  PROVE  ByteSum([s EXCEPT ![i] = x]) # ByteSum(s)
<1> DEFINE Differs(q) == \A j \in DOMAIN q, b \in Byte :
                           b # q[j] => ByteSum([q EXCEPT ![j] = b]) # ByteSum(q)
           P == { q \in Seq(Byte) : Differs(q) }
<1>1. <<>> \in P
  OBVIOUS
<1>2. ASSUME NEW q \in P, NEW y \in Byte PROVE Append(q, y) \in P
  <2>1. q \in Seq(Byte) /\ Differs(q) /\ Append(q, y) \in Seq(Byte)
    OBVIOUS
  <2>2. ASSUME NEW j \in DOMAIN Append(q, y), NEW b \in Byte, b # Append(q, y)[j]
        PROVE  ByteSum([Append(q, y) EXCEPT ![j] = b]) # ByteSum(Append(q, y))
    <3>1. j \in 1 .. Len(q) + 1
      BY <2>1
    <3>2. ByteSum(Append(q, y)) = Plus(ByteSum(q), y) /\ ByteSum(q) \in Byte
      BY <2>1, ByteSumAppend, ByteSumType
    <3>3. CASE j = Len(q) + 1
      <4>1. [Append(q, y) EXCEPT ![j] = b] = Append(q, b) /\ b # y
        BY <2>1, <2>2, <3>1, <3>3, ReplacedInAppend
      <4>2. ByteSum(Append(q, b)) = Plus(ByteSum(q), b)
        BY <2>1, ByteSumAppend
      <4>3. Plus(ByteSum(q), b) # Plus(ByteSum(q), y)
        BY <3>2, <4>1, PlusInjective
      <4>4. QED
        BY <3>2, <4>1, <4>2, <4>3
    <3>4. CASE j # Len(q) + 1
      <4> DEFINE r == [q EXCEPT ![j] = b]
      <4>1. /\ [Append(q, y) EXCEPT ![j] = b] = Append(r, y)
            /\ b # q[j] /\ j \in DOMAIN q
        BY <2>1, <2>2, <3>1, <3>4, ReplacedInAppend
      <4>2. ByteSum(r) # ByteSum(q)
        BY <2>1, <4>1
      <4>3. r \in Seq(Byte)
        BY <2>1, <4>1
      <4> HIDE DEF r
      <4>4. ByteSum(Append(r, y)) = Plus(ByteSum(r), y) /\ ByteSum(r) \in Byte
        BY <4>3, ByteSumAppend, ByteSumType
      <4>5. Plus(ByteSum(r), y) # Plus(ByteSum(q), y)
        BY <3>2, <4>2, <4>4, PlusInjective
      <4>6. QED
        BY <3>2, <4>1, <4>4, <4>5
    <3>5. QED
      BY <3>3, <3>4
  <2>3. Differs(Append(q, y))
    BY <2>2
  <2> HIDE DEF Differs
  <2>4. QED
    BY <2>1, <2>3
<1>3. P = Seq(Byte)
  <2>1. P \subseteq Seq(Byte)
    OBVIOUS
  <2> HIDE DEF P
  <2>2. QED
    BY <1>1, <1>2, <2>1, Sequences
<1>4. Differs(s)
  <2> HIDE DEF Differs
  <2>1. QED
    BY <1>3
<1>5. QED
  BY <1>4

\* The last byte is the LRC of the others if and only if all add up to 0.
LEMMA LrcIsRight ==
  ASSUME NEW s \in Seq(Byte), NEW b \in Byte
  PROVE  /\ Lrc(s) \in Byte
         /\ (b = Lrc(s)) <=> (ByteSum(Append(s, b)) = 0)
<1> DEFINE neg(m) == (256 - m) % 256
<1>1. Lrc(s) = neg(ByteSum(s))
  BY DEF Lrc
<1>2. ByteSum(Append(s, b)) = Plus(ByteSum(s), b) /\ ByteSum(s) \in Byte
  BY ByteSumAppend, ByteSumType
<1>3. \A m \in 0 .. 255 : neg(m) = IF m = 0 THEN 0 ELSE 256 - m
  OBVIOUS
<1>4. ASSUME NEW m \in Byte, NEW n \in Byte
      PROVE  neg(m) \in Byte /\ (n = neg(m) <=> Plus(m, n) = 0)
  <2>1. m \in 0 .. 255 /\ n \in 0 .. 255
    BY DEF Byte
  <2>2. \A k \in 0 .. 510 : k % 256 = 0 <=> k = 0 \/ k = 256
    OBVIOUS
  <2>3. m + n \in 0 .. 510
    BY <2>1
  <2>4. (m + n) % 256 = 0 <=> m + n = 0 \/ m + n = 256
    BY <2>2, <2>3
  <2>5. neg(m) = IF m = 0 THEN 0 ELSE 256 - m
    BY <1>3, <2>1, Zenon
  <2> HIDE DEF neg
  <2>6. neg(m) \in 0 .. 255 /\ (n = neg(m) <=> m + n = 0 \/ m + n = 256)
    BY <2>1, <2>5
  <2>7. QED
    BY <2>4, <2>6, Zenon DEF Plus, Byte
<1> HIDE DEF neg
<1>5. /\ neg(ByteSum(s)) \in Byte
      /\ b = neg(ByteSum(s)) <=> Plus(ByteSum(s), b) = 0
  BY <1>2, <1>4
<1>6. QED
  BY <1>1, <1>2, <1>5

-----------------------------------------------------------------------------
(* Text of which the receiver of the gateway makes no frame *)

\* The digit number i of the text of the bytes b, as a number.
Nibble(b, i) == IF i % 2 = 1 THEN b[(i + 1) \div 2] \div 16 ELSE b[i \div 2] % 16

\* cnt digits of the text of b have been read: their sum is lrc, data is the upper
\* half of the byte that has begun.
ReadSoFar(b, cnt, lrc, data) ==
  /\ cnt <= 2 * Len(b)
  /\ lrc = ByteSum(SubSeq(b, 1, cnt \div 2))
  /\ cnt % 2 = 1 => data = b[cnt \div 2 + 1] \div 16

\* The other digits of b follow from character o + 1 of text on.
Follows(text, o, b, cnt) ==
  \A i \in cnt + 1 .. 2 * Len(b) : DigitValue(text[o + i - cnt]) = Nibble(b, i)

\* The digits before character e, which is CR, complete bytes with a sum that is not 0.
WrongSum(text, o, e, cnt, lrc, data) ==
  \E b \in Seq(Byte) :
    /\ ByteSum(b) # 0 /\ Len(b) <= 127
    /\ ReadSoFar(b, cnt, lrc, data) /\ Follows(text, o, b, cnt)
    /\ e - o - 1 = 2 * Len(b) - cnt

\* Character e of text, the first one after o that is no digit, does not end the
\* frame: it breaks it off, or it is a CR in a wrong place, before which there is
\* nothing or a wrong sum, or after which there is no LF.
EndsNone(text, o, e, cnt, lrc, data, wIndex) ==
  \/ text[e] \notin Digits \cup {CR}
  \/ /\ text[e] = CR
     /\ \/ (cnt + e - o - 1) % 2 = 1
        \/ \A i \in e + 1 .. Len(text) : text[i] # LF
        \/ e = o + 1 /\ wIndex = 0
        \/ WrongSum(text, o, e, cnt, lrc, data)

\* What follows after character o of text does not complete the frame that has been
\* begun: there are digits only, or what comes after them does not end a frame.
NoFrame(text, o, cnt, lrc, data, wIndex) ==
  \/ \A i \in o + 1 .. Len(text) : text[i] \in Digits
  \/ \E e \in o + 1 .. Len(text) :
       /\ \A i \in o + 1 .. e - 1 : text[i] \in Digits
       /\ EndsNone(text, o, e, cnt, lrc, data, wIndex)

\* The last colon in text, if any, is character o, and no LF comes before it.
LastColon(text, o) ==
  /\ o \in 0 .. Len(text)
  /\ \A i \in o + 1 .. Len(text) : text[i] # Colon
  /\ o > 0 => text[o] = Colon /\ \A i \in 1 .. o - 1 : text[i] # LF

\* The receiver makes no frame of what comes.
Harmless(text, r, wIndex) ==
  \/ \E o \in 1 .. Len(text) : LastColon(text, o) /\ NoFrame(text, o, 0, 0, 0, 0)
  \/ /\ LastColon(text, 0)
     /\ \/ ~r.frameActive
        \/ r.frameEnd /\ (r.lrc # 0 \/ \A i \in 1 .. Len(text) : text[i] # LF)
        \/ ~r.frameEnd /\ NoFrame(text, 0, r.cnt, r.lrc, r.lastData, wIndex)

-----------------------------------------------------------------------------
(* A line and the bytes that its digits are *)

LEMMA Characters ==
  /\ Colon \in Byte /\ CR \in Byte /\ LF \in Byte
  /\ Colon \notin Digits /\ CR \notin Digits /\ LF \notin Digits
  /\ Colon # CR /\ Colon # LF /\ CR # LF
<1>1. \A d \in Digits : d \in 48 .. 57 \/ d \in 65 .. 70
  BY DEF Digits, Digit
<1>2. QED
  BY <1>1 DEF Colon, CR, LF, Byte

LEMMA SameDigit == \A c, d \in Digits : DigitValue(c) = DigitValue(d) => c = d
<1>1. \A d \in Digits : d \in 48 .. 57 \/ d \in 65 .. 70
  BY DEF Digits, Digit
<1>2. QED
  BY <1>1 DEF DigitValue

\* The characters of a legal line of n bytes, the LRC among them.
LineOf(line, n) ==
  /\ n \in Nat /\ n >= 3 /\ line \in Seq(Byte) /\ Len(line) = 2 * n + 3
  /\ line[1] = Colon /\ line[2 * n + 2] = CR /\ line[2 * n + 3] = LF
  /\ \A i \in 1 .. 2 * n : line[i + 1] \in Digits

LEMMA LegalLine ==
  ASSUME NEW line \in Seq(Byte), Legal(line)
  PROVE  \E n \in Nat : LineOf(line, n)
<1>1. /\ Len(line) \in Nat /\ Len(line) >= 9 /\ Len(line) % 2 = 1
      /\ line[1] = Colon /\ line[Len(line) - 1] = CR /\ line[Len(line)] = LF
      /\ \A i \in 2 .. Len(line) - 2 : line[i] \in Digits
  BY DEF Legal
<1>2. PICK n \in Nat : Len(line) = 2 * n + 3
  <2>1. \A m \in Nat : m >= 9 /\ m % 2 = 1 => /\ (m - 3) \div 2 \in Nat
                                             /\ m = 2 * ((m - 3) \div 2) + 3
    OBVIOUS
  <2>2. QED
    BY <1>1, <2>1
<1>3. n >= 3 /\ Len(line) - 1 = 2 * n + 2 /\ Len(line) - 2 = 2 * n + 1
  BY <1>1, <1>2
<1>4. \A i \in 1 .. 2 * n : line[i + 1] \in Digits
  <2>1. \A i \in 1 .. 2 * n : i + 1 \in 2 .. 2 * n + 1
    BY <1>2
  <2>2. QED
    BY <1>1, <1>3, <2>1
<1>5. QED
  BY <1>1, <1>2, <1>3, <1>4 DEF LineOf

\* What the digits of the line say.
DigitsSay(line, n, b) ==
  /\ b \in Seq(Byte) /\ Len(b) = n
  /\ BufferOf(line) = SubSeq(b, 1, n - 1)
  /\ \A i \in 1 .. 2 * n : DigitValue(line[i + 1]) = Nibble(b, i)

LEMMA Halves ==
  \A x, y \in 0 .. 15 : /\ 16 * x + y \in Byte
                       /\ (16 * x + y) \div 16 = x /\ (16 * x + y) % 16 = y
BY DEF Byte

LEMMA LineBytes ==
  ASSUME NEW line, NEW n, LineOf(line, n)
  PROVE  DigitsSay(line, n, BufferWithLrc(line))
<1> DEFINE b == BufferWithLrc(line)
<1>1. /\ n \in Nat /\ n >= 3 /\ Len(line) = 2 * n + 3
      /\ \A i \in 1 .. 2 * n : line[i + 1] \in Digits
  BY DEF LineOf
<1>2. (Len(line) - 3) \div 2 = n /\ (Len(line) - 5) \div 2 = n - 1
  BY <1>1
<1>3. b = [j \in 1 .. n |-> ByteAt(line, 2 * j)]
  BY <1>2 DEF BufferWithLrc
<1>4. \A j \in 1 .. n : /\ DigitValue(line[2 * j]) \in 0 .. 15
                        /\ DigitValue(line[2 * j + 1]) \in 0 .. 15
                        /\ b[j] = 16 * DigitValue(line[2 * j]) + DigitValue(line[2 * j + 1])
  <2> SUFFICES ASSUME NEW j \in 1 .. n
               PROVE  /\ DigitValue(line[2 * j]) \in 0 .. 15
                      /\ DigitValue(line[2 * j + 1]) \in 0 .. 15
                      /\ b[j] = 16 * DigitValue(line[2 * j]) + DigitValue(line[2 * j + 1])
    OBVIOUS
  <2>1. /\ 2 * j - 1 \in 1 .. 2 * n /\ 2 * j \in 1 .. 2 * n /\ (2 * j - 1) + 1 = 2 * j
    BY <1>1
  <2>2. line[2 * j] \in Digits /\ line[2 * j + 1] \in Digits
    BY <1>1, <2>1
  <2>3. b[j] = ByteAt(line, 2 * j)
    BY <1>3
  <2>4. QED
    BY <2>2, <2>3, DigitValueType DEF ByteAt
<1> HIDE DEF b
<1>5. \A j \in 1 .. n : /\ b[j] \in Byte
                        /\ b[j] \div 16 = DigitValue(line[2 * j])
                        /\ b[j] % 16 = DigitValue(line[2 * j + 1])
  BY <1>4, Halves
<1>6. b \in Seq(Byte) /\ Len(b) = n
  <2>1. b \in [1 .. n -> Byte]
    BY <1>3, <1>5
  <2>2. QED
    BY <1>1, <2>1
<1>7. BufferOf(line) = SubSeq(b, 1, n - 1)
  <2>1. BufferOf(line) = [j \in 1 .. n - 1 |-> ByteAt(line, 2 * j)]
    BY <1>2 DEF BufferOf
  <2>2. SubSeq(b, 1, n - 1) = [j \in 1 .. n - 1 |-> b[j]]
    BY <1>1, <1>6
  <2>3. \A j \in 1 .. n - 1 : b[j] = ByteAt(line, 2 * j)
    BY <1>1, <1>3
  <2>4. QED
    BY <2>1, <2>2, <2>3
<1>8. ASSUME NEW i \in 1 .. 2 * n
      PROVE  DigitValue(line[i + 1]) = Nibble(b, i)
  <2>1. CASE i % 2 = 1
    <3>1. PICK j \in 1 .. n : i + 1 = 2 * j /\ (i + 1) \div 2 = j
      <4>1. (i + 1) \div 2 \in 1 .. n /\ i + 1 = 2 * ((i + 1) \div 2)
        BY <1>1, <2>1
      <4>2. QED
        BY <4>1
    <3>2. QED
      BY <1>5, <2>1, <3>1 DEF Nibble
  <2>2. CASE i % 2 # 1
    <3>1. PICK j \in 1 .. n : i = 2 * j /\ i \div 2 = j
      <4>1. i \div 2 \in 1 .. n /\ i = 2 * (i \div 2)
        BY <1>1, <2>2
      <4>2. QED
        BY <4>1
    <3>2. i + 1 = 2 * j + 1
      BY <3>1
    <3>3. QED
      BY <1>5, <2>2, <3>1, <3>2, Zenon DEF Nibble
  <2>3. QED
    BY <2>1, <2>2
<1>9. QED
  BY <1>6, <1>7, <1>8 DEF b, DigitsSay

LEMMA NextPrefix ==
  ASSUME NEW T, NEW s \in Seq(T), NEW k \in 0 .. Len(s) - 1
  PROVE  SubSeq(s, 1, k + 1) = Append(SubSeq(s, 1, k), s[k + 1])
OBVIOUS

LEMMA WholeSequence ==
  ASSUME NEW T, NEW s \in Seq(T)
  PROVE  SubSeq(s, 1, Len(s)) = s
OBVIOUS

\* The bytes of a line whose LRC is right add up to 0.
LEMMA SumOfLine ==
  ASSUME NEW line, NEW n, LineOf(line, n), LrcOk(line)
  PROVE  ByteSum(BufferWithLrc(line)) = 0
<1> DEFINE b == BufferWithLrc(line)
           m == SubSeq(b, 1, n - 1)
<1>1. /\ n \in Nat /\ n >= 3 /\ Len(line) = 2 * n + 3
  BY DEF LineOf
<1>2. b \in Seq(Byte) /\ Len(b) = n /\ BufferOf(line) = m
  BY LineBytes DEF DigitsSay
<1>3. b[n] = Lrc(m)
  <2>1. (Len(line) - 3) \div 2 = n /\ Len(line) - 3 = 2 * n
    BY <1>1
  <2>2. b[n] = ByteAt(line, 2 * n)
    BY <1>1, <2>1 DEF BufferWithLrc
  <2>3. QED
    BY <1>2, <2>1, <2>2 DEF LrcOk
<1>4. m \in Seq(Byte) /\ b[n] \in Byte
  BY <1>1, <1>2
<1>5. b = Append(m, b[n])
  <2>1. SubSeq(b, 1, n) = b
    BY <1>2
  <2>2. n - 1 \in 0 .. n - 1 /\ (n - 1) + 1 = n
    BY <1>1
  <2> HIDE DEF b
  <2>3. SubSeq(b, 1, (n - 1) + 1) = Append(SubSeq(b, 1, n - 1), b[(n - 1) + 1])
    BY <1>2, <2>2, NextPrefix
  <2>4. QED
    BY <2>1, <2>2, <2>3
<1> HIDE DEF b, m
<1>6. ByteSum(Append(m, b[n])) = 0
  BY <1>3, <1>4, LrcIsRight
<1>7. QED
  BY <1>5, <1>6 DEF b

-----------------------------------------------------------------------------
(* Sums *)

LEMMA HalfOfEven ==
  \A c \in Nat : c % 2 = 0 =>
    /\ c \div 2 \in Nat /\ c = 2 * (c \div 2) /\ (c + 1) \div 2 = c \div 2
    /\ (c + 2) \div 2 = (c \div 2) + 1 /\ (c + 1) % 2 = 1
OBVIOUS

LEMMA HalfOfOdd ==
  \A c \in Nat : c % 2 = 1 =>
    /\ c \div 2 \in Nat /\ c = 2 * (c \div 2) + 1 /\ (c + 1) \div 2 = c \div 2 + 1
    /\ (c + 1) % 2 = 0
OBVIOUS

LEMMA HalfBelow == \A m, c \in Nat : c < 2 * m => c \div 2 < m
OBVIOUS

LEMMA ReadDigit ==
  ASSUME NEW b \in Seq(Byte), NEW cnt \in Nat, cnt < 2 * Len(b),
         NEW lrc, NEW data, ReadSoFar(b, cnt, lrc, data),
         NEW v, v = Nibble(b, cnt + 1)
  PROVE  /\ cnt % 2 = 0 => ReadSoFar(b, cnt + 1, lrc, v)
         /\ cnt % 2 = 1 =>
              /\ data * 16 + v = b[(cnt + 1) \div 2]
              /\ ReadSoFar(b, cnt + 1, (lrc + (data * 16 + v)) % 256, data)
<1>1. CASE cnt % 2 = 0
  <2>1. PICK k \in Nat : cnt = 2 * k /\ cnt \div 2 = k /\ (cnt + 1) \div 2 = k
                        /\ (cnt + 2) \div 2 = k + 1 /\ (cnt + 1) % 2 = 1 /\ k < Len(b)
    <3>1. /\ cnt \div 2 \in Nat /\ cnt = 2 * (cnt \div 2)
          /\ (cnt + 1) \div 2 = cnt \div 2 /\ (cnt + 2) \div 2 = (cnt \div 2) + 1
          /\ (cnt + 1) % 2 = 1
      BY <1>1, HalfOfEven
    <3>2. cnt \div 2 < Len(b)
      BY HalfBelow
    <3>3. QED
      BY <3>1, <3>2
  <2>2. v = b[k + 1] \div 16
    <3>1. (cnt + 1) + 1 = cnt + 2
      BY <2>1
    <3>2. QED
      BY <2>1, <3>1 DEF Nibble
  <2>3. cnt + 1 <= 2 * Len(b)
    OBVIOUS
  <2>4. QED
    BY <1>1, <2>1, <2>2, <2>3 DEF ReadSoFar
<1>2. CASE cnt % 2 = 1
  <2>1. PICK k \in Nat : cnt = 2 * k + 1 /\ cnt \div 2 = k /\ (cnt + 1) \div 2 = k + 1
                        /\ (cnt + 1) % 2 = 0 /\ k < Len(b)
    <3>1. /\ cnt \div 2 \in Nat /\ cnt = 2 * (cnt \div 2) + 1
          /\ (cnt + 1) \div 2 = cnt \div 2 + 1 /\ (cnt + 1) % 2 = 0
      BY <1>2, HalfOfOdd
    <3>2. cnt \div 2 < Len(b)
      BY HalfBelow
    <3>3. QED
      BY <3>1, <3>2
  <2>2. v = b[k + 1] % 16 /\ data = b[k + 1] \div 16 /\ lrc = ByteSum(SubSeq(b, 1, k))
    BY <1>2, <2>1 DEF Nibble, ReadSoFar
  <2>3. b[k + 1] \in Byte /\ SubSeq(b, 1, k) \in Seq(Byte)
    BY <2>1
  <2>4. data * 16 + v = b[k + 1]
    <3>1. \A x \in Byte : (x \div 16) * 16 + (x % 16) = x
      BY DEF Byte
    <3>2. QED
      BY <2>2, <2>3, <3>1
  <2>5. ByteSum(SubSeq(b, 1, k + 1)) = (lrc + b[k + 1]) % 256
    <3>1. SubSeq(b, 1, k + 1) = Append(SubSeq(b, 1, k), b[k + 1])
      BY <2>1, NextPrefix
    <3>2. ByteSum(Append(SubSeq(b, 1, k), b[k + 1])) = Plus(ByteSum(SubSeq(b, 1, k)), b[k + 1])
      BY <2>3, ByteSumAppend
    <3>3. QED
      BY <2>2, <3>1, <3>2 DEF Plus
  <2>6. cnt + 1 <= 2 * Len(b)
    OBVIOUS
  <2>7. QED
    BY <1>2, <2>1, <2>4, <2>5, <2>6 DEF ReadSoFar
<1>3. QED
  BY <1>1, <1>2

LEMMA PlusZero == \A a \in Byte : Plus(a, 0) = a
BY DEF Plus, Byte

LEMMA PlusAssociative == \A a, b, c \in Byte : Plus(Plus(a, b), c) = Plus(a, Plus(b, c))
BY DEF Plus, Byte

LEMMA ByteSumConcat ==
  ASSUME NEW s \in Seq(Byte), NEW t \in Seq(Byte)
  PROVE  ByteSum(s \o t) = Plus(ByteSum(s), ByteSum(t))
<1> DEFINE P == { u \in Seq(Byte) : ByteSum(s \o u) = Plus(ByteSum(s), ByteSum(u)) }
<1>1. <<>> \in P
  <2>1. s \o <<>> = s /\ <<>> \in Seq(Byte)
    OBVIOUS
  <2>2. QED
    BY <2>1, ByteSumEmpty, ByteSumType, PlusZero
<1>2. ASSUME NEW u \in P, NEW x \in Byte
      PROVE  Append(u, x) \in P
  <2>1. /\ u \in Seq(Byte) /\ Append(u, x) \in Seq(Byte) /\ s \o u \in Seq(Byte)
        /\ s \o Append(u, x) = Append(s \o u, x)
    OBVIOUS
  <2>2. ByteSum(s \o Append(u, x)) = Plus(Plus(ByteSum(s), ByteSum(u)), x)
    BY <2>1, ByteSumAppend
  <2>3. ByteSum(Append(u, x)) = Plus(ByteSum(u), x)
    BY <2>1, ByteSumAppend
  <2>4. Plus(Plus(ByteSum(s), ByteSum(u)), x) = Plus(ByteSum(s), Plus(ByteSum(u), x))
    BY <2>1, ByteSumType, PlusAssociative
  <2>5. QED
    BY <2>1, <2>2, <2>3, <2>4
<1>3. P \subseteq Seq(Byte)
  OBVIOUS
<1> HIDE DEF P
<1>4. P = Seq(Byte)
  BY <1>1, <1>2, <1>3, Sequences
<1>5. QED
  BY <1>4 DEF P

LEMMA CutSequence ==
  ASSUME NEW T, NEW s \in Seq(T), NEW k \in 0 .. Len(s)
  PROVE  /\ SubSeq(s, 1, k) \in Seq(T) /\ Len(SubSeq(s, 1, k)) = k
         /\ SubSeq(s, k + 1, Len(s)) \in Seq(T)
         /\ Len(SubSeq(s, k + 1, Len(s))) = Len(s) - k
         /\ \A i \in 1 .. k : SubSeq(s, 1, k)[i] = s[i]
         /\ \A i \in 1 .. Len(s) - k : SubSeq(s, k + 1, Len(s))[i] = s[k + i]
         /\ s = SubSeq(s, 1, k) \o SubSeq(s, k + 1, Len(s))
<1> DEFINE u == SubSeq(s, 1, k)
           v == SubSeq(s, k + 1, Len(s))
<1>1. /\ u \in Seq(T) /\ Len(u) = k /\ \A i \in 1 .. k : u[i] = s[i]
  OBVIOUS
<1>2. /\ v \in Seq(T) /\ Len(v) = Len(s) - k
      /\ \A i \in 1 .. Len(s) - k : v[i] = s[k + i]
  <2>1. k + 1 >= 1 /\ k + 1 <= Len(s) + 1
    OBVIOUS
  <2>2. v = [i \in 1 .. Len(s) - k |-> s[i + k]]
    OBVIOUS
  <2>3. \A i \in 1 .. Len(s) - k : v[i] = s[k + i]
    <3>1. \A i \in 1 .. Len(s) - k : i + k = k + i
      OBVIOUS
    <3> HIDE DEF v
    <3>2. QED
      BY <2>2, <3>1
  <2>4. v \in Seq(T) /\ Len(v) = Len(s) - k
    OBVIOUS
  <2>5. QED
    BY <2>3, <2>4
<1> HIDE DEF u, v
<1>3. /\ u \o v \in Seq(T) /\ Len(u \o v) = Len(s)
      /\ \A i \in 1 .. Len(s) : (u \o v)[i] = IF i <= k THEN u[i] ELSE v[i - k]
  <2>1. /\ u \o v \in Seq(T) /\ Len(u \o v) = Len(u) + Len(v)
        /\ \A i \in 1 .. Len(u) + Len(v) :
             (u \o v)[i] = IF i <= Len(u) THEN u[i] ELSE v[i - Len(u)]
    BY <1>1, <1>2, ConcatProperties
  <2>2. Len(u) = k /\ Len(u) + Len(v) = Len(s)
    BY <1>1, <1>2
  <2>3. QED
    BY <2>1, <2>2
<1>4. \A i \in 1 .. Len(s) : (u \o v)[i] = s[i]
  <2> SUFFICES ASSUME NEW i \in 1 .. Len(s) PROVE (u \o v)[i] = s[i]
    OBVIOUS
  <2>1. CASE i <= k
    BY <1>1, <1>2, <1>3, <2>1
  <2>2. CASE ~(i <= k)
    <3>1. i - k \in 1 .. Len(s) - k /\ k + (i - k) = i
      BY <2>2
    <3>2. v[i - k] = s[k + (i - k)]
      BY <1>2, <3>1
    <3>3. QED
      BY <1>1, <1>2, <1>3, <2>2, <3>1, <3>2
  <2>3. QED
    BY <2>1, <2>2
<1>5. s = u \o v
  BY <1>3, <1>4, SeqEqual
<1>6. QED
  BY <1>1, <1>2, <1>5 DEF u, v

\* The same for bytes, without the parameter.
LEMMA CutBytes ==
  \A s \in Seq(Byte) : \A k \in 0 .. Len(s) :
    /\ SubSeq(s, 1, k) \in Seq(Byte) /\ Len(SubSeq(s, 1, k)) = k
    /\ SubSeq(s, k + 1, Len(s)) \in Seq(Byte)
    /\ Len(SubSeq(s, k + 1, Len(s))) = Len(s) - k
    /\ s = SubSeq(s, 1, k) \o SubSeq(s, k + 1, Len(s))
<1> SUFFICES ASSUME NEW s \in Seq(Byte), NEW k \in 0 .. Len(s)
             PROVE  /\ SubSeq(s, 1, k) \in Seq(Byte) /\ Len(SubSeq(s, 1, k)) = k
                    /\ SubSeq(s, k + 1, Len(s)) \in Seq(Byte)
                    /\ Len(SubSeq(s, k + 1, Len(s))) = Len(s) - k
                    /\ s = SubSeq(s, 1, k) \o SubSeq(s, k + 1, Len(s))
  BY Zenon
<1>1. SubSeq(s, 1, k) \in Seq(Byte)
  BY CutSequence, Zenon
<1>2. Len(SubSeq(s, 1, k)) = k
  OBVIOUS
<1>3. SubSeq(s, k + 1, Len(s)) \in Seq(Byte)
  BY CutSequence, Zenon
<1>4. Len(SubSeq(s, k + 1, Len(s))) = Len(s) - k
  OBVIOUS
<1>5. s = SubSeq(s, 1, k) \o SubSeq(s, k + 1, Len(s))
  BY CutSequence, Zenon
<1>6. QED
  BY <1>1, <1>2, <1>3, <1>4, <1>5, Zenon

\* When bytes add up to 0 and the first k of them do not, the others do not.
LEMMA SumOfRest ==
  ASSUME NEW b \in Seq(Byte), ByteSum(b) = 0, NEW k \in 0 .. Len(b),
         ByteSum(SubSeq(b, 1, k)) # 0
  PROVE  /\ SubSeq(b, k + 1, Len(b)) \in Seq(Byte)
         /\ ByteSum(SubSeq(b, k + 1, Len(b))) # 0
<1> DEFINE s == SubSeq(b, 1, k)
           t == SubSeq(b, k + 1, Len(b))
<1>1. s \in Seq(Byte) /\ t \in Seq(Byte) /\ b = s \o t
  BY CutBytes
<1> HIDE DEF s, t
<1>2. ByteSum(b) = Plus(ByteSum(s), ByteSum(t))
  BY <1>1, ByteSumConcat
<1>3. QED
  BY <1>1, <1>2, ByteSumType, PlusZero DEF s, t

-----------------------------------------------------------------------------
(* Damaged lines *)

\* A receiver that is not in a frame, or that the first colon of text starts, makes
\* no frame of text.
MakesNoFrame(text) ==
  \/ LastColon(text, 0)
  \/ \E o \in 1 .. Len(text) : LastColon(text, o) /\ NoFrame(text, o, 0, 0, 0, 0)

LEMMA DigitsThenEnd ==
  ASSUME NEW text, NEW o, NEW cnt, NEW lrc, NEW data, NEW wIndex,
         NEW e \in o + 1 .. Len(text),
         \A i \in o + 1 .. e - 1 : text[i] \in Digits,
         EndsNone(text, o, e, cnt, lrc, data, wIndex)
  PROVE  NoFrame(text, o, cnt, lrc, data, wIndex)
BY DEF NoFrame

\* The frame that the first character starts.
LEMMA FromFirst ==
  ASSUME NEW text \in Seq(Byte), text # <<>>, text[1] = Colon,
         \A i \in 2 .. Len(text) : text[i] # Colon,
         NEW e \in 2 .. Len(text),
         \A i \in 2 .. e - 1 : text[i] \in Digits,
         EndsNone(text, 1, e, 0, 0, 0, 0)
  PROVE  MakesNoFrame(text)
<1>1. 1 \in 1 .. Len(text) /\ 1 + 1 = 2
  OBVIOUS
<1>2. LastColon(text, 1)
  <2>1. \A i \in 1 .. 1 - 1 : text[i] # LF
    OBVIOUS
  <2>2. QED
    BY <1>1, <2>1 DEF LastColon
<1>3. NoFrame(text, 1, 0, 0, 0, 0)
  BY <1>1, DigitsThenEnd
<1>4. QED
  BY <1>1, <1>2, <1>3 DEF MakesNoFrame

LEMMA RemovedAt ==
  ASSUME NEW S, NEW s \in Seq(S), NEW i \in 1 .. Len(s)
  PROVE  /\ RemoveAt(s, i) \in Seq(S) /\ Len(RemoveAt(s, i)) = Len(s) - 1
         /\ \A j \in 1 .. Len(s) - 1 :
              RemoveAt(s, i)[j] = IF j < i THEN s[j] ELSE s[j + 1]
<1> DEFINE u == SubSeq(s, 1, i - 1)
           v == SubSeq(s, i + 1, Len(s))
<1>1. /\ u \in Seq(S) /\ Len(u) = i - 1 /\ \A j \in 1 .. i - 1 : u[j] = s[j]
  <2>1. i - 1 \in 0 .. Len(s)
    OBVIOUS
  <2>2. QED
    BY <2>1, CutSequence
<1>2. /\ v \in Seq(S) /\ Len(v) = Len(s) - i /\ \A j \in 1 .. Len(s) - i : v[j] = s[i + j]
  BY CutSequence
<1>3. RemoveAt(s, i) = u \o v
  BY DEF RemoveAt
<1> HIDE DEF u, v
<1>4. /\ u \o v \in Seq(S) /\ Len(u \o v) = Len(u) + Len(v)
      /\ \A j \in 1 .. Len(u) + Len(v) :
           (u \o v)[j] = IF j <= Len(u) THEN u[j] ELSE v[j - Len(u)]
  BY <1>1, <1>2, ConcatProperties
<1>5. Len(u) + Len(v) = Len(s) - 1
  BY <1>1, <1>2
<1>6. ASSUME NEW j \in 1 .. Len(s) - 1
      PROVE  (u \o v)[j] = IF j < i THEN s[j] ELSE s[j + 1]
  <2>1. CASE j < i
    BY <1>1, <1>4, <1>5, <2>1
  <2>2. CASE ~(j < i)
    <3>1. j - (i - 1) \in 1 .. Len(s) - i /\ i + (j - (i - 1)) = j + 1
      BY <2>2
    <3>2. v[j - (i - 1)] = s[i + (j - (i - 1))]
      BY <1>2, <3>1
    <3>3. (u \o v)[j] = v[j - (i - 1)]
      <4>1. ~(j <= i - 1)
        BY <2>2
      <4>2. QED
        BY <1>1, <1>4, <1>5, <4>1
    <3>4. QED
      BY <2>2, <3>1, <3>2, <3>3
  <2>3. QED
    BY <2>1, <2>2
<1>7. QED
  BY <1>3, <1>4, <1>5, <1>6

\* A line that has lost a character.
LEMMA LostCharacter ==
  ASSUME NEW line, NEW n, LineOf(line, n), NEW i \in 1 .. Len(line)
  PROVE  MakesNoFrame(RemoveAt(line, i)) /\ RemoveAt(line, i) # <<>>
<1> DEFINE text == RemoveAt(line, i)
<1>0. /\ n \in Nat /\ n >= 3 /\ line \in Seq(Byte) /\ Len(line) = 2 * n + 3
      /\ line[1] = Colon /\ line[2 * n + 2] = CR /\ line[2 * n + 3] = LF
  BY DEF LineOf
<1>a. \A j \in 2 .. 2 * n + 1 : line[j] \in Digits
  <2>1. \A j \in 2 .. 2 * n + 1 : j - 1 \in 1 .. 2 * n /\ (j - 1) + 1 = j
    BY <1>0
  <2>2. QED
    BY <2>1 DEF LineOf
<1>b. \A j \in 2 .. 2 * n + 3 : line[j] # Colon
  <2> SUFFICES ASSUME NEW j \in 2 .. 2 * n + 3 PROVE line[j] # Colon
    OBVIOUS
  <2>1. j \in 2 .. 2 * n + 1 \/ j = 2 * n + 2 \/ j = 2 * n + 3
    BY <1>0
  <2>2. QED
    BY <1>0, <1>a, <2>1, Characters
<1>c. /\ text \in Seq(Byte) /\ Len(text) = 2 * n + 2
      /\ \A j \in 1 .. 2 * n + 2 : text[j] = IF j < i THEN line[j] ELSE line[j + 1]
  <2>1. Len(line) - 1 = 2 * n + 2
    BY <1>0
  <2>2. QED
    BY <1>0, <2>1, RemovedAt
<1> HIDE DEF text
<1>d. \A j \in 2 .. 2 * n + 2 : text[j] # Colon
  BY <1>0, <1>b, <1>c
<1>e. text # <<>>
  BY <1>0, <1>c
<1>1. CASE i = 1
  <2>1. text[1] # Colon
    BY <1>0, <1>b, <1>c, <1>1
  <2>2. LastColon(text, 0)
    <3>1. \A j \in 0 + 1 .. Len(text) : text[j] # Colon
      BY <1>c, <1>d, <2>1
    <3>2. 0 \in 0 .. Len(text) /\ ~(0 > 0)
      BY <1>c
    <3>3. QED
      BY <3>1, <3>2 DEF LastColon
  <2>3. QED
    BY <1>e, <2>2 DEF MakesNoFrame, text
<1>2. CASE i # 1
  <2>1. text[1] = Colon
    BY <1>0, <1>c, <1>2
  <2>2. ASSUME NEW e \in 2 .. 2 * n + 2, \A j \in 2 .. e - 1 : text[j] \in Digits,
               EndsNone(text, 1, e, 0, 0, 0, 0)
        PROVE  MakesNoFrame(text)
    BY <1>c, <1>d, <1>e, <2>1, <2>2, FromFirst
  <2>3. CASE i <= 2 * n + 1
    <3>1. \A j \in 2 .. (2 * n + 1) - 1 : text[j] \in Digits
      <4>1. \A j \in 2 .. (2 * n + 1) - 1 :
              j \in 1 .. 2 * n + 2 /\ j \in 2 .. 2 * n + 1 /\ j + 1 \in 2 .. 2 * n + 1
        BY <1>0
      <4>2. QED
        BY <1>a, <1>c, <4>1
    <3>2. text[2 * n + 1] = CR
      BY <1>0, <1>c, <2>3
    <3>3. (0 + (2 * n + 1) - 1 - 1) % 2 = 1
      BY <1>0
    <3>4. EndsNone(text, 1, 2 * n + 1, 0, 0, 0, 0)
      BY <3>2, <3>3 DEF EndsNone
    <3>5. 2 * n + 1 \in 2 .. 2 * n + 2
      BY <1>0
    <3>6. QED
      BY <1>e, <2>2, <3>1, <3>4, <3>5 DEF text
  <2>4. CASE i = 2 * n + 2
    <3>1. \A j \in 2 .. (2 * n + 2) - 1 : text[j] \in Digits
      BY <1>0, <1>a, <1>c, <2>4
    <3>2. text[2 * n + 2] = LF
      BY <1>0, <1>c, <2>4
    <3>3. EndsNone(text, 1, 2 * n + 2, 0, 0, 0, 0)
      BY <3>2, Characters DEF EndsNone
    <3>4. 2 * n + 2 \in 2 .. 2 * n + 2
      BY <1>0
    <3>5. QED
      BY <1>e, <2>2, <3>1, <3>3, <3>4 DEF text
  <2>5. CASE i = 2 * n + 3
    <3>1. \A j \in 2 .. (2 * n + 2) - 1 : text[j] \in Digits
      BY <1>0, <1>a, <1>c, <2>5
    <3>2. text[2 * n + 2] = CR
      BY <1>0, <1>c, <2>5
    <3>3. \A j \in (2 * n + 2) + 1 .. Len(text) : text[j] # LF
      BY <1>0, <1>c
    <3>4. EndsNone(text, 1, 2 * n + 2, 0, 0, 0, 0)
      BY <3>2, <3>3 DEF EndsNone
    <3>5. 2 * n + 2 \in 2 .. 2 * n + 2
      BY <1>0
    <3>6. QED
      BY <1>e, <2>2, <3>1, <3>4, <3>5 DEF text
  <2>6. QED
    BY <1>0, <2>3, <2>4, <2>5
<1>3. QED
  BY <1>1, <1>2

LEMMA NibbleOf ==
  ASSUME NEW b, NEW k \in Nat, k >= 1
  PROVE  Nibble(b, 2 * k - 1) = b[k] \div 16 /\ Nibble(b, 2 * k) = b[k] % 16
<1>1. /\ (2 * k - 1) % 2 = 1 /\ ((2 * k - 1) + 1) \div 2 = k
      /\ (2 * k) % 2 = 0 /\ (2 * k) \div 2 = k
  OBVIOUS
<1>2. QED
  BY <1>1 DEF Nibble

LEMMA ByteOfNibbles ==
  \A x, y \in Byte : x \div 16 = y \div 16 /\ x % 16 = y % 16 => x = y
BY DEF Byte

LEMMA HalfOf ==
  \A n \in Nat : \A i \in 2 .. 2 * n + 1 :
    i \div 2 \in 1 .. n /\ (i = 2 * (i \div 2) \/ i = 2 * (i \div 2) + 1)
OBVIOUS

\* Two lines that differ in one digit are those of bytes with different sums.
LEMMA OtherDigit ==
  ASSUME NEW line, NEW n, LineOf(line, n), NEW i \in 2 .. 2 * n + 1,
         NEW c \in Digits, c # line[i], NEW text, text = [line EXCEPT ![i] = c]
  PROVE  /\ LineOf(text, n)
         /\ ByteSum(BufferWithLrc(text)) # ByteSum(BufferWithLrc(line))
<1> DEFINE b == BufferWithLrc(line)
           d == BufferWithLrc(text)
<1>0. /\ n \in Nat /\ n >= 3 /\ line \in Seq(Byte) /\ Len(line) = 2 * n + 3
      /\ line[1] = Colon /\ line[2 * n + 2] = CR /\ line[2 * n + 3] = LF
      /\ \A j \in 1 .. 2 * n : line[j + 1] \in Digits
  BY DEF LineOf
<1>1. LineOf(text, n)
  <2>1. c \in Byte
    BY DigitType DEF Digits
  <2>2. i \in 1 .. Len(line)
    BY <1>0
  <2>3. text \in Seq(Byte) /\ Len(text) = 2 * n + 3
        /\ \A j \in 1 .. 2 * n + 3 : text[j] = IF j = i THEN c ELSE line[j]
    BY <1>0, <2>1, <2>2
  <2>4. text[1] = Colon /\ text[2 * n + 2] = CR /\ text[2 * n + 3] = LF
    BY <1>0, <2>3
  <2>5. ASSUME NEW j \in 1 .. 2 * n PROVE text[j + 1] \in Digits
    <3>1. j + 1 \in 1 .. 2 * n + 3
      BY <1>0
    <3>2. QED
      BY <1>0, <2>3, <3>1
  <2>6. QED
    BY <1>0, <2>3, <2>4, <2>5 DEF LineOf
<1>2. DigitsSay(line, n, b) /\ DigitsSay(text, n, d)
  BY <1>1, LineBytes
<1> HIDE DEF b, d
<1>3. /\ b \in Seq(Byte) /\ Len(b) = n /\ d \in Seq(Byte) /\ Len(d) = n
  BY <1>2 DEF DigitsSay
<1>4. \A j \in 2 .. 2 * n + 1 : Nibble(b, j - 1) = DigitValue(line[j])
                             /\ Nibble(d, j - 1) = DigitValue(text[j])
  <2>1. \A j \in 2 .. 2 * n + 1 : j - 1 \in 1 .. 2 * n /\ (j - 1) + 1 = j
    BY <1>0
  <2>2. QED
    BY <1>2, <2>1 DEF DigitsSay
<1>5. \A j \in 2 .. 2 * n + 1 : j # i => text[j] = line[j]
  BY <1>0
<1>6. text[i] = c
  BY <1>0
<1>7. PICK k \in 1 .. n : i = 2 * k \/ i = 2 * k + 1
  <2>1. i \div 2 \in 1 .. n /\ (i = 2 * (i \div 2) \/ i = 2 * (i \div 2) + 1)
    BY <1>0, HalfOf
  <2>2. QED
    BY <2>1
<1>8. ASSUME NEW j \in 1 .. n
      PROVE  /\ Nibble(b, 2 * j - 1) = b[j] \div 16 /\ Nibble(b, 2 * j) = b[j] % 16
             /\ Nibble(d, 2 * j - 1) = d[j] \div 16 /\ Nibble(d, 2 * j) = d[j] % 16
             /\ b[j] \in Byte /\ d[j] \in Byte
             /\ 2 * j \in 2 .. 2 * n + 1 /\ 2 * j + 1 \in 2 .. 2 * n + 1
             /\ (2 * j + 1) - 1 = 2 * j
  <2>1. j \in Nat /\ j >= 1
    BY <1>0
  <2>2. b[j] \in Byte /\ d[j] \in Byte
    BY <1>3
  <2>3. 2 * j \in 2 .. 2 * n + 1 /\ 2 * j + 1 \in 2 .. 2 * n + 1 /\ (2 * j + 1) - 1 = 2 * j
    BY <1>0
  <2>4. QED
    BY <2>1, <2>2, <2>3, NibbleOf
<1>9. ASSUME NEW j \in 1 .. n, j # k
      PROVE  d[j] = b[j]
  <2>1. 2 * j # i /\ 2 * j + 1 # i
    BY <1>0, <1>7, <1>9
  <2>2. /\ Nibble(b, 2 * j - 1) = Nibble(d, 2 * j - 1)
        /\ Nibble(b, (2 * j + 1) - 1) = Nibble(d, (2 * j + 1) - 1)
    BY <1>4, <1>5, <1>8, <2>1
  <2>3. QED
    BY <1>8, <2>2, ByteOfNibbles
<1>10. d[k] # b[k]
  <2>1. SUFFICES ASSUME d[k] = b[k] PROVE FALSE
    OBVIOUS
  <2>2. DigitValue(c) = DigitValue(line[i])
    <3>1. Nibble(b, i - 1) = Nibble(d, i - 1)
      BY <1>7, <1>8, <2>1
    <3>2. QED
      BY <1>4, <1>6, <3>1
  <2>3. line[i] \in Digits
    <3>1. i - 1 \in 1 .. 2 * n /\ (i - 1) + 1 = i
      BY <1>0
    <3>2. QED
      BY <1>0, <3>1
  <2>4. QED
    BY <2>2, <2>3, SameDigit
<1>11. d = [b EXCEPT ![k] = d[k]] /\ k \in DOMAIN b /\ d[k] \in Byte
  <2>1. [b EXCEPT ![k] = d[k]] \in Seq(Byte) /\ Len([b EXCEPT ![k] = d[k]]) = n
    BY <1>3, <1>8
  <2>2. \A j \in 1 .. n : [b EXCEPT ![k] = d[k]][j] = d[j]
    BY <1>3, <1>9
  <2>3. d = [b EXCEPT ![k] = d[k]]
    BY <1>3, <2>1, <2>2, SeqEqual
  <2>4. QED
    BY <1>3, <1>8, <2>3
<1>12. ByteSum(d) # ByteSum(b)
  <2>1. PICK x \in Byte : x = d[k]
    BY <1>11
  <2>2. d = [b EXCEPT ![k] = x] /\ k \in DOMAIN b /\ x # b[k]
    BY <1>10, <1>11, <2>1
  <2>3. ByteSum([b EXCEPT ![k] = x]) # ByteSum(b)
    BY <1>3, <2>2, SumChanges
  <2>4. QED
    BY <2>2, <2>3
<1>13. QED
  BY <1>1, <1>12 DEF b, d

LEMMA HalfDigit ==
  \A m \in Nat : \A j \in 1 .. 2 * m :
    IF j % 2 = 1 THEN (j + 1) \div 2 \in 1 .. m ELSE j \div 2 \in 1 .. m
OBVIOUS

LEMMA HalfMoved ==
  \A k, j \in Nat :
    /\ (2 * k + j) % 2 = j % 2
    /\ j % 2 = 1 => ((2 * k + j) + 1) \div 2 = k + ((j + 1) \div 2)
    /\ j % 2 # 1 => (2 * k + j) \div 2 = k + (j \div 2)
OBVIOUS

LEMMA NibbleOfPart ==
  ASSUME NEW b \in Seq(Byte), NEW k \in 0 .. Len(b)
  PROVE  /\ \A j \in 1 .. 2 * k : Nibble(SubSeq(b, 1, k), j) = Nibble(b, j)
         /\ \A j \in 1 .. 2 * (Len(b) - k) :
              Nibble(SubSeq(b, k + 1, Len(b)), j) = Nibble(b, 2 * k + j)
<1> DEFINE s == SubSeq(b, 1, k)
           t == SubSeq(b, k + 1, Len(b))
<1>1. /\ \A i \in 1 .. k : s[i] = b[i]
      /\ \A i \in 1 .. Len(b) - k : t[i] = b[k + i]
  BY CutSequence
<1> HIDE DEF s, t
<1>2. k \in Nat /\ Len(b) - k \in Nat
  OBVIOUS
<1>3. ASSUME NEW j \in 1 .. 2 * k PROVE Nibble(s, j) = Nibble(b, j)
  <2>1. IF j % 2 = 1 THEN (j + 1) \div 2 \in 1 .. k ELSE j \div 2 \in 1 .. k
    BY <1>2, HalfDigit
  <2>2. IF j % 2 = 1 THEN s[(j + 1) \div 2] = b[(j + 1) \div 2] ELSE s[j \div 2] = b[j \div 2]
    BY <1>1, <2>1, Zenon
  <2>3. QED
    BY <2>2, Zenon DEF Nibble
<1>4. ASSUME NEW j \in 1 .. 2 * (Len(b) - k) PROVE Nibble(t, j) = Nibble(b, 2 * k + j)
  <2>1. IF j % 2 = 1 THEN (j + 1) \div 2 \in 1 .. Len(b) - k
                     ELSE j \div 2 \in 1 .. Len(b) - k
    BY <1>2, HalfDigit
  <2>2. IF j % 2 = 1 THEN t[(j + 1) \div 2] = b[k + ((j + 1) \div 2)]
                     ELSE t[j \div 2] = b[k + (j \div 2)]
    BY <1>1, <2>1, Zenon
  <2>3. j \in Nat
    BY <1>2
  <2>4. /\ (2 * k + j) % 2 = j % 2
        /\ j % 2 = 1 => ((2 * k + j) + 1) \div 2 = k + ((j + 1) \div 2)
        /\ j % 2 # 1 => (2 * k + j) \div 2 = k + (j \div 2)
    BY <1>2, <2>3, HalfMoved
  <2>5. QED
    BY <2>2, <2>4, Zenon DEF Nibble
<1>5. QED
  BY <1>3, <1>4 DEF s, t

LEMMA NothingRead ==
  ASSUME NEW b \in Seq(Byte), NEW data
  PROVE  ReadSoFar(b, 0, 0, data)
<1>1. 0 <= 2 * Len(b)
  OBVIOUS
<1>2. SubSeq(b, 1, 0) = <<>>
  OBVIOUS
<1>3. 0 \div 2 = 0 /\ ~(0 % 2 = 1)
  OBVIOUS
<1>4. ByteSum(SubSeq(b, 1, 0 \div 2)) = 0
  BY <1>2, <1>3, ByteSumEmpty, Zenon
<1>5. QED
  BY <1>1, <1>3, <1>4, Zenon DEF ReadSoFar

\* All bytes of a frame follow, and their sum is wrong.
LEMMA WholeSum ==
  ASSUME NEW text, NEW o \in Nat, NEW b \in Seq(Byte), ByteSum(b) # 0, Len(b) <= 127,
         \A j \in 1 .. 2 * Len(b) : DigitValue(text[o + j]) = Nibble(b, j),
         NEW e, e = o + 1 + 2 * Len(b), text[e] = CR
  PROVE  EndsNone(text, o, e, 0, 0, 0, 0)
<1>1. ReadSoFar(b, 0, 0, 0)
  BY NothingRead
<1>2. Follows(text, o, b, 0)
  <2> SUFFICES ASSUME NEW j \in 0 + 1 .. 2 * Len(b)
               PROVE  DigitValue(text[o + j - 0]) = Nibble(b, j)
    BY DEF Follows
  <2>1. o + j - 0 = o + j /\ j \in 1 .. 2 * Len(b)
    OBVIOUS
  <2>2. QED
    BY <2>1
<1>3. e - o - 1 = 2 * Len(b) - 0
  OBVIOUS
<1>4. WrongSum(text, o, e, 0, 0, 0)
  BY <1>1, <1>2, <1>3 DEF WrongSum
<1>5. QED
  BY <1>4 DEF EndsNone

LEMMA DigitOfRest ==
  \A n \in Nat : \A k \in 1 .. n : \A j \in 1 .. 2 * (n - k) :
    /\ 2 * k + j \in 1 .. 2 * n /\ 2 * k + 1 + j \in 1 .. 2 * n + 3
    /\ 2 * k + 1 + j # 2 * k + 1 /\ 2 * k + 1 + j = (2 * k + j) + 1
OBVIOUS

\* A colon in the line: what follows is no frame.
LEMMA ColonInLine ==
  ASSUME NEW line, NEW n, LineOf(line, n), n <= 127, ByteSum(BufferWithLrc(line)) = 0,
         NoPrefixSum(BufferWithLrc(line)),
         NEW i \in 1 .. Len(line), NEW text, text = [line EXCEPT ![i] = Colon],
         line[i] # Colon
  PROVE  MakesNoFrame(text)
<1> DEFINE b == BufferWithLrc(line)
<1>0. /\ n \in Nat /\ n >= 3 /\ line \in Seq(Byte) /\ Len(line) = 2 * n + 3
      /\ line[1] = Colon /\ line[2 * n + 2] = CR /\ line[2 * n + 3] = LF
  BY DEF LineOf
<1>m. n \in Nat /\ n >= 3
  BY <1>0
<1>a. \A j \in 2 .. 2 * n + 1 : line[j] \in Digits
  <2>1. \A j \in 2 .. 2 * n + 1 : j - 1 \in 1 .. 2 * n /\ (j - 1) + 1 = j
    BY <1>0
  <2>2. QED
    BY <2>1 DEF LineOf
<1>c. /\ Len(text) = 2 * n + 3 /\ text[i] = Colon
      /\ \A j \in 1 .. 2 * n + 3 : j # i => text[j] = line[j]
  BY <1>0
<1>n. b \in Seq(Byte) /\ Len(b) = n /\ \A j \in 1 .. 2 * n : DigitValue(line[j + 1]) = Nibble(b, j)
  BY LineBytes DEF DigitsSay
<1>s. ByteSum(b) = 0 /\ NoPrefixSum(b)
  OBVIOUS
<1> HIDE DEF b
<1>i. i \in 2 .. 2 * n + 3
  BY <1>0
<1>1. LastColon(text, i)
  <2>1. ASSUME NEW j \in i + 1 .. Len(text) PROVE text[j] # Colon
    <3>1. j \in 2 .. 2 * n + 3 /\ j \in 1 .. 2 * n + 3 /\ j # i
      BY <1>c, <1>i
    <3>2. j \in 2 .. 2 * n + 1 \/ j = 2 * n + 2 \/ j = 2 * n + 3
      BY <1>0, <3>1
    <3>3. QED
      BY <1>0, <1>a, <1>c, <3>1, <3>2, Characters
  <2>2. ASSUME NEW j \in 1 .. i - 1 PROVE text[j] # LF
    <3>1. j \in 1 .. 2 * n + 3 /\ j # i
      BY <1>0, <1>i
    <3>2. j = 1 \/ j \in 2 .. 2 * n + 1 \/ j = 2 * n + 2
      BY <1>0, <1>i
    <3>3. QED
      BY <1>0, <1>a, <1>c, <3>1, <3>2, Characters
  <2>3. i \in 0 .. Len(text)
    BY <1>0, <1>c
  <2>4. QED
    BY <1>c, <2>1, <2>2, <2>3 DEF LastColon
<1>2. NoFrame(text, i, 0, 0, 0, 0)
  <2>1. CASE i <= 2 * n + 1
    <3>1. 2 * n + 2 \in i + 1 .. Len(text) /\ text[2 * n + 2] = CR
      BY <1>0, <1>c, <1>i, <2>1
    <3>2. \A j \in i + 1 .. (2 * n + 2) - 1 : text[j] \in Digits
      <4>1. \A j \in i + 1 .. (2 * n + 2) - 1 :
              j \in 2 .. 2 * n + 1 /\ j \in 1 .. 2 * n + 3 /\ j # i
        BY <1>0, <1>i
      <4>2. QED
        BY <1>a, <1>c, <4>1
    <3>3. EndsNone(text, i, 2 * n + 2, 0, 0, 0, 0)
      <4>1. PICK k \in 1 .. n : i = 2 * k \/ i = 2 * k + 1
        <5>1. i \div 2 \in 1 .. n /\ (i = 2 * (i \div 2) \/ i = 2 * (i \div 2) + 1)
          BY <1>m, <1>i, <2>1, HalfOf
        <5>2. QED
          BY <5>1
      <4>2. CASE i = 2 * k
        <5>1. (0 + (2 * n + 2) - i - 1) % 2 = 1
          <6>1. 0 + (2 * n + 2) - i - 1 = 2 * (n - k) + 1 /\ n - k \in Nat
            BY <1>m, <4>2
          <6>2. \A m \in Nat : (2 * m + 1) % 2 = 1
            OBVIOUS
          <6>3. QED
            BY <6>1, <6>2
        <5>2. QED
          BY <3>1, <5>1 DEF EndsNone
      <4>3. CASE i = 2 * k + 1 /\ k = n
        <5>1. 2 * n + 2 = i + 1
          BY <1>0, <4>3
        <5>2. QED
          BY <3>1, <5>1 DEF EndsNone
      <4>4. CASE i = 2 * k + 1 /\ k # n
        <5> DEFINE t == SubSeq(b, k + 1, Len(b))
        <5>1. k \in 0 .. Len(b) /\ k \in 1 .. Len(b) - 1 /\ k \in Nat
          BY <1>0, <1>n, <4>4
        <5>2. t \in Seq(Byte) /\ ByteSum(t) # 0 /\ Len(t) = n - k
          BY <1>n, <1>s, <5>1, SumOfRest, CutSequence DEF NoPrefixSum
        <5>t. SubSeq(b, k + 1, Len(b)) = t
          OBVIOUS
        <5> HIDE DEF t
        <5>3. Len(t) <= 127 /\ 2 * n + 2 = i + 1 + 2 * Len(t)
          <6>1. n - k <= 127 /\ 2 * n + 2 = i + 1 + 2 * (n - k)
            BY <1>m, <4>4
          <6>2. QED
            BY <5>2, <6>1, Zenon
        <5>4. ASSUME NEW j \in 1 .. 2 * Len(t)
              PROVE  DigitValue(text[i + j]) = Nibble(t, j)
          <6>1. /\ j \in 1 .. 2 * (Len(b) - k) /\ 2 * k + j \in 1 .. 2 * n
                /\ i + j \in 1 .. 2 * n + 3 /\ i + j # i /\ i + j = (2 * k + j) + 1
            <7>1. j \in 1 .. 2 * (n - k) /\ Len(b) - k = n - k /\ n \in Nat /\ k \in 1 .. n
              BY <1>0, <1>n, <5>2
            <7>2. i = 2 * k + 1
              BY <4>4
            <7>3. /\ 2 * k + j \in 1 .. 2 * n /\ 2 * k + 1 + j \in 1 .. 2 * n + 3
                  /\ 2 * k + 1 + j # 2 * k + 1 /\ 2 * k + 1 + j = (2 * k + j) + 1
              BY <7>1, DigitOfRest
            <7>4. QED
              BY <7>1, <7>2, <7>3
          <6>2. Nibble(t, j) = Nibble(b, 2 * k + j)
            BY <1>n, <5>1, <5>t, <6>1, NibbleOfPart
          <6>3. text[i + j] = line[(2 * k + j) + 1]
            BY <1>c, <6>1
          <6>4. QED
            BY <1>n, <6>1, <6>2, <6>3
        <5>5. i \in Nat
          BY <1>i
        <5>6. QED
          BY <3>1, <5>2, <5>3, <5>4, <5>5, WholeSum
      <4>5. QED
        BY <4>1, <4>2, <4>3, <4>4
    <3>4. QED
      BY <3>1, <3>2, <3>3, DigitsThenEnd
  <2>2. CASE i = 2 * n + 2
    <3>1. 2 * n + 3 \in i + 1 .. Len(text) /\ text[2 * n + 3] = LF
      BY <1>0, <1>c, <2>2
    <3>2. \A j \in i + 1 .. (2 * n + 3) - 1 : text[j] \in Digits
      BY <1>0, <2>2
    <3>3. EndsNone(text, i, 2 * n + 3, 0, 0, 0, 0)
      BY <3>1, Characters DEF EndsNone
    <3>4. QED
      BY <3>1, <3>2, <3>3, DigitsThenEnd
  <2>3. CASE i = 2 * n + 3
    <3>1. \A j \in i + 1 .. Len(text) : text[j] \in Digits
      BY <1>0, <1>c, <2>3
    <3>2. QED
      BY <3>1 DEF NoFrame
  <2>4. QED
    BY <1>0, <1>i, <2>1, <2>2, <2>3
<1>3. i \in 1 .. Len(text)
  BY <1>0, <1>c
<1>4. QED
  BY <1>1, <1>2, <1>3 DEF MakesNoFrame

\* A line one character of which is received as another one.
LEMMA GarbledCharacter ==
  ASSUME NEW line, NEW n, LineOf(line, n), n <= 127, ByteSum(BufferWithLrc(line)) = 0,
         NEW i \in 1 .. Len(line), NEW c \in Byte, c # line[i],
         c \in {Colon, CR} => NoPrefixSum(BufferWithLrc(line)),
         NEW text, text = [line EXCEPT ![i] = c]
  PROVE  MakesNoFrame(text)
<1> DEFINE b == BufferWithLrc(line)
<1>0. /\ n \in Nat /\ n >= 3 /\ line \in Seq(Byte) /\ Len(line) = 2 * n + 3
      /\ line[1] = Colon /\ line[2 * n + 2] = CR /\ line[2 * n + 3] = LF
  BY DEF LineOf
<1>m. n \in Nat /\ n >= 3
  BY <1>0
<1>a. \A j \in 2 .. 2 * n + 1 : line[j] \in Digits
  <2>1. \A j \in 2 .. 2 * n + 1 : j - 1 \in 1 .. 2 * n /\ (j - 1) + 1 = j
    BY <1>0
  <2>2. QED
    BY <2>1 DEF LineOf
<1>c. /\ text \in Seq(Byte) /\ Len(text) = 2 * n + 3 /\ text[i] = c
      /\ \A j \in 1 .. 2 * n + 3 : j # i => text[j] = line[j]
  BY <1>0
<1>n. b \in Seq(Byte) /\ Len(b) = n /\ \A j \in 1 .. 2 * n : DigitValue(line[j + 1]) = Nibble(b, j)
  BY LineBytes DEF DigitsSay
<1>i. i \in 1 .. 2 * n + 3
  BY <1>0
<1>k. \A j \in 1 .. 2 * n + 3 : j = 1 \/ j \in 2 .. 2 * n + 1 \/ j = 2 * n + 2 \/ j = 2 * n + 3
  BY <1>0
<1>1. CASE c = Colon
  BY <1>1, ColonInLine
<1>2. CASE c # Colon
  <2>1. \A j \in 2 .. 2 * n + 3 : text[j] # Colon
    <3> SUFFICES ASSUME NEW j \in 2 .. 2 * n + 3 PROVE text[j] # Colon
      OBVIOUS
    <3>1. j \in 1 .. 2 * n + 3 /\ j # 1
      BY <1>0
    <3>2. j \in 2 .. 2 * n + 1 \/ j = 2 * n + 2 \/ j = 2 * n + 3
      BY <1>k, <3>1
    <3>3. CASE j = i
      BY <1>c, <1>2, <3>3
    <3>4. CASE j # i
      BY <1>0, <1>a, <1>c, <3>1, <3>2, <3>4, Characters
    <3>5. QED
      BY <3>3, <3>4
  <2>2. CASE i = 1
    <3>1. \A j \in 0 + 1 .. Len(text) : text[j] # Colon
      <4> SUFFICES ASSUME NEW j \in 1 .. 2 * n + 3 PROVE text[j] # Colon
        BY <1>c
      <4>1. j = 1 \/ j \in 2 .. 2 * n + 3
        BY <1>0
      <4>2. QED
        BY <1>c, <1>2, <2>1, <2>2, <4>1
    <3>2. 0 \in 0 .. Len(text) /\ ~(0 > 0)
      BY <1>0, <1>c
    <3>3. QED
      BY <3>1, <3>2 DEF LastColon, MakesNoFrame
  <2>3. CASE i # 1
    <3>1. text[1] = Colon /\ text # <<>>
      BY <1>0, <1>c, <2>3
    <3>2. ASSUME NEW e \in 2 .. 2 * n + 3, \A j \in 2 .. e - 1 : text[j] \in Digits,
                 EndsNone(text, 1, e, 0, 0, 0, 0)
          PROVE  MakesNoFrame(text)
      BY <1>c, <2>1, <3>1, <3>2, FromFirst
    <3>3. ASSUME NEW e \in 2 .. 2 * n + 2, e <= i
          PROVE  \A j \in 2 .. e - 1 : text[j] \in Digits
      <4>1. \A j \in 2 .. e - 1 : j \in 2 .. 2 * n + 1 /\ j \in 1 .. 2 * n + 3 /\ j # i
        BY <1>0, <3>3
      <4>2. QED
        BY <1>a, <1>c, <4>1
    <3>4. CASE i \in 2 .. 2 * n + 1 /\ c \in Digits
      <4> DEFINE d == BufferWithLrc(text)
      <4>1. LineOf(text, n) /\ ByteSum(d) # 0
        BY <3>4, OtherDigit
      <4>2. DigitsSay(text, n, d)
        BY <4>1, LineBytes
      <4> HIDE DEF d
      <4>3. d \in Seq(Byte) /\ Len(d) = n
        BY <4>2 DEF DigitsSay
      <4>4. text[2 * n + 2] = CR
        BY <4>1 DEF LineOf
      <4>5. 2 * n + 2 = 1 + 1 + 2 * Len(d) /\ Len(d) <= 127
        <5>1. 2 * n + 2 = 1 + 1 + 2 * n
          BY <1>0
        <5>2. QED
          BY <4>3, <5>1
      <4>6. ASSUME NEW j \in 1 .. 2 * Len(d) PROVE DigitValue(text[1 + j]) = Nibble(d, j)
        <5>1. j \in 1 .. 2 * n /\ 1 + j = j + 1
          BY <1>0, <4>3
        <5>2. QED
          BY <4>2, <5>1 DEF DigitsSay
      <4>7. EndsNone(text, 1, 2 * n + 2, 0, 0, 0, 0)
        BY <4>1, <4>3, <4>4, <4>5, <4>6, WholeSum
      <4>8. \A j \in 2 .. (2 * n + 2) - 1 : text[j] \in Digits
        <5>1. \A j \in 2 .. (2 * n + 2) - 1 : j - 1 \in 1 .. 2 * n /\ (j - 1) + 1 = j
          BY <1>0
        <5>2. QED
          BY <4>1, <5>1 DEF LineOf
      <4>9. 2 * n + 2 \in 2 .. 2 * n + 3
        BY <1>0
      <4>10. QED
        BY <3>2, <4>7, <4>8, <4>9
    <3>5. CASE i \in 2 .. 2 * n + 2 /\ c \notin Digits \cup {CR}
      <4>1. EndsNone(text, 1, i, 0, 0, 0, 0)
        BY <1>c, <3>5 DEF EndsNone
      <4>2. \A j \in 2 .. i - 1 : text[j] \in Digits
        BY <3>3, <3>5
      <4>3. i \in 2 .. 2 * n + 3
        BY <1>0, <3>5
      <4>4. QED
        BY <3>2, <4>1, <4>2, <4>3
    <3>6. CASE i \in 2 .. 2 * n + 1 /\ c = CR
      <4>1. \A j \in 2 .. i - 1 : text[j] \in Digits
        <5>1. i \in 2 .. 2 * n + 2 /\ i <= i
          BY <1>0, <3>6
        <5>2. QED
          BY <3>3, <5>1
      <4>2. EndsNone(text, 1, i, 0, 0, 0, 0)
        <5>1. PICK k \in 1 .. n : i = 2 * k \/ i = 2 * k + 1
          <6>1. i \div 2 \in 1 .. n /\ (i = 2 * (i \div 2) \/ i = 2 * (i \div 2) + 1)
            BY <1>0, <3>6, HalfOf
          <6>2. QED
            BY <6>1
        <5>2. CASE i = 2 * k + 1
          <6>1. (0 + i - 1 - 1) % 2 = 1
            <7>1. 0 + i - 1 - 1 = 2 * (k - 1) + 1 /\ k - 1 \in Nat
              <8>1. 0 + (2 * k + 1) - 1 - 1 = 2 * (k - 1) + 1 /\ k - 1 \in Nat
                BY <1>m
              <8>2. QED
                BY <5>2, <8>1, Zenon
            <7>2. \A m \in Nat : (2 * m + 1) % 2 = 1
              OBVIOUS
            <7>3. QED
              BY <7>1, <7>2
          <6>2. QED
            BY <1>c, <3>6, <6>1 DEF EndsNone
        <5>3. CASE i = 2 * k /\ k = 1
          <6>1. i = 1 + 1
            BY <5>3
          <6>2. QED
            BY <1>c, <3>6, <6>1 DEF EndsNone
        <5>4. CASE i = 2 * k /\ k # 1
          <6> DEFINE s == SubSeq(b, 1, k - 1)
          <6>1. k - 1 \in 0 .. Len(b) /\ k - 1 \in 1 .. Len(b) - 1
            <7>1. k - 1 \in 0 .. n /\ k - 1 \in 1 .. n - 1
              BY <1>m, <5>4
            <7>2. QED
              BY <1>n, <7>1, Zenon
          <6>2. s \in Seq(Byte) /\ Len(s) = k - 1
            BY <1>n, <6>1, CutBytes
          <6>3. ByteSum(s) # 0
            BY <3>6, <6>1 DEF NoPrefixSum
          <6>4. \A j \in 1 .. 2 * (k - 1) : Nibble(s, j) = Nibble(b, j)
            BY <1>n, <6>1, NibbleOfPart
          <6> HIDE DEF s
          <6>5. Len(s) <= 127 /\ i = 1 + 1 + 2 * Len(s)
            <7>1. k - 1 <= 127 /\ i = 1 + 1 + 2 * (k - 1)
              BY <1>m, <5>4
            <7>2. QED
              BY <6>2, <7>1, Zenon
          <6>6. ASSUME NEW j \in 1 .. 2 * Len(s) PROVE DigitValue(text[1 + j]) = Nibble(s, j)
            <7>1. j \in 1 .. 2 * (k - 1)
              BY <6>2, Zenon
            <7>2. j \in 1 .. 2 * n /\ 1 + j = j + 1 /\ j + 1 \in 1 .. 2 * n + 3 /\ j + 1 # i
              BY <1>m, <5>4, <7>1
            <7>3. QED
              BY <1>c, <1>n, <6>4, <7>1, <7>2
          <6>7. text[i] = CR
            BY <1>c, <3>6
          <6>8. QED
            BY <6>2, <6>3, <6>5, <6>6, <6>7, WholeSum
        <5>5. QED
          BY <5>1, <5>2, <5>3, <5>4
      <4>3. i \in 2 .. 2 * n + 3
        BY <1>0, <3>6
      <4>4. QED
        BY <3>2, <4>1, <4>2, <4>3
    <3>7. CASE i = 2 * n + 2
      <4>1. CASE c \in Digits
        <5>1. \A j \in 2 .. (2 * n + 3) - 1 : text[j] \in Digits
          <6>1. \A j \in 2 .. (2 * n + 3) - 1 :
                  j = i \/ (j \in 2 .. 2 * n + 1 /\ j \in 1 .. 2 * n + 3 /\ j # i)
            BY <1>0, <3>7
          <6>2. QED
            BY <1>a, <1>c, <4>1, <6>1
        <5>2. text[2 * n + 3] = LF
          BY <1>0, <1>c, <3>7
        <5>3. EndsNone(text, 1, 2 * n + 3, 0, 0, 0, 0)
          BY <5>2, Characters DEF EndsNone
        <5>4. 2 * n + 3 \in 2 .. 2 * n + 3
          BY <1>0
        <5>5. QED
          BY <3>2, <5>1, <5>3, <5>4
      <4>2. CASE c \notin Digits
        <5>1. c # CR /\ i \in 2 .. 2 * n + 2
          BY <1>0, <3>7
        <5>2. QED
          BY <3>5, <4>2, <5>1
      <4>3. QED
        BY <4>1, <4>2
    <3>8. CASE i = 2 * n + 3
      <4>1. 2 * n + 2 \in 2 .. 2 * n + 2 /\ 2 * n + 2 <= i /\ 2 * n + 2 \in 2 .. 2 * n + 3
        BY <1>0, <3>8
      <4>2. \A j \in 2 .. (2 * n + 2) - 1 : text[j] \in Digits
        BY <3>3, <4>1
      <4>3. text[2 * n + 2] = CR
        BY <1>0, <1>c, <3>8
      <4>4. \A j \in (2 * n + 2) + 1 .. Len(text) : text[j] # LF
        BY <1>0, <1>c, <3>8
      <4>5. EndsNone(text, 1, 2 * n + 2, 0, 0, 0, 0)
        BY <4>3, <4>4 DEF EndsNone
      <4>6. QED
        BY <3>2, <4>1, <4>2, <4>5
    <3>9. QED
      <4>1. i \in 2 .. 2 * n + 1 \/ i = 2 * n + 2 \/ i = 2 * n + 3
        BY <1>i, <1>k, <2>3
      <4>2. i \in 2 .. 2 * n + 1 => i \in 2 .. 2 * n + 2
        BY <1>0
      <4>3. QED
        BY <3>4, <3>5, <3>6, <3>7, <3>8, <4>1, <4>2
  <2>4. QED
    BY <2>2, <2>3
<1>3. QED
  BY <1>1, <1>2

LEMMA EmptyLine ==
  /\ <<Colon, CR, LF>> \in Seq(Byte) /\ <<Colon, CR, LF>> # <<>>
  /\ MakesNoFrame(<<Colon, CR, LF>>)
<1> DEFINE text == <<Colon, CR, LF>>
<1>1. /\ text \in Seq(Byte) /\ text # <<>> /\ Len(text) = 3
      /\ text[1] = Colon /\ text[2] = CR /\ text[3] = LF
  BY Characters
<1> HIDE DEF text
<1>2. EndsNone(text, 1, 2, 0, 0, 0, 0)
  <2>1. 2 = 1 + 1
    OBVIOUS
  <2>2. QED
    BY <1>1, <2>1, Zenon DEF EndsNone
<1>3. /\ \A i \in 2 .. Len(text) : text[i] # Colon
      /\ 2 \in 2 .. Len(text) /\ \A i \in 2 .. 2 - 1 : text[i] \in Digits
  <2>1. \A i \in 2 .. 3 : i = 2 \/ i = 3
    OBVIOUS
  <2>2. QED
    BY <1>1, <2>1, Characters
<1>4. MakesNoFrame(text)
  BY <1>1, <1>2, <1>3, FromFirst
<1>5. QED
  BY <1>1, <1>4 DEF text

-----------------------------------------------------------------------------
(* A line as it is written, with any byte in the place of the LRC *)

Spelled(m) == [i \in 1 .. 2 * Len(m) |-> ByteText(m[(i + 1) \div 2])[2 - (i % 2)]]
LineText(m, x) == <<Colon>> \o Spelled(m) \o ByteText(x) \o <<CR, LF>>

\* The characters of LineText(m, x).
LineHas(line, m, x) ==
  /\ line \in Seq(Byte) /\ Len(line) = 2 * Len(m) + 5
  /\ line[1] = Colon
  /\ \A j \in 1 .. Len(m) : /\ line[2 * j] = Digit(m[j] \div 16)
                            /\ line[2 * j + 1] = Digit(m[j] % 16)
  /\ line[2 * Len(m) + 2] = Digit(x \div 16)
  /\ line[2 * Len(m) + 3] = Digit(x % 16)
  /\ line[2 * Len(m) + 4] = CR /\ line[2 * Len(m) + 5] = LF

LEMMA SpelledNone == Spelled(<<>>) = <<>>
<1>1. Len(<<>>) = 0 /\ 1 .. 2 * 0 = {}
  OBVIOUS
<1>2. Spelled(<<>>) = [i \in {} |-> ByteText(<<>>[(i + 1) \div 2])[2 - (i % 2)]]
  BY <1>1 DEF Spelled
<1>3. QED
  BY <1>2

LEMMA SpelledType ==
  ASSUME NEW m \in Seq(Byte)
  PROVE  Spelled(m) \in Seq(Byte) /\ Len(Spelled(m)) = 2 * Len(m)
<1> DEFINE n == Len(m)
<1>1. n \in Nat /\ \A j \in 1 .. n : m[j] \in Byte
  OBVIOUS
<1>2. ASSUME NEW i \in 1 .. 2 * n
      PROVE  ByteText(m[(i + 1) \div 2])[2 - (i % 2)] \in Byte
  <2>1. (i + 1) \div 2 \in 1 .. n /\ 2 - (i % 2) \in 1 .. 2
    BY <1>1
  <2>2. ByteText(m[(i + 1) \div 2]) \in Seq(Byte) /\ Len(ByteText(m[(i + 1) \div 2])) = 2
    BY <1>1, <2>1, TextType
  <2>3. QED
    BY <2>1, <2>2, ElementOfSeq
<1>3. 2 * n \in Nat
  BY <1>1
<1>4. Spelled(m) = [i \in 1 .. 2 * n |-> ByteText(m[(i + 1) \div 2])[2 - (i % 2)]]
  BY DEF Spelled
<1> HIDE DEF n
<1>5. Spelled(m) \in Seq(Byte) /\ Len(Spelled(m)) = 2 * n
  BY <1>2, <1>3, <1>4
<1>6. QED
  BY <1>5 DEF n

LEMMA SpelledMore ==
  ASSUME NEW m \in Seq(Byte), NEW b \in Byte
  PROVE  Spelled(Append(m, b)) = Spelled(m) \o ByteText(b)
<1> DEFINE u == Append(m, b)
           text == Spelled(m)
           pair == ByteText(b)
<1>1. PICK n \in Nat : n = Len(m)
  OBVIOUS
<1>2. u \in Seq(Byte) /\ Len(u) = n + 1 /\ u[n + 1] = b /\ \A j \in 1 .. n : u[j] = m[j]
  BY <1>1
<1>3. text \in Seq(Byte) /\ Len(text) = 2 * n
  BY <1>1, SpelledType
<1>4. \A i \in 1 .. 2 * n : text[i] = ByteText(m[(i + 1) \div 2])[2 - (i % 2)]
  BY <1>1 DEF Spelled
<1>5. pair \in Seq(Byte) /\ Len(pair) = 2
  BY TextType
<1>6. Spelled(u) \in Seq(Byte) /\ Len(Spelled(u)) = 2 * (n + 1)
      /\ \A i \in 1 .. 2 * (n + 1) : Spelled(u)[i] = ByteText(u[(i + 1) \div 2])[2 - (i % 2)]
  <2>1. Spelled(u) = [i \in 1 .. 2 * (n + 1) |-> ByteText(u[(i + 1) \div 2])[2 - (i % 2)]]
    BY <1>2 DEF Spelled
  <2>2. QED
    BY <1>2, <2>1, SpelledType
<1>7. /\ text \o pair \in Seq(Byte) /\ Len(text \o pair) = 2 * n + 2
      /\ \A i \in 1 .. 2 * n : (text \o pair)[i] = text[i]
      /\ (text \o pair)[2 * n + 1] = pair[1] /\ (text \o pair)[2 * n + 2] = pair[2]
  <2> HIDE DEF text, pair
  <2>1. /\ text \o pair \in Seq(Byte) /\ Len(text \o pair) = Len(text) + 2
        /\ \A i \in 1 .. Len(text) : (text \o pair)[i] = text[i]
        /\ (text \o pair)[Len(text) + 1] = pair[1] /\ (text \o pair)[Len(text) + 2] = pair[2]
    BY <1>3, <1>5, JoinPair, SMTT(60)
  <2>2. QED
    BY <1>3, <2>1, Zenon
<1> HIDE DEF u, text
<1>8. ASSUME NEW i \in 1 .. 2 * n + 2 PROVE Spelled(u)[i] = (text \o pair)[i]
  <2>1. i \in 1 .. 2 * (n + 1)
    BY <1>1
  <2>2. CASE i \in 1 .. 2 * n
    <3>1. (i + 1) \div 2 \in 1 .. n
      BY <1>1, <2>2
    <3>2. u[(i + 1) \div 2] = m[(i + 1) \div 2]
      BY <1>2, <3>1
    <3>3. Spelled(u)[i] = text[i]
      BY <1>4, <1>6, <2>1, <2>2, <3>2
    <3>4. QED
      BY <1>7, <2>2, <3>3, Zenon
  <2>3. CASE i = 2 * n + 1
    <3>1. (i + 1) \div 2 = n + 1 /\ 2 - (i % 2) = 1
      BY <1>1, <2>3
    <3>2. Spelled(u)[i] = pair[1]
      BY <1>2, <1>6, <2>1, <3>1
    <3>3. QED
      BY <1>7, <2>3, <3>2, Zenon
  <2>4. CASE i = 2 * n + 2
    <3>1. (i + 1) \div 2 = n + 1 /\ 2 - (i % 2) = 2
      BY <1>1, <2>4
    <3>2. Spelled(u)[i] = pair[2]
      BY <1>2, <1>6, <2>1, <3>1
    <3>3. QED
      BY <1>7, <2>4, <3>2, Zenon
  <2>5. i \in 1 .. 2 * n \/ i = 2 * n + 1 \/ i = 2 * n + 2
    OBVIOUS
  <2>6. QED
    BY <2>2, <2>3, <2>4, <2>5, Zenon
<1>9. Spelled(u) = text \o pair
  <2>1. Len(Spelled(u)) = 2 * n + 2
    BY <1>6
  <2> HIDE DEF pair
  <2>2. QED
    BY <1>6, <1>7, <1>8, <2>1, SeqEqual
<1>10. QED
  BY <1>9 DEF u, text, pair

LEMMA LineTextHas ==
  ASSUME NEW m \in Seq(Byte), NEW x \in Byte, NEW line, line = LineText(m, x)
  PROVE  LineHas(line, m, x)
<1> DEFINE n == Len(m)
           text == Spelled(m)
           lrc == ByteText(x)
<1>1. n \in Nat /\ \A j \in 1 .. n : m[j] \in Byte
  OBVIOUS
<1>3. lrc \in Seq(Byte) /\ Len(lrc) = 2
      /\ lrc[1] = Digit(x \div 16) /\ lrc[2] = Digit(x % 16)
  BY TextType DEF ByteText
<1>4. text \in Seq(Byte) /\ Len(text) = 2 * n
  <2>1. ASSUME NEW i \in 1 .. 2 * n
        PROVE  ByteText(m[(i + 1) \div 2])[2 - (i % 2)] \in Byte
    <3>1. (i + 1) \div 2 \in 1 .. n /\ 2 - (i % 2) \in 1 .. 2
      BY <1>1
    <3>2. ByteText(m[(i + 1) \div 2]) \in Seq(Byte) /\ Len(ByteText(m[(i + 1) \div 2])) = 2
      BY <1>1, <3>1, TextType
    <3>3. QED
      BY <3>1, <3>2, ElementOfSeq
  <2>2. 2 * n \in Nat
    BY <1>1
  <2>3. text = [i \in 1 .. 2 * n |-> ByteText(m[(i + 1) \div 2])[2 - (i % 2)]]
    BY DEF Spelled
  <2> HIDE DEF text
  <2>4. QED
    BY <2>1, <2>2, <2>3
<1>5. ASSUME NEW j \in 1 .. n
      PROVE  text[2 * j - 1] = Digit(m[j] \div 16) /\ text[2 * j] = Digit(m[j] % 16)
  <2>1. 2 * j - 1 \in 1 .. 2 * n /\ 2 * j \in 1 .. 2 * n
    BY <1>1
  <2>2. /\ (2 * j - 1 + 1) \div 2 = j /\ 2 - ((2 * j - 1) % 2) = 1
        /\ (2 * j + 1) \div 2 = j /\ 2 - ((2 * j) % 2) = 2
    BY <1>1
  <2>3. text[2 * j - 1] = ByteText(m[j])[1] /\ text[2 * j] = ByteText(m[j])[2]
    BY <2>1, <2>2 DEF Spelled
  <2>4. QED
    BY <2>3 DEF ByteText
<1>6. line = <<Colon>> \o text \o lrc \o <<CR, LF>>
  BY DEF LineText
<1> HIDE DEF n, text, lrc
<1> DEFINE a == <<Colon>> \o text
           b == a \o lrc
           c == b \o <<CR, LF>>
<1>7. /\ a \in Seq(Byte) /\ Len(a) = 1 + 2 * n
      /\ a[1] = Colon /\ \A i \in 1 .. 2 * n : a[1 + i] = text[i]
  BY <1>1, <1>4, CharType
<1> HIDE DEF a
<1>8. /\ b \in Seq(Byte) /\ Len(b) = 3 + 2 * n
      /\ \A i \in 1 .. 1 + 2 * n : b[i] = a[i]
      /\ b[2 + 2 * n] = lrc[1] /\ b[3 + 2 * n] = lrc[2]
  <2>1. /\ b \in Seq(Byte) /\ Len(b) = Len(a) + 2
        /\ \A i \in 1 .. Len(a) : b[i] = a[i]
        /\ b[Len(a) + 1] = lrc[1] /\ b[Len(a) + 2] = lrc[2]
    BY <1>3, <1>7, JoinPair
  <2> HIDE DEF b
  <2>2. Len(a) + 1 = 2 + 2 * n /\ Len(a) + 2 = 3 + 2 * n
    BY <1>1, <1>7
  <2>3. QED
    BY <1>7, <2>1, <2>2
<1> HIDE DEF b
<1>9. /\ c \in Seq(Byte) /\ Len(c) = 5 + 2 * n
      /\ \A i \in 1 .. 3 + 2 * n : c[i] = b[i]
      /\ c[4 + 2 * n] = CR /\ c[5 + 2 * n] = LF
  <2> DEFINE end == <<CR, LF>>
  <2>1. end \in Seq(Byte) /\ Len(end) = 2 /\ end[1] = CR /\ end[2] = LF
    BY CharType
  <2>2. c = b \o end
    OBVIOUS
  <2> HIDE DEF end, c
  <2>3. /\ c \in Seq(Byte) /\ Len(c) = Len(b) + 2
        /\ \A i \in 1 .. Len(b) : c[i] = b[i]
        /\ c[Len(b) + 1] = CR /\ c[Len(b) + 2] = LF
    BY <1>8, <2>1, <2>2, JoinPair
  <2>4. Len(b) + 1 = 4 + 2 * n /\ Len(b) + 2 = 5 + 2 * n
    BY <1>1, <1>8
  <2>5. QED
    BY <1>8, <2>3, <2>4
<1> HIDE DEF c
<1>10. line = c
  BY <1>6 DEF a, b, c
<1>11. ASSUME NEW j \in 1 .. n
       PROVE  c[2 * j] = Digit(m[j] \div 16) /\ c[2 * j + 1] = Digit(m[j] % 16)
  <2>1. /\ 2 * j \in 1 .. 1 + 2 * n /\ 2 * j \in 1 .. 3 + 2 * n /\ 2 * j = 1 + (2 * j - 1)
        /\ 2 * j + 1 \in 1 .. 1 + 2 * n /\ 2 * j + 1 \in 1 .. 3 + 2 * n /\ 2 * j + 1 = 1 + 2 * j
        /\ 2 * j - 1 \in 1 .. 2 * n /\ 2 * j \in 1 .. 2 * n
    BY <1>1
  <2>2. c[2 * j] = b[2 * j] /\ c[2 * j + 1] = b[2 * j + 1]
    BY <1>9, <2>1, Zenon
  <2>3. b[2 * j] = a[2 * j] /\ b[2 * j + 1] = a[2 * j + 1]
    BY <1>8, <2>1, Zenon
  <2>4. a[2 * j] = text[2 * j - 1] /\ a[2 * j + 1] = text[2 * j]
    BY <1>7, <2>1, Zenon
  <2>5. QED
    BY <1>5, <2>2, <2>3, <2>4, Zenon
<1>12. /\ c[1] = Colon
       /\ c[2 * n + 2] = Digit(x \div 16) /\ c[2 * n + 3] = Digit(x % 16)
       /\ c[2 * n + 4] = CR /\ c[2 * n + 5] = LF /\ Len(c) = 2 * n + 5
  <2>1. 1 \in 1 .. 3 + 2 * n /\ 2 + 2 * n \in 1 .. 3 + 2 * n /\ 3 + 2 * n \in 1 .. 3 + 2 * n
        /\ 1 \in 1 .. 1 + 2 * n /\ 2 * n + 2 = 2 + 2 * n /\ 2 * n + 3 = 3 + 2 * n
        /\ 2 * n + 4 = 4 + 2 * n /\ 2 * n + 5 = 5 + 2 * n
    BY <1>1
  <2>2. QED
    BY <1>3, <1>7, <1>8, <1>9, <2>1
<1>13. QED
  BY <1>9, <1>10, <1>11, <1>12 DEF n, LineHas

LEMMA DigitFacts ==
  /\ \A n \in 0 .. 15 : Digit(n) \in Digits /\ DigitValue(Digit(n)) = n
  /\ \A c, d \in Digits : DigitValue(c) = DigitValue(d) => c = d
<1>1. \A n \in 0 .. 15 : DigitValue(Digit(n)) = n
  BY DEF Digit, DigitValue
<1>2. QED
  BY <1>1, Zenon DEF Digits

LEMMA DigitsOfByte ==
  \A b \in Byte :
    /\ Digit(b \div 16) \in Digits /\ Digit(b % 16) \in Digits
    /\ 16 * DigitValue(Digit(b \div 16)) + DigitValue(Digit(b % 16)) = b
<1> SUFFICES ASSUME NEW b \in Byte
             PROVE  /\ Digit(b \div 16) \in Digits /\ Digit(b % 16) \in Digits
                    /\ 16 * DigitValue(Digit(b \div 16)) + DigitValue(Digit(b % 16)) = b
  OBVIOUS
<1>1. b \div 16 \in 0 .. 15 /\ b % 16 \in 0 .. 15 /\ 16 * (b \div 16) + (b % 16) = b
  BY DEF Byte
<1>2. /\ Digit(b \div 16) \in Digits /\ DigitValue(Digit(b \div 16)) = b \div 16
      /\ Digit(b % 16) \in Digits /\ DigitValue(Digit(b % 16)) = b % 16
  BY <1>1, DigitFacts
<1>3. QED
  BY <1>1, <1>2

\* What the server reads from such a line.
LEMMA LineHasRead ==
  ASSUME NEW m \in Seq(Byte), NEW x \in Byte, NEW line, LineHas(line, m, x)
  PROVE  /\ \A i \in 2 .. Len(line) - 2 : line[i] \in Digits
         /\ ByteAt(line, 2 * Len(m) + 2) = x
         /\ BufferOf(line) = m
<1> DEFINE n == Len(m)
<1>1. /\ line \in Seq(Byte) /\ Len(line) = 2 * n + 5
      /\ \A j \in 1 .. n : line[2 * j] = Digit(m[j] \div 16) /\ line[2 * j + 1] = Digit(m[j] % 16)
      /\ line[2 * n + 2] = Digit(x \div 16) /\ line[2 * n + 3] = Digit(x % 16)
  BY DEF LineHas
<1>2. n \in Nat /\ x \in Byte /\ \A j \in 1 .. n : m[j] \in Byte
  OBVIOUS
<1> HIDE DEF n
<1>4. ASSUME NEW i \in 2 .. Len(line) - 2 PROVE line[i] \in Digits
  <2> DEFINE j == i \div 2
  <2>1. j \in 1 .. n + 1 /\ (i = 2 * j \/ i = 2 * j + 1)
    BY <1>1, <1>2
  <2> HIDE DEF j
  <2>2. CASE j = n + 1
    <3>1. i = 2 * n + 2 \/ i = 2 * n + 3
      BY <1>2, <2>1, <2>2
    <3>2. QED
      BY <1>1, <1>2, <3>1, DigitsOfByte, Zenon
  <2>3. CASE j # n + 1
    <3>1. j \in 1 .. n
      BY <1>2, <2>1, <2>3
    <3>2. QED
      BY <1>1, <1>2, <2>1, <3>1, DigitsOfByte
  <2>4. QED
    BY <2>2, <2>3
<1>5. ByteAt(line, 2 * n + 2) = x
  <2>1. 2 * n + 2 + 1 = 2 * n + 3
    BY <1>2
  <2>2. QED
    BY <1>1, <1>2, <2>1, DigitsOfByte, Zenon DEF ByteAt
<1>6. ASSUME NEW j \in 1 .. n PROVE ByteAt(line, 2 * j) = m[j]
  BY <1>1, <1>2, DigitsOfByte, Zenon DEF ByteAt
<1>7. BufferOf(line) = m
  <2>1. (Len(line) - 5) \div 2 = n
    BY <1>1, <1>2
  <2>2. BufferOf(line) = [j \in 1 .. n |-> ByteAt(line, 2 * j)]
    BY <2>1 DEF BufferOf
  <2>3. m = [j \in 1 .. n |-> m[j]]
    BY DEF n
  <2>4. QED
    BY <1>6, <2>2, <2>3
<1>8. QED
  BY <1>4, <1>5, <1>7 DEF n

-----------------------------------------------------------------------------
(* One character is received *)

LEMMA RestOfText ==
  ASSUME NEW text \in Seq(Byte), text # <<>>
  PROVE  /\ Tail(text) \in Seq(Byte) /\ Len(Tail(text)) = Len(text) - 1
         /\ Head(text) = text[1] /\ text[1] \in Byte /\ Len(text) >= 1
         /\ \A i \in 1 .. Len(text) - 1 : Tail(text)[i] = text[i + 1]
OBVIOUS

LEMMA ColonInRest ==
  ASSUME NEW text \in Seq(Byte), text # <<>>, NEW o \in Nat, LastColon(text, o)
  PROVE  /\ o = 0 => LastColon(Tail(text), 0) /\ text[1] # Colon
         /\ o = 1 => LastColon(Tail(text), 0) /\ text[1] = Colon
         /\ o > 1 => /\ LastColon(Tail(text), o - 1) /\ o - 1 \in 1 .. Len(Tail(text))
                     /\ text[1] # LF
<1> DEFINE t == Tail(text)
<1>1. /\ t \in Seq(Byte) /\ Len(t) = Len(text) - 1 /\ Len(text) >= 1 /\ Len(text) \in Nat
      /\ \A i \in 1 .. Len(text) - 1 : t[i] = text[i + 1]
  BY RestOfText
<1>2. /\ o \in 0 .. Len(text)
      /\ \A i \in o + 1 .. Len(text) : text[i] # Colon
      /\ o > 0 => text[o] = Colon /\ \A i \in 1 .. o - 1 : text[i] # LF
  BY DEF LastColon
<1> HIDE DEF t
<1>3. CASE o = 0
  <2>1. \A i \in 0 + 1 .. Len(t) : t[i] # Colon
    <3>1. \A i \in 0 + 1 .. Len(t) : i \in 1 .. Len(text) - 1 /\ i + 1 \in o + 1 .. Len(text)
      BY <1>1, <1>3
    <3>2. QED
      BY <1>1, <1>2, <3>1
  <2>2. text[1] # Colon
    BY <1>1, <1>2, <1>3
  <2>3. 0 \in 0 .. Len(t) /\ ~(0 > 0)
    BY <1>1
  <2>4. LastColon(t, 0)
    BY <2>1, <2>3 DEF LastColon
  <2>5. QED
    BY <1>3, <2>2, <2>4 DEF t
<1>4. CASE o = 1
  <2>1. \A i \in 0 + 1 .. Len(t) : t[i] # Colon
    <3>1. \A i \in 0 + 1 .. Len(t) : i \in 1 .. Len(text) - 1 /\ i + 1 \in o + 1 .. Len(text)
      BY <1>1, <1>4
    <3>2. QED
      BY <1>1, <1>2, <3>1
  <2>2. text[1] = Colon
    BY <1>2, <1>4
  <2>3. 0 \in 0 .. Len(t) /\ ~(0 > 0)
    BY <1>1
  <2>4. LastColon(t, 0)
    BY <2>1, <2>3 DEF LastColon
  <2>5. QED
    BY <1>4, <2>2, <2>4 DEF t
<1>5. CASE o > 1
  <2>1. \A i \in (o - 1) + 1 .. Len(t) : t[i] # Colon
    <3>1. \A i \in (o - 1) + 1 .. Len(t) : i \in 1 .. Len(text) - 1 /\ i + 1 \in o + 1 .. Len(text)
      BY <1>1, <1>5
    <3>2. QED
      BY <1>1, <1>2, <3>1
  <2>2. o - 1 \in 1 .. Len(text) - 1 /\ (o - 1) + 1 = o
    BY <1>1, <1>2, <1>5
  <2>3. t[o - 1] = Colon
    BY <1>1, <1>2, <1>5, <2>2
  <2>4. \A i \in 1 .. (o - 1) - 1 : t[i] # LF
    <3>1. \A i \in 1 .. (o - 1) - 1 : i \in 1 .. Len(text) - 1 /\ i + 1 \in 1 .. o - 1
      BY <1>1, <1>2, <1>5
    <3>2. QED
      BY <1>1, <1>2, <1>5, <3>1
  <2>5. text[1] # LF
    BY <1>2, <1>5
  <2>6. o - 1 \in 0 .. Len(t) /\ o - 1 \in 1 .. Len(t)
    BY <1>1, <2>2
  <2>7. LastColon(t, o - 1)
    BY <2>1, <2>3, <2>4, <2>6 DEF LastColon
  <2>8. QED
    BY <1>5, <2>5, <2>6, <2>7 DEF t
<1>6. QED
  BY <1>3, <1>4, <1>5

\* The first character of text is left out.
LEMMA NoFrameInRest ==
  ASSUME NEW text \in Seq(Byte), text # <<>>, NEW o \in Nat, o >= 1,
         NEW cnt \in Nat, NEW lrc, NEW data, NEW wIndex,
         NoFrame(text, o, cnt, lrc, data, wIndex)
  PROVE  NoFrame(Tail(text), o - 1, cnt, lrc, data, wIndex)
<1> DEFINE t == Tail(text)
<1>1. /\ t \in Seq(Byte) /\ Len(t) = Len(text) - 1 /\ Len(text) >= 1 /\ Len(text) \in Nat
      /\ \A i \in 1 .. Len(text) - 1 : t[i] = text[i + 1]
  BY RestOfText
<1> HIDE DEF t
<1>2. CASE \A i \in o + 1 .. Len(text) : text[i] \in Digits
  <2>1. \A i \in (o - 1) + 1 .. Len(t) : i \in 1 .. Len(text) - 1 /\ i + 1 \in o + 1 .. Len(text)
    BY <1>1
  <2>2. \A i \in (o - 1) + 1 .. Len(t) : t[i] \in Digits
    BY <1>1, <1>2, <2>1
  <2>3. QED
    BY <2>2 DEF NoFrame, t
<1>3. CASE \E e \in o + 1 .. Len(text) :
             /\ \A i \in o + 1 .. e - 1 : text[i] \in Digits
             /\ EndsNone(text, o, e, cnt, lrc, data, wIndex)
  <2>1. PICK e \in o + 1 .. Len(text) :
             /\ \A i \in o + 1 .. e - 1 : text[i] \in Digits
             /\ EndsNone(text, o, e, cnt, lrc, data, wIndex)
    BY <1>3
  <2>2. /\ e - 1 \in (o - 1) + 1 .. Len(t) /\ e - 1 \in 1 .. Len(text) - 1 /\ (e - 1) + 1 = e
    BY <1>1
  <2>3. \A i \in (o - 1) + 1 .. (e - 1) - 1 : t[i] \in Digits
    <3>1. \A i \in (o - 1) + 1 .. (e - 1) - 1 :
            i \in 1 .. Len(text) - 1 /\ i + 1 \in o + 1 .. e - 1
      BY <1>1
    <3>2. QED
      BY <1>1, <2>1, <3>1
  <2>4. t[e - 1] = text[e]
    BY <1>1, <2>2
  <2>5. EndsNone(t, o - 1, e - 1, cnt, lrc, data, wIndex)
    <3>1. CASE text[e] \notin Digits \cup {CR}
      BY <2>4, <3>1 DEF EndsNone
    <3>2. CASE text[e] = CR /\ (cnt + e - o - 1) % 2 = 1
      <4>1. cnt + (e - 1) - (o - 1) - 1 = cnt + e - o - 1
        BY <2>2
      <4>2. QED
        BY <2>4, <3>2, <4>1 DEF EndsNone
    <3>3. CASE text[e] = CR /\ \A i \in e + 1 .. Len(text) : text[i] # LF
      <4>1. \A i \in (e - 1) + 1 .. Len(t) :
              i \in 1 .. Len(text) - 1 /\ i + 1 \in e + 1 .. Len(text)
        BY <1>1
      <4>2. \A i \in (e - 1) + 1 .. Len(t) : t[i] # LF
        BY <1>1, <3>3, <4>1
      <4>3. QED
        BY <2>4, <3>3, <4>2 DEF EndsNone
    <3>4. CASE text[e] = CR /\ e = o + 1 /\ wIndex = 0
      <4>1. e - 1 = (o - 1) + 1
        BY <3>4
      <4>2. QED
        BY <2>4, <3>4, <4>1 DEF EndsNone
    <3>5. CASE text[e] = CR /\ WrongSum(text, o, e, cnt, lrc, data)
      <4>1. PICK b \in Seq(Byte) :
              /\ ByteSum(b) # 0 /\ Len(b) <= 127
              /\ ReadSoFar(b, cnt, lrc, data) /\ Follows(text, o, b, cnt)
              /\ e - o - 1 = 2 * Len(b) - cnt
        BY <3>5 DEF WrongSum
      <4>2. (e - 1) - (o - 1) - 1 = 2 * Len(b) - cnt
        BY <4>1
      <4>3. Follows(t, o - 1, b, cnt)
        <5> SUFFICES ASSUME NEW i \in cnt + 1 .. 2 * Len(b)
                     PROVE  DigitValue(t[(o - 1) + i - cnt]) = Nibble(b, i)
          BY DEF Follows
        <5>1. DigitValue(text[o + i - cnt]) = Nibble(b, i)
          BY <4>1 DEF Follows
        <5>2. PICK m \in Nat : m = Len(b)
          OBVIOUS
        <5>3. /\ (o - 1) + i - cnt \in 1 .. Len(text) - 1
              /\ ((o - 1) + i - cnt) + 1 = o + i - cnt
          BY <1>1, <4>1, <5>2
        <5>4. QED
          BY <1>1, <5>1, <5>3
      <4>4. WrongSum(t, o - 1, e - 1, cnt, lrc, data)
        BY <4>1, <4>2, <4>3 DEF WrongSum
      <4>5. QED
        BY <2>4, <3>5, <4>4 DEF EndsNone
    <3>6. QED
      BY <2>1, <3>1, <3>2, <3>3, <3>4, <3>5 DEF EndsNone
  <2>6. QED
    BY <2>2, <2>3, <2>5, DigitsThenEnd DEF t
<1>4. QED
  BY <1>2, <1>3 DEF NoFrame

\* The sum and the upper half after another digit of the value v.
LrcAfter(cnt, lrc, data, v) == IF cnt % 2 = 0 THEN lrc ELSE (lrc + (data * 16 + v)) % 256
DataAfter(cnt, data, v) == IF cnt % 2 = 0 THEN v ELSE data

LEMMA ReadAnother ==
  ASSUME NEW b \in Seq(Byte), NEW cnt \in Nat, cnt < 2 * Len(b),
         NEW lrc, NEW data, ReadSoFar(b, cnt, lrc, data),
         NEW v, v = Nibble(b, cnt + 1)
  PROVE  ReadSoFar(b, cnt + 1, LrcAfter(cnt, lrc, data, v), DataAfter(cnt, data, v))
<1>1. CASE cnt % 2 = 0
  <2>1. ReadSoFar(b, cnt + 1, lrc, v)
    BY <1>1, ReadDigit
  <2>2. LrcAfter(cnt, lrc, data, v) = lrc /\ DataAfter(cnt, data, v) = v
    BY <1>1 DEF LrcAfter, DataAfter
  <2>3. QED
    BY <2>1, <2>2
<1>2. CASE cnt % 2 = 1
  <2>1. ReadSoFar(b, cnt + 1, (lrc + (data * 16 + v)) % 256, data)
    BY <1>2, ReadDigit
  <2>2. /\ LrcAfter(cnt, lrc, data, v) = (lrc + (data * 16 + v)) % 256
        /\ DataAfter(cnt, data, v) = data
    BY <1>2 DEF LrcAfter, DataAfter
  <2>3. QED
    BY <2>1, <2>2
<1>3. QED
  BY <1>1, <1>2

LEMMA CountStep == \A m \in Byte : m # 255 => (m + 1) % 256 = m + 1
BY DEF Byte

\* After a digit what comes completes a frame as little as before.
LEMMA NoFrameAfterDigit ==
  ASSUME NEW text \in Seq(Byte), text # <<>>, text[1] \in Digits,
         NEW cnt \in Byte, NEW lrc, NEW data, NEW wIndex,
         NoFrame(text, 0, cnt, lrc, data, wIndex),
         NEW v, v = DigitValue(text[1]), NEW next
  PROVE  NoFrame(Tail(text), 0, (cnt + 1) % 256, LrcAfter(cnt, lrc, data, v),
                 DataAfter(cnt, data, v), next)
<1> DEFINE lrc2 == LrcAfter(cnt, lrc, data, v)
           data2 == DataAfter(cnt, data, v)
<1>0. cnt \in Nat /\ (cnt + 1) % 256 \in Nat
  BY DEF Byte
<1>1. NoFrame(text, 1, (cnt + 1) % 256, lrc2, data2, next)
  <2> HIDE DEF lrc2, data2
  <2>1. CASE \A i \in 0 + 1 .. Len(text) : text[i] \in Digits
    <3>1. \A i \in 1 + 1 .. Len(text) : text[i] \in Digits
      BY <2>1
    <3>2. QED
      BY <3>1 DEF NoFrame
  <2>2. CASE \E e \in 0 + 1 .. Len(text) :
               /\ \A i \in 0 + 1 .. e - 1 : text[i] \in Digits
               /\ EndsNone(text, 0, e, cnt, lrc, data, wIndex)
    <3>1. PICK e \in 0 + 1 .. Len(text) :
               /\ \A i \in 0 + 1 .. e - 1 : text[i] \in Digits
               /\ EndsNone(text, 0, e, cnt, lrc, data, wIndex)
      BY <2>2
    <3>2. text[e] \notin Digits
      BY <3>1, Characters DEF EndsNone
    <3>3. e \in 1 + 1 .. Len(text) /\ e # 0 + 1
      <4>1. e # 1
        BY <3>2
      <4>2. QED
        BY <4>1
    <3>4. \A i \in 1 + 1 .. e - 1 : text[i] \in Digits
      BY <3>1
    <3>5. EndsNone(text, 1, e, (cnt + 1) % 256, lrc2, data2, next)
      <4>1. CASE text[e] # CR
        BY <3>2, <4>1 DEF EndsNone
      <4>2. CASE text[e] = CR /\ (cnt + e - 0 - 1) % 2 = 1
        <5>1. (((cnt + 1) % 256) + e - 1 - 1) % 2 = 1
          <6>1. PICK f \in Nat : f = e
            BY <3>3
          <6>2. (cnt + f - 0 - 1) % 2 = 1 /\ f >= 2
            BY <3>3, <4>2, <6>1
          <6>3. CASE cnt = 255
            <7>1. (cnt + 1) % 256 = 0
              BY <6>3
            <7>2. (0 + f - 1 - 1) % 2 = 1
              BY <6>2, <6>3
            <7>3. QED
              BY <6>1, <7>1, <7>2
          <6>4. CASE cnt # 255
            <7>1. (cnt + 1) % 256 = cnt + 1
              BY <6>4, CountStep
            <7>2. (cnt + 1) + f - 1 - 1 = cnt + f - 0 - 1
              BY <1>0
            <7>3. QED
              BY <6>1, <6>2, <7>1, <7>2, Zenon
          <6>5. QED
            BY <6>3, <6>4
        <5>2. QED
          BY <4>2, <5>1 DEF EndsNone
      <4>3. CASE text[e] = CR /\ \A i \in e + 1 .. Len(text) : text[i] # LF
        BY <4>3 DEF EndsNone
      <4>4. CASE text[e] = CR /\ WrongSum(text, 0, e, cnt, lrc, data)
        <5>1. PICK b \in Seq(Byte) :
                /\ ByteSum(b) # 0 /\ Len(b) <= 127
                /\ ReadSoFar(b, cnt, lrc, data) /\ Follows(text, 0, b, cnt)
                /\ e - 0 - 1 = 2 * Len(b) - cnt
          BY <4>4 DEF WrongSum
        <5>2. PICK m \in Nat : m = Len(b)
          OBVIOUS
        <5>3. cnt < 2 * m /\ m <= 127 /\ (cnt + 1) % 256 = cnt + 1
              /\ e - 1 - 1 = 2 * m - (cnt + 1)
          <6>1. cnt < 2 * m /\ m <= 127 /\ e - 1 - 1 = 2 * m - (cnt + 1)
            BY <1>0, <3>3, <5>1, <5>2
          <6>2. cnt + 1 < 256
            BY <1>0, <6>1
          <6>3. QED
            BY <1>0, <6>1, <6>2
        <5>4. v = Nibble(b, cnt + 1)
          <6>1. cnt + 1 \in cnt + 1 .. 2 * m /\ 0 + (cnt + 1) - cnt = 1
            BY <1>0, <5>3
          <6>2. DigitValue(text[0 + (cnt + 1) - cnt]) = Nibble(b, cnt + 1)
            BY <5>1, <5>2, <6>1 DEF Follows
          <6>3. QED
            BY <6>1, <6>2
        <5>5. ReadSoFar(b, cnt + 1, lrc2, data2)
          BY <1>0, <5>1, <5>2, <5>3, <5>4, ReadAnother DEF lrc2, data2
        <5>6. Follows(text, 1, b, cnt + 1)
          <6> SUFFICES ASSUME NEW i \in (cnt + 1) + 1 .. 2 * Len(b)
                       PROVE  DigitValue(text[1 + i - (cnt + 1)]) = Nibble(b, i)
            BY DEF Follows
          <6>1. i \in cnt + 1 .. 2 * Len(b) /\ 1 + i - (cnt + 1) = 0 + i - cnt
            BY <1>0, <5>2
          <6>2. QED
            BY <5>1, <6>1 DEF Follows
        <5>7. WrongSum(text, 1, e, (cnt + 1) % 256, lrc2, data2)
          BY <5>1, <5>2, <5>3, <5>5, <5>6 DEF WrongSum
        <5>8. QED
          BY <4>4, <5>7 DEF EndsNone
      <4>5. QED
        BY <3>1, <3>3, <4>1, <4>2, <4>3, <4>4 DEF EndsNone
    <3>6. QED
      BY <3>3, <3>4, <3>5, DigitsThenEnd
  <2>3. QED
    BY <2>1, <2>2 DEF NoFrame
<1> HIDE DEF lrc2, data2
<1>2. NoFrame(Tail(text), 1 - 1, (cnt + 1) % 256, lrc2, data2, next)
  BY <1>0, <1>1, NoFrameInRest
<1>3. 1 - 1 = 0
  OBVIOUS
<1>4. QED
  BY <1>2, <1>3, Zenon DEF lrc2, data2

LEMMA SpareData ==
  ASSUME NEW text, NEW o, NoFrame(text, o, 0, 0, 0, 0), NEW data
  PROVE  NoFrame(text, o, 0, 0, data, 0)
<1>1. ASSUME NEW e, WrongSum(text, o, e, 0, 0, 0) PROVE WrongSum(text, o, e, 0, 0, data)
  <2>1. ~(0 % 2 = 1)
    OBVIOUS
  <2>2. QED
    BY <1>1, <2>1 DEF WrongSum, ReadSoFar
<1>2. ASSUME NEW e, EndsNone(text, o, e, 0, 0, 0, 0) PROVE EndsNone(text, o, e, 0, 0, data, 0)
  BY <1>1, <1>2, Zenon DEF EndsNone
<1>3. QED
  BY <1>2, Zenon DEF NoFrame
=============================================================================
