------------------------- MODULE Conversions_proofs -------------------------
(***************************************************************************)
(* The checksums, the lines and the register values of Conversions, for    *)
(* messages of every length, over all bytes; and the answers of EgoSerial, *)
(* which reads such lines, for any requests and delays.                    *)
(***************************************************************************)
EXTENDS Conversions, EgoSerial, Frame_lemmas

-----------------------------------------------------------------------------
(* The message *)

MessageOK == message \in Seq(Byte)

LEMMA MessageType == Spec => []MessageOK
<1>1. Init => MessageOK
  BY DEF Init, MessageOK
<1>2. MessageOK /\ [Add]_message => MessageOK'
  <2>1. ASSUME MessageOK, Add PROVE MessageOK'
    BY <2>1, MessageAssumption DEF Add, MessageOK
  <2>2. ASSUME MessageOK, UNCHANGED message PROVE MessageOK'
    BY <2>2 DEF MessageOK
  <2>3. QED
    BY <2>1, <2>2
<1>3. QED
  BY <1>1, <1>2, PTL DEF Spec

-----------------------------------------------------------------------------
(* The CRC *)

LEMMA CrcOfRtu ==
  ASSUME NEW m \in Seq(Byte)
  PROVE  Rtu(m) \in Seq(Byte) /\ CrcOf(Rtu(m)) = {}
<1> DEFINE c == CrcFold(m)
           low == ByteOf(c, 0)
           high == ByteOf(c, 8)
<1>1. c \in Word /\ low \in Byte /\ high \in Byte
  BY CrcFoldType, ByteOfType
<1> HIDE DEF c
<1>2. Rtu(m) = m \o << low, high >>
  BY DEF Rtu, CrcOf, CrcFold, CrcBytes, c
<1> HIDE DEF low, high
<1>3. m \o << low, high >> = Append(Append(m, low), high)
  BY <1>1, AppendTwice
<1>4. Append(m, low) \in Seq(Byte) /\ Append(Append(m, low), high) \in Seq(Byte)
  BY <1>1
<1>5. CrcFold(Append(Append(m, low), high))
        = app_updateModbusCrc(app_updateModbusCrc(c, low), high)
  BY <1>1, <1>4, CrcFoldAppend DEF c
<1>6. app_updateModbusCrc(app_updateModbusCrc(c, low), high) = {}
  BY <1>1, CrcOfCrcBytes DEF low, high
<1>7. QED
  BY <1>2, <1>3, <1>4, <1>5, <1>6 DEF CrcOf, CrcFold

\* A frame with its CRC has the CRC 0, a frame with one wrong byte never has, for
\* messages of every length: what app_handleUart1Timeout() takes for a good frame.
THEOREM CrcSafe == Spec => []CrcIsSafe
<1>1. MessageOK => CrcIsSafe
  <2> SUFFICES ASSUME message \in Seq(Byte) PROVE CrcIsSafe
    BY DEF MessageOK
  <2> DEFINE rtu == Rtu(message)
  <2>1. rtu \in Seq(Byte) /\ CrcOf(rtu) = {}
    BY CrcOfRtu
  <2> HIDE DEF rtu
  <2>2. ASSUME NEW i \in DOMAIN rtu, NEW b \in Bytes, b # rtu[i]
        PROVE  CrcOf(Changed(rtu, i, b)) # {}
    <3>1. b \in Byte
      BY MessageAssumption
    <3>2. CrcFold([rtu EXCEPT ![i] = b]) # CrcFold(rtu)
      BY <2>1, <2>2, <3>1, CrcChanges
    <3>3. QED
      BY <2>1, <3>2 DEF CrcOf, CrcFold, Changed
  <2>3. QED
    BY <2>1, <2>2 DEF CrcIsSafe, rtu
<1>2. QED
  BY <1>1, MessageType, PTL

-----------------------------------------------------------------------------
(* The line *)

\* The characters of a line.
LEMMA LineCharacters ==
  ASSUME NEW m \in Seq(Byte), NEW text, text = FrameOf(m)
  PROVE  LineHas(text, m, Lrc(m))
<1>1. Lrc(m) \in Byte
  <2>1. 0 \in Byte
    BY DEF Byte
  <2>2. QED
    BY <2>1, LrcIsRight, Zenon
<1>2. FrameOf(m) = LineText(m, Lrc(m))
  BY DEF FrameOf, LineText, Spelled
<1>3. LineHas(LineText(m, Lrc(m)), m, Lrc(m))
  BY <1>1, LineTextHas, Zenon
<1>4. QED
  BY <1>2, <1>3, Zenon

\* What the server reads from a line it wrote.
LEMMA LineIsRead ==
  ASSUME NEW m \in Seq(Byte), NEW text, text = FrameOf(m)
  PROVE  /\ \A i \in 2 .. Len(text) - 2 : text[i] \in Digits
         /\ ByteAt(text, 2 * Len(m) + 2) = Lrc(m)
         /\ BufferOf(text) = m
<1>1. Lrc(m) \in Byte
  <2>1. 0 \in Byte
    BY DEF Byte
  <2>2. QED
    BY <2>1, LrcIsRight, Zenon
<1>2. LineHas(text, m, Lrc(m))
  BY LineCharacters, Zenon
<1>3. QED
  BY <1>1, <1>2, LineHasRead, Zenon

\* One byte of the line is another one.
OneByteDiffers(changed, text, n) ==
  /\ Len(changed) = Len(text)
  /\ \E k \in 1 .. n + 1 :
       /\ ByteAt(changed, 2 * k) # ByteAt(text, 2 * k)
       /\ ByteAt(changed, 2 * k) \in Byte
       /\ \A j \in 1 .. n + 1 : j # k => ByteAt(changed, 2 * j) = ByteAt(text, 2 * j)

\* Another digit makes another byte, and leaves all others as they are.
LEMMA ChangedByte ==
  ASSUME NEW text \in Seq(Byte), NEW n \in Nat, Len(text) = 2 * n + 5,
         \A i \in 2 .. Len(text) - 2 : text[i] \in Digits,
         NEW i \in 2 .. Len(text) - 2, NEW d \in Digits, d # text[i],
         NEW changed, changed = Changed(text, i, d)
  PROVE  OneByteDiffers(changed, text, n)
<1>1. PICK k \in 1 .. n + 1 : i = 2 * k \/ i = 2 * k + 1
  <2>1. i \div 2 \in 1 .. n + 1 /\ (i = 2 * (i \div 2) \/ i = 2 * (i \div 2) + 1)
    OBVIOUS
  <2>2. QED
    BY <2>1
<1>2. d \in Byte
  <2>1. \A x \in 0 .. 15 : Digit(x) \in Byte
    BY DigitType
  <2>2. QED
    BY <2>1 DEF Digits
<1>3. /\ Len(changed) = Len(text)
      /\ \A j \in 1 .. Len(text) : changed[j] = IF j = i THEN d ELSE text[j]
  <2>1. i \in 1 .. Len(text)
    OBVIOUS
  <2>2. QED
    BY <1>2, <2>1, ExceptSeq DEF Changed
<1>4. ASSUME NEW j \in 1 .. n + 1
      PROVE  /\ 2 * j \in 1 .. Len(text) /\ 2 * j + 1 \in 1 .. Len(text)
             /\ text[2 * j] \in Digits /\ text[2 * j + 1] \in Digits
  OBVIOUS
<1>5. /\ changed[2 * k] = IF 2 * k = i THEN d ELSE text[2 * k]
      /\ changed[2 * k + 1] = IF 2 * k + 1 = i THEN d ELSE text[2 * k + 1]
  <2>1. 2 * k \in 1 .. Len(text) /\ 2 * k + 1 \in 1 .. Len(text)
    BY <1>4, Zenon
  <2>2. QED
    BY <1>3, <2>1, Zenon
<1> DEFINE v(c) == DigitValue(c)
           value(c, e) == 16 * v(c) + v(e)
<1>6. \A c \in Digits : v(c) \in 0 .. 15
  BY DigitValueType
<1>7. \A c \in Digits : v(c) = v(d) => c = d
  BY DigitFacts
<1>8. /\ ByteAt(changed, 2 * k) = value(changed[2 * k], changed[2 * k + 1])
      /\ ByteAt(text, 2 * k) = value(text[2 * k], text[2 * k + 1])
  BY DEF ByteAt
<1> HIDE DEF v
<1>a. ASSUME NEW c \in Digits, NEW e \in Digits, NEW c2 \in Digits, NEW e2 \in Digits
      PROVE  /\ value(c, e) \in Byte
             /\ value(c, e) = value(c2, e2) => v(c) = v(c2) /\ v(e) = v(e2)
  <2>1. PICK p \in 0 .. 15, q \in 0 .. 15, p2 \in 0 .. 15, q2 \in 0 .. 15 :
           p = v(c) /\ q = v(e) /\ p2 = v(c2) /\ q2 = v(e2)
    BY <1>6
  <2>2. 16 * p + q \in 0 .. 255 /\ (16 * p + q = 16 * p2 + q2 => p = p2 /\ q = q2)
    OBVIOUS
  <2>3. QED
    BY <2>1, <2>2, Zenon DEF Byte
<1> HIDE DEF value
<1>9. ByteAt(changed, 2 * k) # ByteAt(text, 2 * k) /\ ByteAt(changed, 2 * k) \in Byte
  <2>1. text[2 * k] \in Digits /\ text[2 * k + 1] \in Digits
    BY <1>4
  <2>2. CASE i = 2 * k
    <3>1. changed[2 * k] = d /\ changed[2 * k + 1] = text[2 * k + 1] /\ v(text[2 * k]) # v(d)
      BY <1>5, <1>7, <2>1, <2>2
    <3>2. QED
      BY <1>8, <1>a, <2>1, <3>1
  <2>3. CASE i = 2 * k + 1
    <3>1. changed[2 * k] = text[2 * k] /\ changed[2 * k + 1] = d /\ v(text[2 * k + 1]) # v(d)
      BY <1>5, <1>7, <2>1, <2>3
    <3>2. QED
      BY <1>8, <1>a, <2>1, <3>1
  <2>4. QED
    BY <1>1, <2>2, <2>3
<1>10. ASSUME NEW j \in 1 .. n + 1, j # k
       PROVE  ByteAt(changed, 2 * j) = ByteAt(text, 2 * j)
  <2>1. 2 * j # i /\ 2 * j + 1 # i
    BY <1>1, <1>10
  <2>2. changed[2 * j] = text[2 * j] /\ changed[2 * j + 1] = text[2 * j + 1]
    BY <1>3, <1>4, <2>1
  <2>3. QED
    BY <2>2 DEF ByteAt
<1>11. QED
  BY <1>3, <1>9, <1>10 DEF OneByteDiffers

LEMMA LrcDiffers ==
  ASSUME NEW s \in Seq(Byte), NEW t \in Seq(Byte), ByteSum(s) # ByteSum(t)
  PROVE  Lrc(s) # Lrc(t)
<1>1. /\ Lrc(s) \in Byte /\ ByteSum(Append(s, Lrc(s))) = 0
      /\ Lrc(t) \in Byte /\ ByteSum(Append(t, Lrc(t))) = 0
  <2>1. Lrc(s) \in Byte /\ Lrc(t) \in Byte
    <3>0. 0 \in Byte
      BY DEF Byte
    <3>1. Lrc(s) \in Byte
      BY <3>0, LrcIsRight, Zenon
    <3>2. Lrc(t) \in Byte
      BY <3>0, LrcIsRight, Zenon
    <3>3. QED
      BY <3>1, <3>2
  <2>2. QED
    BY <2>1, LrcIsRight
<1>2. Plus(ByteSum(s), Lrc(s)) = 0 /\ Plus(ByteSum(t), Lrc(t)) = 0
  BY <1>1, ByteSumAppend
<1>3. QED
  BY <1>1, <1>2, ByteSumType, PlusInjective

\* One wrong digit, and the LRC is wrong.
LEMMA WrongDigit ==
  ASSUME NEW m \in Seq(Byte), NEW text, text = FrameOf(m),
         NEW i \in 2 .. Len(text) - 2, NEW d \in Digits, d # text[i]
  PROVE  ~LrcOk(Changed(text, i, d))
<1> DEFINE n == Len(m)
           changed == Changed(text, i, d)
<1>1. n \in Nat /\ text \in Seq(Byte) /\ Len(text) = 2 * n + 5
  BY LineCharacters DEF LineHas
<1>2. /\ \A j \in 2 .. Len(text) - 2 : text[j] \in Digits
      /\ ByteAt(text, 2 * n + 2) = Lrc(m) /\ BufferOf(text) = m
  BY LineIsRead
<1> HIDE DEF n, changed
<1>d. OneByteDiffers(changed, text, n)
  <2>1. changed = Changed(text, i, d)
    BY DEF changed
  <2>2. QED
    BY <1>1, <1>2, <2>1, ChangedByte
<1>3. PICK k \in 1 .. n + 1 :
           /\ ByteAt(changed, 2 * k) # ByteAt(text, 2 * k)
           /\ ByteAt(changed, 2 * k) \in Byte
           /\ \A j \in 1 .. n + 1 : j # k => ByteAt(changed, 2 * j) = ByteAt(text, 2 * j)
           /\ Len(changed) = Len(text)
  BY <1>d DEF OneByteDiffers
<1>4. (Len(text) - 5) \div 2 = n /\ Len(text) - 3 = 2 * (n + 1) /\ 2 * n + 2 = 2 * (n + 1)
  BY <1>1
<1>5. /\ BufferOf(changed) = [j \in 1 .. n |-> ByteAt(changed, 2 * j)]
      /\ BufferOf(text) = [j \in 1 .. n |-> ByteAt(text, 2 * j)]
      /\ LrcOk(changed) <=> ByteAt(changed, 2 * (n + 1)) = Lrc(BufferOf(changed))
  BY <1>3, <1>4 DEF BufferOf, LrcOk
<1>6. CASE k = n + 1
  <2>1. \A j \in 1 .. n : j \in 1 .. n + 1 /\ j # k
    BY <1>1, <1>6
  <2>2. BufferOf(changed) = m
    BY <1>2, <1>3, <1>5, <2>1
  <2>3. QED
    BY <1>2, <1>3, <1>4, <1>5, <1>6, <2>2 DEF changed
<1>7. CASE k # n + 1
  <2>1. k \in 1 .. n /\ k \in DOMAIN m /\ n + 1 \in 1 .. n + 1
    BY <1>1, <1>7 DEF n
  <2> DEFINE x == ByteAt(changed, 2 * k)
  <2>2. x # m[k]
    <3>1. m[k] = ByteAt(text, 2 * k)
      BY <1>2, <1>5, <2>1
    <3>2. QED
      BY <1>3, <3>1
  <2>3. BufferOf(changed) = [m EXCEPT ![k] = x]
    <3>1. \A j \in 1 .. n : j \in 1 .. n + 1
      BY <1>1
    <3>2. \A j \in 1 .. n : ByteAt(text, 2 * j) = m[j]
      BY <1>2, <1>5
    <3>3. [m EXCEPT ![k] = x] = [j \in 1 .. n |-> IF j = k THEN x ELSE m[j]]
      BY <2>1 DEF n
    <3>4. \A j \in 1 .. n : ByteAt(changed, 2 * j) = IF j = k THEN x ELSE m[j]
      BY <1>3, <3>1, <3>2
    <3> HIDE DEF x
    <3>5. QED
      BY <1>5, <3>3, <3>4
  <2>4. BufferOf(changed) \in Seq(Byte)
    BY <1>3, <2>1, <2>3
  <2>5. ByteSum(BufferOf(changed)) # ByteSum(m)
    <3>1. x \in Byte
      BY <1>3
    <3> HIDE DEF x
    <3>2. ByteSum([m EXCEPT ![k] = x]) # ByteSum(m)
      BY <2>1, <2>2, <3>1, SumChanges
    <3>3. QED
      BY <2>3, <3>2
  <2>6. Lrc(BufferOf(changed)) # Lrc(m)
    BY <2>4, <2>5, LrcDiffers
  <2>7. ByteAt(changed, 2 * (n + 1)) = Lrc(m)
    BY <1>2, <1>3, <1>4, <1>7, <2>1
  <2>8. QED
    BY <1>5, <2>6, <2>7 DEF changed
<1>8. QED
  BY <1>6, <1>7

\* For messages of every length, over all bytes: the server reads back what it
\* wrote, a line with one wrong digit never has a good LRC, and the line of the
\* older server is the same one or is no frame.
THEOREM LineSafe == Spec => []LineIsSafe
<1>1. MessageOK => LineIsSafe
  <2> SUFFICES ASSUME message \in Seq(Byte), Len(message) >= 2 PROVE LineIsSafe
    BY DEF MessageOK, LineIsSafe
  <2> DEFINE text == FrameOf(message)
             ego == EgoFrameOf(message)
             n == Len(message)
  <2>1. /\ text \in Seq(Byte) /\ Len(text) = 2 * n + 5 /\ text[1] = Colon
        /\ text[2 * n + 4] = CR /\ text[2 * n + 5] = LF
    BY LineCharacters DEF LineHas
  <2>2. /\ \A i \in 2 .. Len(text) - 2 : text[i] \in Digits
        /\ ByteAt(text, 2 * n + 2) = Lrc(message) /\ BufferOf(text) = message
    BY LineIsRead
  <2>3. n \in Nat /\ n >= 2
    OBVIOUS
  <2>4. \A i \in 2 .. Len(text) - 2, d \in Digits : d # text[i] => ~LrcOk(Changed(text, i, d))
    BY WrongDigit
  <2>5. ego = IF Lrc(message) # 0 THEN text
              ELSE SubSeq(text, 1, Len(text) - 4) \o << Digit(1), Digit(0), Digit(0), CR, LF >>
    BY DEF EgoFrameOf
  <2> HIDE DEF text, n
  <2>6. Legal(text)
    BY <2>1, <2>2, <2>3 DEF Legal
  <2>7. LrcOk(text)
    <3>1. Len(text) - 3 = 2 * n + 2
      BY <2>1, <2>3
    <3>2. QED
      BY <2>2, <3>1 DEF LrcOk
  <2>8. (ego = text) = Legal(ego)
    <3>1. CASE Lrc(message) # 0
      BY <2>5, <2>6, <3>1
    <3>2. CASE Lrc(message) = 0
      <4> DEFINE front == SubSeq(text, 1, Len(text) - 4)
                 end == << Digit(1), Digit(0), Digit(0), CR, LF >>
      <4>1. front \in Seq(Byte) /\ Len(front) = 2 * n + 1
        BY <2>1, <2>3
      <4>2. end \in Seq(Byte) /\ Len(end) = 5
        BY DEF Digit, CR, LF, Byte
      <4>3. ego = front \o end
        BY <2>5, <3>2
      <4> HIDE DEF front, end, ego
      <4>4. Len(ego) = 2 * n + 6
        <5>1. Len(ego) = Len(front) + Len(end)
          BY <4>1, <4>2, <4>3, ConcatProperties
        <5>2. QED
          BY <2>3, <4>1, <4>2, <5>1
      <4>5. (2 * n + 6) % 2 # 1 /\ 2 * n + 6 # 2 * n + 5
        BY <2>3
      <4>6. ego # text /\ ~Legal(ego)
        BY <2>1, <4>4, <4>5 DEF Legal
      <4>7. Legal(ego) \in BOOLEAN
        BY DEF Legal
      <4>8. QED
        BY <4>6, <4>7, Zenon
    <3>3. QED
      BY <3>1, <3>2
  <2>9. QED
    BY <2>2, <2>4, <2>6, <2>7, <2>8 DEF LineIsSafe, text
<1>2. QED
  BY <1>1, MessageType, PTL

-----------------------------------------------------------------------------
(* Requests and answers *)

\* FlattenSeq is a recursive function, and what it chooses exists.
FlattenOf(f, s) == f = [i \in 1 .. Len(s) |-> IF i = 1 THEN s[i] ELSE f[i - 1] \o s[i]]

LEMMA Flattened ==
  ASSUME NEW s, Len(s) # 0, NEW h, FlattenOf(h, s)
  PROVE  \E f : FlattenOf(f, s) /\ FlattenSeq(s) = f[Len(s)]
<1> DEFINE f == CHOOSE f : FlattenOf(f, s)
<1>1. FlattenOf(f, s)
  OBVIOUS
<1>2. FlattenSeq(s) = f[Len(s)]
  BY Zenon DEF FlattenSeq, FlattenOf
<1>3. QED
  BY <1>1, <1>2

\* The requests of one word, and of two.
LEMMA FlattenOne ==
  ASSUME NEW x
  PROVE  FlattenSeq([i \in 1 .. 1 |-> x]) = x
<1> DEFINE s == [i \in 1 .. 1 |-> x]
<1>1. Len(s) = 1 /\ s[1] = x /\ Len(s) # 0
  OBVIOUS
<1>2. FlattenOf(s, s)
  BY <1>1 DEF FlattenOf
<1> HIDE DEF s
<1>3. PICK f : FlattenOf(f, s) /\ FlattenSeq(s) = f[Len(s)]
  BY <1>1, <1>2, Flattened
<1>4. FlattenSeq(s) = x
  BY <1>1, <1>3 DEF FlattenOf
<1>5. QED
  BY <1>4 DEF s

LEMMA FlattenTwo ==
  ASSUME NEW x, NEW y, NEW s, s = [i \in 1 .. 2 |-> IF i = 1 THEN x ELSE y]
  PROVE  FlattenSeq(s) = x \o y
<1> DEFINE h == [i \in 1 .. 2 |-> IF i = 1 THEN x ELSE x \o y]
<1>1. Len(s) = 2 /\ s[1] = x /\ s[2] = y /\ Len(s) # 0
  OBVIOUS
<1>2. FlattenOf(h, s)
  <2>1. h[1] = x
    OBVIOUS
  <2>2. \A i \in 1 .. 2 : h[i] = IF i = 1 THEN s[i] ELSE h[i - 1] \o s[i]
    BY <1>1, <2>1
  <2>3. QED
    BY <1>1, <2>2 DEF FlattenOf
<1>3. PICK f : FlattenOf(f, s) /\ FlattenSeq(s) = f[Len(s)]
  BY <1>1, <1>2, Flattened
<1>4. f[1] = s[1] /\ f[2] = f[1] \o s[2]
  BY <1>1, <1>3 DEF FlattenOf
<1>5. QED
  BY <1>1, <1>3, <1>4

\* What comes after a header is the rest of the message.
LEMMA AfterHeader ==
  ASSUME NEW T, NEW h \in Seq(T), NEW t \in Seq(T)
  PROVE  /\ SubSeq(h \o t, Len(h) + 1, Len(h \o t)) = t
         /\ h \o t \in Seq(T) /\ Len(h \o t) = Len(h) + Len(t)
         /\ \A i \in 1 .. Len(t) : (h \o t)[Len(h) + i] = t[i]
<1> DEFINE r == h \o t
           n == Len(h)
           u == SubSeq(r, n + 1, Len(r))
<1>1. /\ r \in Seq(T) /\ Len(r) = n + Len(t)
      /\ \A i \in 1 .. n + Len(t) : r[i] = IF i <= n THEN h[i] ELSE t[i - n]
  BY ConcatProperties
<1>2. n \in Nat /\ Len(t) \in Nat
  OBVIOUS
<1> HIDE DEF r, n
<1>3. ASSUME NEW i \in 1 .. Len(t) PROVE r[n + i] = t[i]
  <2>1. n + i \in 1 .. n + Len(t) /\ ~(n + i <= n) /\ (n + i) - n = i
    BY <1>2
  <2>2. QED
    BY <1>1, <2>1
<1>4. /\ u \in Seq(T) /\ Len(u) = Len(t)
      /\ \A i \in 1 .. Len(t) : u[i] = r[n + i]
  <2>1. n + 1 \in 1 .. Len(r) + 1 /\ Len(r) \in n .. Len(r)
    BY <1>1, <1>2
  <2>2. u \in Seq(T)
    BY <1>1, <1>2, SubSeqProperties
  <2>3. Len(u) = Len(t) /\ \A i \in 1 .. Len(t) : u[i] = r[n + i]
    BY <1>1, <1>2
  <2>4. QED
    BY <2>2, <2>3
<1> HIDE DEF u
<1>5. u = t
  BY <1>3, <1>4, SeqEqual
<1>6. QED
  BY <1>1, <1>3, <1>5 DEF r, n, u

\* Words, and those that are sent.
OutOfRange(v) == v < 0 \/ v >= 65535
Sendable == { v \in Int : ~OutOfRange(v) }
SixteenBits == { v \in Int : 0 <= v /\ v < 65536 }

LEMMA SendableIsWord == \A v \in Sendable : v \in SixteenBits
BY DEF Sendable, OutOfRange, SixteenBits

LEMMA BytesOfWord ==
  \A v \in SixteenBits :
    /\ v \div 256 \in Byte /\ v % 256 \in Byte
    /\ 256 * (v \div 256) + (v % 256) = v
<1> SUFFICES ASSUME NEW v \in SixteenBits
             PROVE  /\ v \div 256 \in Byte /\ v % 256 \in Byte
                    /\ 256 * (v \div 256) + (v % 256) = v
  OBVIOUS
<1>1. v \in Int /\ 0 <= v /\ v < 65536
  BY DEF SixteenBits
<1>2. v \div 256 \in Int /\ v \div 256 < 256
  BY <1>1
<1>3. 0 <= v \div 256
  BY <1>1
<1>4. v % 256 \in 0 .. 255 /\ 256 * (v \div 256) + (v % 256) = v
  BY <1>1
<1>5. QED
  BY <1>2, <1>3, <1>4 DEF Byte

LEMMA PairType == \A a, b \in Byte : << a, b >> \in Seq(Byte) /\ Len(<< a, b >>) = 2
<1> SUFFICES ASSUME NEW a \in Byte, NEW b \in Byte
             PROVE  << a, b >> \in Seq(Byte) /\ Len(<< a, b >>) = 2
  OBVIOUS
<1>1. QED
  OBVIOUS

LEMMA BytesOfType ==
  \A v \in SixteenBits :
    /\ BytesOf(v) \in Seq(Byte) /\ Len(BytesOf(v)) = 2
    /\ BytesOf(v)[1] = v \div 256 /\ BytesOf(v)[2] = v % 256
<1> SUFFICES ASSUME NEW v \in SixteenBits
             PROVE  /\ BytesOf(v) \in Seq(Byte) /\ Len(BytesOf(v)) = 2
                    /\ BytesOf(v)[1] = v \div 256 /\ BytesOf(v)[2] = v % 256
  OBVIOUS
<1> DEFINE a == v \div 256
           b == v % 256
<1>1. a \in Byte /\ b \in Byte
  BY BytesOfWord
<1>2. BytesOf(v) = << a, b >>
  BY DEF BytesOf
<1> HIDE DEF a, b
<1>3. << a, b >> \in Seq(Byte) /\ Len(<< a, b >>) = 2 /\ << a, b >>[1] = a /\ << a, b >>[2] = b
  BY <1>1
<1>4. QED
  BY <1>2, <1>3 DEF a, b

\* A request to write has seven bytes before the words.
LEMMA HeaderLength ==
  ASSUME NEW T, NEW a \in Seq(T), NEW b \in Seq(T), NEW c \in Seq(T), NEW d \in Seq(T),
         Len(a) = 2, Len(b) = 2, Len(c) = 2, Len(d) = 1
  PROVE  a \o b \o c \o d \in Seq(T) /\ Len(a \o b \o c \o d) = 7
<1>1. a \o b \in Seq(T) /\ Len(a \o b) = 4
  BY ConcatProperties
<1>2. a \o b \o c \in Seq(T) /\ Len(a \o b \o c) = Len(a \o b) + Len(c)
  BY <1>1, ConcatType, Zenon
<1>3. /\ a \o b \o c \o d \in Seq(T)
      /\ Len(a \o b \o c \o d) = Len(a \o b \o c) + Len(d)
  BY <1>2, ConcatType, Zenon
<1>4. \A x, y, z : x = 4 /\ y = x + 2 /\ z = y + 1 => z = 7
  OBVIOUS
<1>5. QED
  BY <1>1, <1>2, <1>3, <1>4, Zenon

\* What setRawValue() and valueAt() make of the same bytes.
Word16(a, b) == 256 * a + b
Signed16(w) == TwosComplement(w, 65536)

LEMMA SameReading ==
  /\ \A a, b \in Byte : Word16(a, b) % 256 = b
  /\ \A c, d \in Byte : Signed16(Word16(c, d)) = Word16(c, d) <=> c < 128
<1>1. \A a, b \in Byte : Word16(a, b) % 256 = b
  BY DEF Word16, Byte
<1>2. \A c, d \in Byte : Signed16(Word16(c, d)) = Word16(c, d) <=> c < 128
  BY DEF TwosComplement, Byte, Word16, Signed16
<1>3. QED
  BY <1>1, <1>2, Zenon

\* A request to write one or two words is refused, or the bytes of the words come
\* after seven others.
LEMMA WordIsKept ==
  ASSUME NEW w \in Int, NEW q \in { 1, 2 }
  PROVE  LET r == CreateWriteMultipleHoldRegisters(SomeId, q, << w >>)
         IN  /\ w \notin Sendable => r = Refused
             /\ w \in Sendable =>
                  /\ r # Refused
                  /\ Kept(r) = IF q = 1 THEN BytesOf(w) ELSE BytesOf(w) \o << 0, 0 >>
                  /\ Kept(r) \in Seq(Byte) /\ Len(Kept(r)) = 2 * q
<1> DEFINE values == << w >>
           value(i) == IF i \in DOMAIN values THEN values[i] ELSE 0
           bad == \E i \in 1 .. q : OutOfRange(value(i))
           parts == [i \in 1 .. q |-> BytesOf(value(i))]
           head == << 1, 16 >> \o BytesOf(SomeId) \o BytesOf(q) \o << 2 * q >>
           kept == IF q = 1 THEN BytesOf(w) ELSE BytesOf(w) \o << 0, 0 >>
           r == CreateWriteMultipleHoldRegisters(SomeId, q, << w >>)
<1>1. value(1) = w /\ value(2) = 0
  OBVIOUS
<1>2. r = IF bad THEN Refused ELSE head \o FlattenSeq(parts)
  BY DEF CreateWriteMultipleHoldRegisters, OutOfRange
<1>3. bad <=> w \notin Sendable
  <2> HIDE DEF value
  <2>1. \A i \in 1 .. q : i = 1 \/ i = 2
    OBVIOUS
  <2>2. 1 \in 1 .. q
    OBVIOUS
  <2>3. ~OutOfRange(value(2))
    BY <1>1 DEF OutOfRange
  <2>4. OutOfRange(value(1)) <=> w \notin Sendable
    BY <1>1, Zenon DEF Sendable
  <2>5. QED
    BY <2>1, <2>2, <2>3, <2>4
<1>4. FlattenSeq(parts) = kept
  <2> HIDE DEF value
  <2>1. CASE q = 1
    <3>1. \A i \in 1 .. 1 : BytesOf(value(i)) = BytesOf(w)
      BY <1>1
    <3>2. parts = [i \in 1 .. 1 |-> BytesOf(w)]
      BY <2>1, <3>1
    <3>3. QED
      BY <2>1, <3>2, FlattenOne
  <2>2. CASE q = 2
    <3>1. BytesOf(0) = << 0, 0 >>
      BY DEF BytesOf
    <3>2. \A i \in 1 .. 2 : BytesOf(value(i)) = IF i = 1 THEN BytesOf(w) ELSE << 0, 0 >>
      BY <1>1, <3>1
    <3>3. parts = [i \in 1 .. 2 |-> IF i = 1 THEN BytesOf(w) ELSE << 0, 0 >>]
      BY <2>2, <3>2
    <3> HIDE DEF parts
    <3>4. FlattenSeq(parts) = BytesOf(w) \o << 0, 0 >>
      BY <3>3, FlattenTwo
    <3>5. QED
      BY <2>2, <3>4
  <2>3. QED
    BY <2>1, <2>2
<1>5. head \in Seq(Byte) /\ Len(head) = 7
  <2> DEFINE a == << 1, 16 >>
             b == BytesOf(SomeId)
             c == BytesOf(q)
             d == << 2 * q >>
  <2>1. a \in Seq(Byte) /\ Len(a) = 2 /\ d \in Seq(Byte) /\ Len(d) = 1
    BY DEF Byte
  <2>2. SomeId \in SixteenBits /\ q \in SixteenBits
    BY DEF SomeId, SixteenBits
  <2>3. b \in Seq(Byte) /\ Len(b) = 2 /\ c \in Seq(Byte) /\ Len(c) = 2
    BY <2>2, BytesOfType, Zenon
  <2> HIDE DEF a, b, c, d
  <2>4. a \o b \o c \o d \in Seq(Byte) /\ Len(a \o b \o c \o d) = 7
    BY <2>1, <2>3, HeaderLength
  <2>5. QED
    BY <2>4 DEF a, b, c, d
<1> HIDE DEF bad, parts, head, r
<1>6. ASSUME w \in Sendable PROVE kept \in Seq(Byte) /\ Len(kept) = 2 * q
  <2> DEFINE a == BytesOf(w)
             b == << 0, 0 >>
  <2>1. w \in SixteenBits
    BY <1>6, SendableIsWord, Zenon
  <2>2. a \in Seq(Byte) /\ Len(a) = 2
    BY <2>1, BytesOfType, Zenon
  <2>3. b \in Seq(Byte) /\ Len(b) = 2
    BY DEF Byte
  <2> HIDE DEF a, b
  <2>4. a \o b \in Seq(Byte) /\ Len(a \o b) = 4
    BY <2>2, <2>3, ConcatProperties
  <2>5. QED
    BY <2>2, <2>4 DEF a, b
<1> HIDE DEF kept
<1>7. ASSUME w \in Sendable
      PROVE  r # Refused /\ Kept(r) = kept /\ kept \in Seq(Byte) /\ Len(kept) = 2 * q
  <2>1. r = head \o kept
    BY <1>2, <1>3, <1>4, <1>7, Zenon
  <2>2. SubSeq(r, Len(head) + 1, Len(r)) = kept /\ Len(r) = Len(head) + Len(kept)
    <3>1. kept \in Seq(Byte) /\ head \in Seq(Byte)
      BY <1>5, <1>6, <1>7, Zenon
    <3>2. SubSeq(head \o kept, Len(head) + 1, Len(head \o kept)) = kept
      BY <3>1, AfterHeader, ZenonT(60)
    <3>3. Len(head \o kept) = Len(head) + Len(kept)
      BY <3>1, AfterHeader, ZenonT(60)
    <3>4. QED
      BY <2>1, <3>2, <3>3, Zenon
  <2>3. SubSeq(r, 8, Len(r)) = kept
    BY <1>5, <2>2
  <2>4. Len(r) # 0
    BY <1>5, <1>6, <1>7, <2>2
  <2>5. Len(Refused) = 0
    BY DEF Refused
  <2>6. QED
    BY <1>6, <1>7, <2>3, <2>4, <2>5, Zenon DEF Kept
<1>8. w \notin Sendable => r = Refused
  BY <1>2, <1>3, Zenon
<1>9. QED
  BY <1>7, <1>8, Zenon DEF r, kept

\* What the accessors find in an answer.
LEMMA WordOfAnswer ==
  ASSUME NEW t \in Seq(Byte), Len(t) \in { 2, 4 }
  PROVE  /\ U16At(Answer(t), 3) = Word16(t[1], t[2]) /\ Answer(t)[5] = t[2]
         /\ Len(t) = 4 =>
              U32At(Answer(t), 3) = << Word16(t[3], t[4]), Word16(t[1], t[2]) >>
<1> DEFINE h == << 1, 3, Len(t) >>
           a == Answer(t)
<1>1. h \in Seq(Byte) /\ Len(h) = 3
  BY DEF Byte
<1>2. \A i \in 1 .. Len(t) : a[3 + i] = t[i]
  <2> HIDE DEF h
  <2>1. \A i \in 1 .. Len(t) : (h \o t)[Len(h) + i] = t[i]
    BY <1>1, AfterHeader
  <2>2. h \o t = a
    BY DEF Answer, h
  <2> HIDE DEF a
  <2>3. QED
    BY <1>1, <2>1, <2>2
<1> HIDE DEF a, h
<1>3. /\ 1 \in 1 .. Len(t) /\ 2 \in 1 .. Len(t)
      /\ Len(t) = 4 => 3 \in 1 .. Len(t) /\ 4 \in 1 .. Len(t)
  <2>1. \A n \in { 2, 4 } :
          /\ 1 \in 1 .. n /\ 2 \in 1 .. n
          /\ n = 4 => 3 \in 1 .. n /\ 4 \in 1 .. n
    OBVIOUS
  <2>2. QED
    BY <2>1, Zenon
<1>4. 3 + 1 = 4 /\ 3 + 2 = 5 /\ 3 + 3 = 6 /\ 3 + 4 = 7
  OBVIOUS
<1>5. /\ a[3 + 1] = t[1] /\ a[3 + 2] = t[2]
      /\ Len(t) = 4 => a[3 + 3] = t[3] /\ a[3 + 4] = t[4]
  BY <1>2, <1>3, Zenon
<1>6. U16At(a, 3) = Word16(t[1], t[2]) /\ a[5] = t[2]
  BY <1>4, <1>5 DEF U16At, Word16
<1>7. Len(t) = 4 => U32At(a, 3) = << Word16(t[3], t[4]), Word16(t[1], t[2]) >>
  BY <1>4, <1>5 DEF U32At, Word16
<1>8. QED
  BY <1>6, <1>7 DEF a

\* The bytes of the message the property is about.
LEMMA FirstBytes ==
  ASSUME NEW s \in Seq(Byte)
  PROVE  /\ Len(s) = 2 => s[1] \in Byte /\ s[2] \in Byte
         /\ Len(s) = 4 => s[3] \in Byte /\ s[4] \in Byte
OBVIOUS

ReadSame(reply, size) == ParseModbusResponse(reply, size) = ValueAt(reply, 3, size)

LEMMA WordReadSame ==
  ASSUME NEW reply, NEW b, NEW w, U16At(reply, 3) = w, reply[5] = b, w % 256 = b
  PROVE  \A size \in { "u8", "s8", "u16", "s16" } : ReadSame(reply, size)
<1>1. reply[3 + 2] = b
  OBVIOUS
<1>2. ReadSame(reply, "u8") /\ ReadSame(reply, "s8")
  BY <1>1 DEF ParseModbusResponse, ValueAt, SetRawValue, Quantity, ReadSame
<1>3. ReadSame(reply, "u16") /\ ReadSame(reply, "s16")
  BY DEF ParseModbusResponse, ValueAt, SetRawValue, Quantity, ReadSame
<1>4. QED
  BY <1>2, <1>3

LEMMA DoubleReadSame ==
  ASSUME NEW reply, NEW w, NEW low, U32At(reply, 3) = << w, low >>
  PROVE  /\ ReadSame(reply, "s32")
         /\ ReadSame(reply, "u32") <=> Signed16(w) = w
<1>1. ReadSame(reply, "s32")
  BY DEF ParseModbusResponse, ValueAt, SetRawValue, Quantity, ReadSame
<1>2. ReadSame(reply, "u32") <=> << Signed16(w), low >> = << w, low >>
  BY DEF ParseModbusResponse, ValueAt, SetRawValue, Quantity, ReadSame, Signed16
<1>3. \A x, y : << x, low >> = << y, low >> <=> x = y
  OBVIOUS
<1>4. QED
  BY <1>1, <1>2, <1>3, Zenon

\* Every word and double word is read as the same number in the two ways, but for a
\* u32 from 2^31 on: valueAt() and setRawValue().
THEOREM ReadingsMatch == Spec => []ReadingsAgree
<1>1. MessageOK => ReadingsAgree
  <2> SUFFICES ASSUME MessageOK PROVE ReadingsAgree
    OBVIOUS
  <2>1. ASSUME Len(message) = 2
        PROVE  \A size \in { "u8", "s8", "u16", "s16" } : ReadSame(Answer(message), size)
    <3>1. message \in Seq(Byte) /\ message[1] \in Byte /\ message[2] \in Byte
      BY <2>1, FirstBytes, Zenon DEF MessageOK
    <3>2. Len(message) \in { 2, 4 }
      BY <2>1
    <3>3. /\ U16At(Answer(message), 3) = Word16(message[1], message[2])
          /\ Answer(message)[5] = message[2]
      BY <3>1, <3>2, WordOfAnswer, Zenon
    <3>4. Word16(message[1], message[2]) % 256 = message[2]
      BY <3>1, SameReading, SMT
    <3>5. QED
      BY <3>3, <3>4, WordReadSame, Zenon
  <2>2. ASSUME Len(message) = 4
        PROVE  /\ ReadSame(Answer(message), "s32")
               /\ ReadSame(Answer(message), "u32") <=> message[3] < 128
    <3>1. message \in Seq(Byte) /\ message[3] \in Byte /\ message[4] \in Byte
      BY <2>2, FirstBytes, Zenon DEF MessageOK
    <3>2. Len(message) \in { 2, 4 }
      BY <2>2
    <3>3. U32At(Answer(message), 3)
            = << Word16(message[3], message[4]), Word16(message[1], message[2]) >>
      BY <2>2, <3>1, <3>2, WordOfAnswer, Zenon
    <3>4. Signed16(Word16(message[3], message[4])) = Word16(message[3], message[4])
            <=> message[3] < 128
      BY <3>1, SameReading, SMT
    <3>5. QED
      BY <3>3, <3>4, DoubleReadSame, Zenon
  <2>3. QED
    BY <2>1, <2>2, Zenon DEF ReadingsAgree, ReadSame
<1>2. QED
  BY <1>1, MessageType, PTL

-----------------------------------------------------------------------------
(* The limits of a write method *)

LimitBy(y, s) == IF (y < 100 * s.bound) = s.least THEN 100 * s.bound ELSE y
Limit == [least : BOOLEAN, bound : Int]

LEMMA LimitByType == \A y \in Int, s \in Limit : LimitBy(y, s) \in Int
BY DEF LimitBy, Limit

LimitTrace(it, x, s) ==
  \A u \in SUBSET DOMAIN s :
    it[u] = IF u = {} THEN x ELSE LimitBy(it[u \ {Max(u)}], s[Max(u)])

\* Limited() is the last value of a trace of limits, one applied after the other.
LEMMA LimitedTrace ==
  ASSUME NEW x \in Int, NEW s \in Seq(Limit)
  PROVE  \E it : LimitTrace(it, x, s) /\ Limited(x, s) = it[DOMAIN s]
<1> DEFINE Eq(it) == it = [u \in SUBSET DOMAIN s |->
                            IF u = {} THEN x ELSE LimitBy(it[u \ {Max(u)}], s[Max(u)])]
           f == CHOOSE it : Eq(it)
<1>1. Limited(x, s) = f[DOMAIN s]
  BY DEF Limited, LimitBy, FoldLeft, MapThenFoldSet
<1>2. \E it : Eq(it)
  <2> DEFINE g == [p \in Int \X Limit |-> LimitBy(p[1], p[2])]
  <2>1. g \in [Int \X Limit -> Int]
    BY LimitByType
  <2>2. PICK n \in Nat : s \in [1 .. n -> Limit]
    OBVIOUS
  <2>3. PICK h : TraceOf(h, Int, g, x, n, s)
    <3> HIDE DEF g
    <3>1. QED
      BY <2>1, <2>2, TraceExists
  <2>4. ASSUME NEW u \in SUBSET (1 .. n)
        PROVE  h[u] = IF u = {} THEN x ELSE LimitBy(h[u \ {Max(u)}], s[Max(u)])
    <3>1. CASE u = {}
      BY <2>3, <3>1 DEF TraceOf
    <3>2. CASE u # {}
      <4>1. u \ {Max(u)} \in SUBSET (1 .. n) /\ Max(u) \in 1 .. n
        BY <2>3, <3>2 DEF TraceOf
      <4>2. h[u \ {Max(u)}] \in Int /\ s[Max(u)] \in Limit
        BY <2>2, <2>3, <4>1 DEF TraceOf
      <4>3. h[u] = g[<< h[u \ {Max(u)}], s[Max(u)] >>]
        BY <2>3, <3>2 DEF TraceOf
      <4>4. QED
        BY <3>2, <4>2, <4>3
    <3>3. QED
      BY <3>1, <3>2
  <2>5. Eq(h)
    BY <2>2, <2>3, <2>4 DEF TraceOf
  <2>6. QED
    BY <2>5
<1>3. Eq(f)
  <2> HIDE DEF Eq
  <2>1. QED
    BY <1>2
<1> HIDE DEF f
<1>4. LimitTrace(f, x, s)
  BY <1>3 DEF LimitTrace
<1>5. QED
  BY <1>1, <1>4

LEMMA LimitTraceStep ==
  ASSUME NEW it, NEW x, NEW s, LimitTrace(it, x, s), NEW m \in Nat,
         1 .. m + 1 \in SUBSET DOMAIN s
  PROVE  it[1 .. m + 1] = LimitBy(it[1 .. m], s[m + 1])
BY Segment, Zenon DEF LimitTrace

\* One limit, and two in their order.
LEMMA LimitedOnce ==
  ASSUME NEW x \in Int, NEW a \in Limit
  PROVE  Limited(x, << a >>) = LimitBy(x, a)
<1> DEFINE s == << a >>
<1>1. s \in Seq(Limit) /\ DOMAIN s = 1 .. 1 /\ s[1] = a
  OBVIOUS
<1> HIDE DEF s
<1>2. PICK it : LimitTrace(it, x, s) /\ Limited(x, s) = it[1 .. 1]
  BY <1>1, LimitedTrace
<1>3. 1 .. 0 = {} /\ {} \in SUBSET DOMAIN s /\ 1 .. 0 + 1 \in SUBSET DOMAIN s /\ 0 + 1 = 1
  BY <1>1
<1>4. it[1 .. 0] = x
  BY <1>2, <1>3 DEF LimitTrace
<1>5. it[1 .. 0 + 1] = LimitBy(it[1 .. 0], s[0 + 1])
  BY <1>2, <1>3, LimitTraceStep
<1>6. QED
  BY <1>1, <1>2, <1>3, <1>4, <1>5 DEF s

LEMMA LimitedTwice ==
  ASSUME NEW x \in Int, NEW a \in Limit, NEW b \in Limit
  PROVE  Limited(x, << a, b >>) = LimitBy(LimitBy(x, a), b)
<1> DEFINE s == << a, b >>
<1>1. s \in Seq(Limit) /\ DOMAIN s = 1 .. 2 /\ s[1] = a /\ s[2] = b
  OBVIOUS
<1> HIDE DEF s
<1>2. PICK it : LimitTrace(it, x, s) /\ Limited(x, s) = it[1 .. 2]
  BY <1>1, LimitedTrace
<1>3. /\ 1 .. 0 = {} /\ {} \in SUBSET DOMAIN s
  BY <1>1
<1>4. it[1 .. 0] = x
  BY <1>2, <1>3 DEF LimitTrace
<1>5. Max(1 .. 1) = 1 /\ (1 .. 1) \ {1} = 1 .. 0 /\ 1 .. 1 # {}
  <2>1. /\ Max(1 .. 0 + 1) = 0 + 1 /\ (1 .. 0 + 1) \ {0 + 1} = 1 .. 0
        /\ 1 .. 0 + 1 # {}
    BY Segment
  <2>2. QED
    BY <2>1
<1>6. Max(1 .. 2) = 2 /\ (1 .. 2) \ {2} = 1 .. 1 /\ 1 .. 2 # {}
  <2>1. /\ Max(1 .. 1 + 1) = 1 + 1 /\ (1 .. 1 + 1) \ {1 + 1} = 1 .. 1
        /\ 1 .. 1 + 1 # {}
    BY Segment
  <2>2. QED
    BY <2>1
<1>7. it[1 .. 1] = LimitBy(x, a) /\ it[1 .. 2] = LimitBy(it[1 .. 1], b)
  <2>1. 1 .. 1 \in SUBSET DOMAIN s /\ 1 .. 2 \in SUBSET DOMAIN s
    BY <1>1
  <2>2. it[1 .. 1] = LimitBy(it[1 .. 0], s[1])
    BY <1>2, <1>5, <2>1, Zenon DEF LimitTrace
  <2>3. it[1 .. 2] = LimitBy(it[1 .. 1], s[2])
    BY <1>2, <1>6, <2>1, Zenon DEF LimitTrace
  <2>4. QED
    BY <1>1, <1>4, <2>2, <2>3, Zenon
<1>8. QED
  BY <1>2, <1>7, Zenon DEF s

Clamped(x, a, b) == IF x < 100 * a THEN 100 * a ELSE IF x >= 100 * b THEN 100 * b ELSE x

LEMMA LimitByLeast ==
  ASSUME NEW x \in Int, NEW a \in Int
  PROVE  LimitBy(x, AtLeast(a)) = IF x < 100 * a THEN 100 * a ELSE x
<1>1. AtLeast(a).least = TRUE /\ AtLeast(a).bound = a
  BY DEF AtLeast
<1>2. CASE x < 100 * a
  BY <1>1, <1>2 DEF LimitBy
<1>3. CASE ~(x < 100 * a)
  BY <1>1, <1>3 DEF LimitBy
<1>4. QED
  BY <1>2, <1>3

LEMMA LimitByMost ==
  ASSUME NEW x \in Int, NEW b \in Int
  PROVE  LimitBy(x, AtMost(b)) = IF x < 100 * b THEN x ELSE 100 * b
<1>1. AtMost(b).least = FALSE /\ AtMost(b).bound = b
  BY DEF AtMost
<1>2. CASE x < 100 * b
  BY <1>1, <1>2 DEF LimitBy
<1>3. CASE ~(x < 100 * b)
  <2>1. (x < 100 * b) = FALSE
    BY <1>3
  <2>2. LimitBy(x, AtMost(b)) = 100 * b
    BY <1>1, <2>1 DEF LimitBy
  <2>3. QED
    BY <1>3, <2>2
<1>4. QED
  BY <1>2, <1>3

\* The two limits of most methods: between 100 * a and 100 * b.
LEMMA LimitedWithin ==
  ASSUME NEW x \in Int, NEW a \in Int, NEW b \in Int, a <= b
  PROVE  Limited(x, Within(a, b)) = Clamped(x, a, b)
<1>1. AtLeast(a) \in Limit /\ AtMost(b) \in Limit
  BY DEF AtLeast, AtMost, Limit
<1>2. Limited(x, << AtLeast(a), AtMost(b) >>) = LimitBy(LimitBy(x, AtLeast(a)), AtMost(b))
  BY <1>1, LimitedTwice
<1>3. LimitBy(LimitBy(x, AtLeast(a)), AtMost(b)) = Clamped(x, a, b)
  <2>1. LimitBy(x, AtLeast(a)) = IF x < 100 * a THEN 100 * a ELSE x
    BY LimitByLeast
  <2>2. LimitBy(x, AtLeast(a)) \in Int
    BY <2>1
  <2>3. LimitBy(LimitBy(x, AtLeast(a)), AtMost(b))
          = IF LimitBy(x, AtLeast(a)) < 100 * b THEN LimitBy(x, AtLeast(a)) ELSE 100 * b
    BY <2>2, LimitByMost
  <2>4. QED
    BY <2>1, <2>3 DEF Clamped
<1>4. QED
  BY <1>2, <1>3 DEF Within

-----------------------------------------------------------------------------
(* What a limited number is rounded to *)

Rounded(x, rounds) == (IF rounds THEN x + 50 ELSE x) \div 100

\* A number in tenths of a unit, in units of `step` tenths, is less than a step away.
Near(asked, raw, a, b, step) ==
  /\ raw \in Int /\ a <= raw /\ raw <= b
  /\ a * step <= asked /\ asked <= b * step =>
       1 - step <= asked - raw * step /\ asked - raw * step <= step - 1
  /\ asked < a * step => raw = a
  /\ asked > b * step => raw = b

LEMMA NearHundred ==
  ASSUME NEW asked \in Int, NEW a \in Int, NEW b \in Int, a <= b, NEW rounds \in BOOLEAN
  PROVE  Near(asked, Rounded(Clamped(asked * 1, a, b), rounds), a, b, 100)
<1>1. CASE rounds
  BY <1>1 DEF Near, Rounded, Clamped
<1>2. CASE ~rounds
  BY <1>2 DEF Near, Rounded, Clamped
<1>3. QED
  BY <1>1, <1>2

LEMMA NearTen ==
  ASSUME NEW asked \in Int, NEW a \in Int, NEW b \in Int, a <= b, NEW rounds \in BOOLEAN
  PROVE  Near(asked, Rounded(Clamped(asked * 10, a, b), rounds), a, b, 10)
<1>1. CASE rounds
  BY <1>1 DEF Near, Rounded, Clamped
<1>2. CASE ~rounds
  BY <1>2 DEF Near, Rounded, Clamped
<1>3. QED
  BY <1>1, <1>2

LEMMA NearOne ==
  ASSUME NEW asked \in Int, NEW a \in Int, NEW b \in Int, a <= b, NEW rounds \in BOOLEAN
  PROVE  Near(asked, Rounded(Clamped(asked * 100, a, b), rounds), a, b, 1)
<1>1. CASE rounds
  BY <1>1 DEF Near, Rounded, Clamped
<1>2. CASE ~rounds
  BY <1>2 DEF Near, Rounded, Clamped
<1>3. QED
  BY <1>1, <1>2

-----------------------------------------------------------------------------
(* What a caller reads of what was written *)

\* The offset of negative numbers in writeRegisterNow(), and the word that is sent.
Offset(size) == CASE size = "s8" -> 256 [] size = "s16" -> 65536 [] OTHER -> 0
Sent(value, size) == IF value < 0 THEN value + Offset(size) ELSE value

\* The numbers a register of one word keeps.
Fits(v, size) ==
  \/ size = "u8" /\ 0 <= v /\ v < 256
  \/ size = "s8" /\ -128 <= v /\ v < 128
  \/ size = "u16" /\ 0 <= v /\ v < 65535
  \/ size = "s16" /\ -32768 <= v /\ v < 32768 /\ v # -1

\* They are sent as one word, and setRawValue() makes the same number of it.
LEMMA FitsIsSent ==
  ASSUME NEW v \in Int, NEW size, Fits(v, size)
  PROVE  /\ Sent(v, size) \in Sendable /\ Quantity(size) = 1
         /\ SetRawValue(Sent(v, size), size) = v
<1>1. CASE size = "u8" /\ 0 <= v /\ v < 256
  <2>1. Sent(v, size) = v /\ v % 256 = v
    BY <1>1 DEF Sent
  <2>2. v \in Sendable
    BY <1>1 DEF Sendable, OutOfRange
  <2>3. QED
    BY <1>1, <2>1, <2>2 DEF SetRawValue, Quantity
<1>2. CASE size = "s8" /\ -128 <= v /\ v < 128
  <2> DEFINE w == IF v < 0 THEN v + 256 ELSE v
  <2>1. Sent(v, size) = w
    BY <1>2 DEF Sent, Offset
  <2>2. w \in Int /\ 0 <= w /\ w < 256
    BY <1>2
  <2>3. TwosComplement(w, 256) = v
    BY <1>2 DEF TwosComplement
  <2> HIDE DEF w
  <2>4. w \in Sendable /\ w % 256 = w
    BY <2>2 DEF Sendable, OutOfRange
  <2>5. QED
    BY <1>2, <2>1, <2>3, <2>4 DEF SetRawValue, Quantity
<1>3. CASE size = "u16" /\ 0 <= v /\ v < 65535
  <2>1. Sent(v, size) = v
    BY <1>3 DEF Sent
  <2>2. v \in Sendable
    BY <1>3 DEF Sendable, OutOfRange
  <2>3. QED
    BY <1>3, <2>1, <2>2 DEF SetRawValue, Quantity
<1>4. CASE size = "s16" /\ -32768 <= v /\ v < 32768 /\ v # -1
  <2> DEFINE w == IF v < 0 THEN v + 65536 ELSE v
  <2>1. Sent(v, size) = w
    BY <1>4 DEF Sent, Offset
  <2>2. w \in Int /\ 0 <= w /\ w < 65535
    BY <1>4
  <2>3. TwosComplement(w, 65536) = v
    BY <1>4 DEF TwosComplement
  <2> HIDE DEF w
  <2>4. w \in Sendable
    BY <2>2 DEF Sendable, OutOfRange
  <2>5. QED
    BY <1>4, <2>1, <2>3, <2>4 DEF SetRawValue, Quantity
<1>5. QED
  BY <1>1, <1>2, <1>3, <1>4 DEF Fits

LEMMA WriteSends ==
  ASSUME NEW v, NEW size
  PROVE  WriteRegisterNow(SomeId, v, size)
           = CreateWriteMultipleHoldRegisters(SomeId, Quantity(size), << Sent(v, size) >>)
BY DEF WriteRegisterNow, Sent, Offset

\* What does not fit into a word is refused.
LEMMA NotSent ==
  ASSUME NEW reg, NEW v, Sent(v, SizeOf(reg)) \in Int, Sent(v, SizeOf(reg)) \notin Sendable
  PROVE  ~Accepted(reg, v)
<1>1. Quantity(SizeOf(reg)) \in { 1, 2 }
  BY DEF Quantity
<1>2. CreateWriteMultipleHoldRegisters(
        SomeId, Quantity(SizeOf(reg)), << Sent(v, SizeOf(reg)) >>) = Refused
  BY <1>1, WordIsKept, Zenon
<1>3. QED
  BY <1>2, WriteSends, Zenon DEF Accepted

\* What the heat pump answers after a write to a register of one word, or of two.
LEMMA WordReadBack ==
  ASSUME NEW reg, NEW v, NEW w \in Sendable,
         w = Sent(v, SizeOf(reg)), Quantity(SizeOf(reg)) = 1
  PROVE  /\ Accepted(reg, v)
         /\ ParseModbusResponse(ReadBack(reg, v), SizeOf(reg)) = SetRawValue(w, SizeOf(reg))
<1> DEFINE r == WriteRegisterNow(SomeId, v, SizeOf(reg))
<1>1. r = CreateWriteMultipleHoldRegisters(SomeId, 1, << w >>)
  BY WriteSends, Zenon
<1>2. w \in Int /\ 1 \in { 1, 2 } /\ 2 * 1 = 2
  BY DEF Sendable
<1>3. r # Refused /\ Kept(r) = BytesOf(w) /\ Kept(r) \in Seq(Byte) /\ Len(Kept(r)) = 2 * 1
  BY <1>1, <1>2, WordIsKept, Zenon
<1>4. Len(Kept(r)) \in { 2, 4 }
  BY <1>3
<1>5. U16At(Answer(Kept(r)), 3) = Word16(Kept(r)[1], Kept(r)[2])
  BY <1>3, <1>4, WordOfAnswer, Zenon
<1>6. Word16(BytesOf(w)[1], BytesOf(w)[2]) = w
  <2>1. w \in SixteenBits
    BY SendableIsWord, Zenon
  <2>2. /\ BytesOf(w)[1] = w \div 256 /\ BytesOf(w)[2] = w % 256
        /\ 256 * (w \div 256) + (w % 256) = w
    BY <2>1, BytesOfType, BytesOfWord
  <2>3. QED
    BY <2>2 DEF Word16
<1>7. U16At(ReadBack(reg, v), 3) = w
  BY <1>3, <1>5, <1>6, Zenon DEF ReadBack
<1>8. Accepted(reg, v)
  BY <1>3, Zenon DEF Accepted
<1>9. Quantity(SizeOf(reg)) # 2
  OBVIOUS
<1>10. ParseModbusResponse(ReadBack(reg, v), SizeOf(reg)) = SetRawValue(w, SizeOf(reg))
  BY <1>7, <1>9, Zenon DEF ParseModbusResponse
<1>11. QED
  BY <1>8, <1>10

LEMMA DoubleReadBack ==
  ASSUME NEW reg, NEW v, NEW w \in Sendable,
         w = Sent(v, SizeOf(reg)), Quantity(SizeOf(reg)) = 2
  PROVE  /\ Accepted(reg, v)
         /\ ParseModbusResponse(ReadBack(reg, v), SizeOf(reg)) = << 0, w >>
<1> DEFINE r == WriteRegisterNow(SomeId, v, SizeOf(reg))
<1>1. r = CreateWriteMultipleHoldRegisters(SomeId, 2, << w >>)
  BY WriteSends, Zenon
<1>2. w \in Int /\ 2 \in { 1, 2 } /\ 2 * 2 = 4 /\ 2 # 1
  BY DEF Sendable
<1>3. /\ r # Refused /\ Kept(r) = BytesOf(w) \o << 0, 0 >>
      /\ Kept(r) \in Seq(Byte) /\ Len(Kept(r)) = 2 * 2
  BY <1>1, <1>2, WordIsKept, Zenon
<1>4. Len(Kept(r)) \in { 2, 4 } /\ Len(Kept(r)) = 4
  BY <1>3
<1>5. U32At(Answer(Kept(r)), 3)
        = << Word16(Kept(r)[3], Kept(r)[4]), Word16(Kept(r)[1], Kept(r)[2]) >>
  BY <1>3, <1>4, WordOfAnswer, Zenon
<1>6. w \in SixteenBits
  BY SendableIsWord, Zenon
<1>7. Word16(BytesOf(w)[1], BytesOf(w)[2]) = w
  <2>1. /\ BytesOf(w)[1] = w \div 256 /\ BytesOf(w)[2] = w % 256
        /\ 256 * (w \div 256) + (w % 256) = w
    BY <1>6, BytesOfType, BytesOfWord
  <2>2. QED
    BY <2>1 DEF Word16
<1>8. /\ Kept(r)[1] = BytesOf(w)[1] /\ Kept(r)[2] = BytesOf(w)[2]
      /\ Kept(r)[3] = 0 /\ Kept(r)[4] = 0
  <2> DEFINE b == BytesOf(w)
             z == << 0, 0 >>
  <2>1. b \in Seq(Byte) /\ Len(b) = 2
    BY <1>6, BytesOfType, Zenon
  <2>2. z \in Seq(Byte) /\ Len(z) = 2 /\ z[1] = 0 /\ z[2] = 0
    BY DEF Byte
  <2> HIDE DEF b, z
  <2>3. /\ \A i \in 1 .. Len(b) : (b \o z)[i] = b[i]
        /\ (b \o z)[Len(b) + 1] = z[1] /\ (b \o z)[Len(b) + 2] = z[2]
    BY <2>1, <2>2, JoinPair, Zenon
  <2>4. /\ (b \o z)[1] = b[1] /\ (b \o z)[2] = b[2]
        /\ (b \o z)[3] = 0 /\ (b \o z)[4] = 0
    <3>1. \A n : n = 2 => 1 \in 1 .. n /\ 2 \in 1 .. n /\ n + 1 = 3 /\ n + 2 = 4
      OBVIOUS
    <3>2. 1 \in 1 .. Len(b) /\ 2 \in 1 .. Len(b) /\ Len(b) + 1 = 3 /\ Len(b) + 2 = 4
      BY <2>1, <3>1, Zenon
    <3>3. QED
      BY <2>2, <2>3, <3>2, Zenon
  <2>5. QED
    BY <1>3, <2>4, Zenon DEF b, z
<1>9. Word16(0, 0) = 0
  BY DEF Word16
<1>10. U32At(ReadBack(reg, v), 3) = << 0, w >>
  BY <1>5, <1>7, <1>8, <1>9, Zenon DEF ReadBack
<1>11. SetRawValue(<< 0, w >>, SizeOf(reg)) = << 0, w >>
  <2>1. SizeOf(reg) \in { "u32", "s32" }
    BY <1>2 DEF Quantity
  <2>2. TwosComplement(0, 65536) = 0
    BY DEF TwosComplement
  <2>3. << 0, w >>[1] = 0 /\ << 0, w >>[2] = w
    OBVIOUS
  <2>4. QED
    BY <2>1, <2>2, <2>3 DEF SetRawValue
<1>12. Accepted(reg, v)
  BY <1>3, Zenon DEF Accepted
<1>13. ParseModbusResponse(ReadBack(reg, v), SizeOf(reg)) = << 0, w >>
  BY <1>10, <1>11, Zenon DEF ParseModbusResponse
<1>14. QED
  BY <1>12, <1>13

\* A number that fits is accepted and read back.
LEMMA NumberReadBack ==
  ASSUME NEW reg, NEW v \in Int, Fits(v, SizeOf(reg))
  PROVE  /\ Accepted(reg, v)
         /\ ParseModbusResponse(ReadBack(reg, v), SizeOf(reg)) = v
         /\ ReadNumber(reg, ReadBack(reg, v)) = v * Step(reg)
<1>1. /\ Sent(v, SizeOf(reg)) \in Sendable /\ Quantity(SizeOf(reg)) = 1
      /\ SetRawValue(Sent(v, SizeOf(reg)), SizeOf(reg)) = v
  BY FitsIsSent, Zenon
<1>2. Accepted(reg, v) /\ ParseModbusResponse(ReadBack(reg, v), SizeOf(reg)) = v
  BY <1>1, WordReadBack, Zenon
<1>3. QED
  BY <1>2, Zenon DEF ReadNumber

-----------------------------------------------------------------------------
(* The methods that write *)

\* What WrittenIsRead says of one of them.
ReadsWhatIsWritten(w, asked) ==
  LET raw == RawOf(w, asked)
      read == ReadNumber(w.reg, ReadBack(w.reg, raw))
  IN  IF ~Accepted(w.reg, raw)
      THEN \/ SizeOf(w.reg) = "s16" /\ raw = -1
           \/ w.reg = "regMaxSupplyDiff" /\ raw < 0
      ELSE /\ read = raw * Step(w.reg)
           /\ w.reg \in DOMAIN Documented =>
                LET low == 10 * Documented[w.reg][1]
                    high == 10 * Documented[w.reg][2]
                IN  /\ read \in low .. high
                    /\ asked \in low .. high =>
                         asked - read \in 1 - Step(w.reg) .. Step(w.reg) - 1
                    /\ asked < low => read = low
                    /\ asked > high => read = high

Steps == { 1, 10, 100 }

\* What it comes to in the numbers it is about.
InRange(asked, read, low, high, step) ==
  /\ read \in low .. high
  /\ asked \in low .. high => asked - read \in 1 - step .. step - 1
  /\ asked < low => read = low
  /\ asked > high => read = high

LEMMA NearIsRight ==
  ASSUME NEW asked \in Int, NEW raw, NEW a \in Int, NEW b \in Int, NEW step \in Steps,
         Near(asked, raw, a, b, step)
  PROVE  InRange(asked, raw * step, a * step, b * step, step)
<1>1. CASE step = 1
  BY <1>1 DEF Near, InRange
<1>2. CASE step = 10
  BY <1>2 DEF Near, InRange
<1>3. CASE step = 100
  BY <1>3 DEF Near, InRange
<1>4. QED
  BY <1>1, <1>2, <1>3 DEF Steps

\* Hundredths of a step in a tenth of the unit.
Scales(scale, step) ==
  \/ scale = 1 /\ step = 100
  \/ scale = 10 /\ step = 10
  \/ scale = 100 /\ step = 1

RangeOf(reg, a, b) ==
  reg \in DOMAIN Documented =>
    10 * Documented[reg][1] = a * Step(reg) /\ 10 * Documented[reg][2] = b * Step(reg)

Keeps(reg, a, b) ==
  \A v \in Int : a <= v /\ v <= b => Fits(v, SizeOf(reg)) \/ (SizeOf(reg) = "s16" /\ v = -1)

\* A method with the limits of Within, whose register keeps all numbers between them.
LEMMA WriterIsRight ==
  ASSUME NEW reg, NEW scale, NEW a \in Int, NEW b \in Int, a <= b,
         NEW asked \in Int, Scales(scale, Step(reg)), Keeps(reg, a, b), RangeOf(reg, a, b),
         NEW w, w.reg = reg, w.scale = scale, w.limits = Within(a, b), w.rounds \in BOOLEAN
  PROVE  ReadsWhatIsWritten(w, asked)
<1> DEFINE raw == RawOf(w, asked)
           rounds == w.rounds
<1>1. asked * scale \in Int
  BY DEF Scales
<1>2. raw = Rounded(Clamped(asked * scale, a, b), rounds)
  <2>1. Limited(asked * scale, Within(a, b)) = Clamped(asked * scale, a, b)
    BY <1>1, LimitedWithin
  <2>2. QED
    BY <2>1, Zenon DEF RawOf, Rounded
<1>3. Near(asked, raw, a, b, Step(reg))
  <2> HIDE DEF raw
  <2>1. CASE scale = 1 /\ Step(reg) = 100
    BY <1>2, <2>1, NearHundred
  <2>2. CASE scale = 10 /\ Step(reg) = 10
    BY <1>2, <2>2, NearTen
  <2>3. CASE scale = 100 /\ Step(reg) = 1
    BY <1>2, <2>3, NearOne
  <2>4. QED
    BY <2>1, <2>2, <2>3 DEF Scales
<1>4. Step(reg) \in Steps
  BY DEF Steps, Scales
<1> HIDE DEF raw
<1>5. raw \in Int /\ (Fits(raw, SizeOf(reg)) \/ (SizeOf(reg) = "s16" /\ raw = -1))
  BY <1>3, Zenon DEF Near, Keeps
<1>6. ASSUME Accepted(reg, raw)
      PROVE  ReadNumber(reg, ReadBack(reg, raw)) = raw * Step(reg)
  <2>1. CASE Fits(raw, SizeOf(reg))
    BY <1>5, <2>1, NumberReadBack, Zenon
  <2>2. CASE SizeOf(reg) = "s16" /\ raw = -1
    <3>1. Sent(raw, SizeOf(reg)) = 65535
      BY <2>2 DEF Sent, Offset
    <3>2. Sent(raw, SizeOf(reg)) \in Int /\ Sent(raw, SizeOf(reg)) \notin Sendable
      BY <3>1 DEF Sendable, OutOfRange
    <3>3. QED
      BY <1>6, <3>2, NotSent, Zenon
  <2>3. QED
    BY <1>5, <2>1, <2>2
<1>7. ASSUME ~Accepted(reg, raw) PROVE SizeOf(reg) = "s16" /\ raw = -1
  BY <1>5, <1>7, NumberReadBack, Zenon
<1>8. ASSUME reg \in DOMAIN Documented
      PROVE  LET low == 10 * Documented[reg][1]
                 high == 10 * Documented[reg][2]
                 read == raw * Step(reg)
             IN  /\ read \in low .. high
                 /\ asked \in low .. high => asked - read \in 1 - Step(reg) .. Step(reg) - 1
                 /\ asked < low => read = low
                 /\ asked > high => read = high
  <2> DEFINE low == 10 * Documented[reg][1]
             high == 10 * Documented[reg][2]
             read == raw * Step(reg)
  <2>1. low = a * Step(reg) /\ high = b * Step(reg)
    BY <1>8, Zenon DEF RangeOf
  <2>2. InRange(asked, read, a * Step(reg), b * Step(reg), Step(reg))
    BY <1>3, <1>4, NearIsRight, Zenon
  <2> HIDE DEF low, high, read
  <2>3. InRange(asked, read, low, high, Step(reg))
    BY <2>1, <2>2, Zenon
  <2>4. QED
    BY <2>3, Zenon DEF InRange, low, high, read
<1>9. QED
  BY <1>6, <1>7, <1>8, Zenon DEF ReadsWhatIsWritten, raw

-----------------------------------------------------------------------------
(* The table of the methods that write numbers *)

\* The size of a register holds the numbers from a to b; a tenth of its unit is `scale`
\* hundredths of a step, and if its range is documented it is that from a to b.
Holds(reg, scale, a, b) ==
  /\ a \in Int /\ b \in Int /\ a <= b
  /\ \/ SizeOf(reg) = "s8" /\ -128 <= a /\ b < 128
     \/ SizeOf(reg) = "u8" /\ 0 <= a /\ b < 256
     \/ SizeOf(reg) = "s16" /\ -32768 <= a /\ b < 32768
     \/ SizeOf(reg) = "u16" /\ 0 <= a /\ b < 65535
  /\ Scales(scale, Step(reg))
  /\ RangeOf(reg, a, b)

\* Such a method is right, whether it rounds or not.
LEMMA HeldIsRight ==
  ASSUME NEW asked \in Int
  PROVE  \A reg, scale, a, b : Holds(reg, scale, a, b) =>
           /\ ReadsWhatIsWritten(Writes(reg, scale, Within(a, b)), asked)
           /\ ReadsWhatIsWritten(WritesUnrounded(reg, scale, Within(a, b)), asked)
<1> SUFFICES ASSUME NEW reg, NEW scale, NEW a, NEW b, Holds(reg, scale, a, b)
             PROVE  /\ ReadsWhatIsWritten(Writes(reg, scale, Within(a, b)), asked)
                    /\ ReadsWhatIsWritten(WritesUnrounded(reg, scale, Within(a, b)), asked)
  BY Zenon
<1>1. a \in Int /\ b \in Int /\ a <= b /\ Scales(scale, Step(reg)) /\ RangeOf(reg, a, b)
  BY DEF Holds
<1>2. Keeps(reg, a, b)
  BY DEF Holds, Keeps, Fits
<1> DEFINE limits == Within(a, b)
<1>3. ReadsWhatIsWritten(Writes(reg, scale, limits), asked)
  <2> DEFINE w == Writes(reg, scale, limits)
  <2>1. w.reg = reg /\ w.scale = scale /\ w.limits = limits /\ w.rounds = TRUE
    <3> HIDE DEF limits
    <3>1. QED
      BY Zenon DEF Writes
  <2> HIDE DEF w
  <2>2. w.rounds \in BOOLEAN
    BY <2>1, Zenon
  <2>3. ReadsWhatIsWritten(w, asked)
    BY <1>1, <1>2, <2>1, <2>2, WriterIsRight, Zenon
  <2>4. QED
    BY <2>3 DEF w
<1>4. ReadsWhatIsWritten(WritesUnrounded(reg, scale, limits), asked)
  <2> DEFINE w == WritesUnrounded(reg, scale, limits)
  <2>1. w.reg = reg /\ w.scale = scale /\ w.limits = limits /\ w.rounds = FALSE
    <3> HIDE DEF limits
    <3>1. QED
      BY Zenon DEF WritesUnrounded
  <2> HIDE DEF w
  <2>2. w.rounds \in BOOLEAN
    BY <2>1, Zenon
  <2>3. ReadsWhatIsWritten(w, asked)
    BY <1>1, <1>2, <2>1, <2>2, WriterIsRight, Zenon
  <2>4. QED
    BY <2>3 DEF w
<1>5. QED
  BY <1>3, <1>4, Zenon

\* The register table: sizes, steps and documented ranges of what is written.
LEMMA Sizes ==
  /\ \A r \in { "degreeMinutes", "supplyMinS1", "supplyMaxS1", 
          "dmStartHeating", "addHeatingStep", "addHeatingMaxPower", 
          "stopTempHeating", "stopTempAddHeating", 
          "dmDiffStartAddHeating", "regMinCompFrequ", 
          "regMaxCompFrequ" } :
       SizeOf(r) = "s16"
  /\ \A r \in { "heatCurveS1", "heatOffsetS1" } :
       SizeOf(r) = "s8"
  /\ \A r \in { "cutOffFrequStart1", "cutOffFrequStart2", 
          "cutOffFrequStop1", "cutOffFrequStop2", "regMaxSupplyDiff", 
          "operationalMode", "supplyPumpMode", "brinePumpMode", 
          "allowHeating", "allowAdditiveHeating" } :
       SizeOf(r) = "u8"
  /\ \A r \in { "addHeatingFuse" } :
       SizeOf(r) = "u16"
  /\ \A r \in CurvePoints : SizeOf(r) = "s8"
<1>1. \A r \in { "degreeMinutes", "supplyMinS1", "supplyMaxS1", 
          "dmStartHeating", "addHeatingStep", "addHeatingMaxPower", 
          "stopTempHeating", "stopTempAddHeating", 
          "dmDiffStartAddHeating", "regMinCompFrequ", 
          "regMaxCompFrequ" } :
       SizeOf(r) = "s16"
  BY DEF SizeOf, Registers8, Registers16, Registers32, CurvePoints
<1>2. \A r \in { "heatCurveS1", "heatOffsetS1" } :
       SizeOf(r) = "s8"
  BY DEF SizeOf, Registers8, Registers16, Registers32, CurvePoints
<1>3. \A r \in { "cutOffFrequStart1", "cutOffFrequStart2", 
          "cutOffFrequStop1", "cutOffFrequStop2", "regMaxSupplyDiff", 
          "operationalMode", "supplyPumpMode", "brinePumpMode", 
          "allowHeating", "allowAdditiveHeating" } :
       SizeOf(r) = "u8"
  BY DEF SizeOf, Registers8, Registers16, Registers32, CurvePoints
<1>4. \A r \in { "addHeatingFuse" } :
       SizeOf(r) = "u16"
  BY DEF SizeOf, Registers8, Registers16, Registers32, CurvePoints
<1>5. \A r \in CurvePoints : SizeOf(r) = "s8"
  BY DEF SizeOf, Registers8, Registers16, Registers32, CurvePoints
<1>6. QED
  BY <1>1, <1>2, <1>3, <1>4, <1>5

LEMMA Steppings ==
  /\ \A r \in { "degreeMinutes", "supplyMinS1", "supplyMaxS1", 
          "stopTempHeating", "stopTempAddHeating", "regMaxSupplyDiff" } :
       Step(r) = 1
  /\ \A r \in { "heatCurveS1", "heatOffsetS1", "dmStartHeating", 
          "addHeatingStep", "addHeatingFuse", 
          "dmDiffStartAddHeating", "cutOffFrequStart1", 
          "cutOffFrequStart2", "cutOffFrequStop1", 
          "cutOffFrequStop2", "regMinCompFrequ", "regMaxCompFrequ" } :
       Step(r) = 10
  /\ \A r \in { "addHeatingMaxPower" } :
       Step(r) = 100
  /\ \A r \in CurvePoints : Step(r) = 10
<1>1. \A r \in { "degreeMinutes", "supplyMinS1", "supplyMaxS1", 
          "stopTempHeating", "stopTempAddHeating", "regMaxSupplyDiff" } :
       Step(r) = 1
  BY DEF Step, Registers32, CurvePoints
<1>2. \A r \in { "heatCurveS1", "heatOffsetS1", "dmStartHeating", 
          "addHeatingStep", "addHeatingFuse", 
          "dmDiffStartAddHeating", "cutOffFrequStart1", 
          "cutOffFrequStart2", "cutOffFrequStop1", 
          "cutOffFrequStop2", "regMinCompFrequ", "regMaxCompFrequ" } :
       Step(r) = 10
  BY DEF Step, Registers32, CurvePoints
<1>3. \A r \in { "addHeatingMaxPower" } :
       Step(r) = 100
  BY DEF Step, Registers32, CurvePoints
<1>4. \A r \in CurvePoints : Step(r) = 10
  BY DEF Step, Registers32, CurvePoints
<1>5. QED
  BY <1>1, <1>2, <1>3, <1>4

LEMMA DocumentedRanges ==
  /\ Documented["heatCurveS1"] = << 0, 15 >>
  /\ Documented["heatOffsetS1"] = << -10, 10 >>
  /\ Documented["supplyMinS1"] = << 5, 70 >>
  /\ Documented["supplyMaxS1"] = << 5, 80 >>
  /\ Documented["addHeatingMaxPower"] = << 0, 6000 >>
  /\ Documented["addHeatingFuse"] = << 0, 400 >>
  /\ Documented["stopTempHeating"] = << -20, 40 >>
  /\ Documented["stopTempAddHeating"] = << -25, 40 >>
  /\ Documented["cutOffFrequStart1"] = << 17, 115 >>
  /\ Documented["cutOffFrequStart2"] = << 17, 115 >>
  /\ Documented["cutOffFrequStop1"] = << 22, 120 >>
  /\ Documented["cutOffFrequStop2"] = << 22, 120 >>
  /\ \A r \in { "degreeMinutes", "dmStartHeating", "addHeatingStep", 
          "dmDiffStartAddHeating", "regMaxSupplyDiff", 
          "regMinCompFrequ", "regMaxCompFrequ" } :
       r \notin DOMAIN Documented
  /\ \A r \in CurvePoints : Documented[r] = << 5, 80 >>
<1>1. Documented["heatCurveS1"] = << 0, 15 >>
  BY DEF Documented, Ranges, CurvePoints
<1>2. Documented["heatOffsetS1"] = << -10, 10 >>
  BY DEF Documented, Ranges, CurvePoints
<1>3. Documented["supplyMinS1"] = << 5, 70 >>
  BY DEF Documented, Ranges, CurvePoints
<1>4. Documented["supplyMaxS1"] = << 5, 80 >>
  BY DEF Documented, Ranges, CurvePoints
<1>5. Documented["addHeatingMaxPower"] = << 0, 6000 >>
  BY DEF Documented, Ranges, CurvePoints
<1>6. Documented["addHeatingFuse"] = << 0, 400 >>
  BY DEF Documented, Ranges, CurvePoints
<1>7. Documented["stopTempHeating"] = << -20, 40 >>
  BY DEF Documented, Ranges, CurvePoints
<1>8. Documented["stopTempAddHeating"] = << -25, 40 >>
  BY DEF Documented, Ranges, CurvePoints
<1>9. Documented["cutOffFrequStart1"] = << 17, 115 >>
  BY DEF Documented, Ranges, CurvePoints
<1>10. Documented["cutOffFrequStart2"] = << 17, 115 >>
  BY DEF Documented, Ranges, CurvePoints
<1>11. Documented["cutOffFrequStop1"] = << 22, 120 >>
  BY DEF Documented, Ranges, CurvePoints
<1>12. Documented["cutOffFrequStop2"] = << 22, 120 >>
  BY DEF Documented, Ranges, CurvePoints
<1>13. \A r \in { "degreeMinutes", "dmStartHeating", "addHeatingStep", 
          "dmDiffStartAddHeating", "regMaxSupplyDiff", 
          "regMinCompFrequ", "regMaxCompFrequ" } :
       r \notin DOMAIN Documented
  BY DEF Documented, Ranges, CurvePoints
<1>14. \A r \in CurvePoints : Documented[r] = << 5, 80 >>
  BY DEF Documented, Ranges, CurvePoints
<1>15. QED
  BY <1>1, <1>2, <1>3, <1>4, <1>5, <1>6, <1>7, <1>8, <1>9, <1>10, <1>11, <1>12, <1>13, <1>14

\* Every method with the limits of Within suits the size and the range of its register.
LEMMA TableHolds ==
  /\ Holds("degreeMinutes", 100, -30000, 30000)
  /\ Holds("heatCurveS1", 10, 0, 15)
  /\ Holds("heatOffsetS1", 10, -10, 10)
  /\ Holds("supplyMinS1", 100, 50, 700)
  /\ Holds("supplyMaxS1", 100, 50, 800)
  /\ Holds("dmStartHeating", 10, -1000, 30)
  /\ Holds("addHeatingStep", 10, -32768, 32767)
  /\ Holds("addHeatingMaxPower", 1, 0, 600)
  /\ Holds("addHeatingFuse", 10, 0, 400)
  /\ Holds("stopTempHeating", 100, -200, 400)
  /\ Holds("stopTempAddHeating", 100, -250, 400)
  /\ Holds("dmDiffStartAddHeating", 10, 100, 400)
  /\ Holds("cutOffFrequStart1", 10, 17, 115)
  /\ Holds("cutOffFrequStart2", 10, 17, 115)
  /\ Holds("cutOffFrequStop1", 10, 22, 120)
  /\ Holds("cutOffFrequStop2", 10, 22, 120)
  /\ \A p \in CurvePoints : Holds(p, 10, 5, 80)
<1>1. Holds("degreeMinutes", 100, -30000, 30000)
  <2>1. /\ SizeOf("degreeMinutes") = "s16" /\ Step("degreeMinutes") = 1
        /\ "degreeMinutes" \notin DOMAIN Documented
    BY Sizes, Steppings, DocumentedRanges
  <2>2. QED
    BY <2>1 DEF Holds, Scales, RangeOf
<1>2. Holds("heatCurveS1", 10, 0, 15)
  <2>1. /\ SizeOf("heatCurveS1") = "s8" /\ Step("heatCurveS1") = 10
        /\ Documented["heatCurveS1"] = << 0, 15 >>
    BY Sizes, Steppings, DocumentedRanges
  <2>2. QED
    BY <2>1 DEF Holds, Scales, RangeOf
<1>3. Holds("heatOffsetS1", 10, -10, 10)
  <2>1. /\ SizeOf("heatOffsetS1") = "s8" /\ Step("heatOffsetS1") = 10
        /\ Documented["heatOffsetS1"] = << -10, 10 >>
    BY Sizes, Steppings, DocumentedRanges
  <2>2. QED
    BY <2>1 DEF Holds, Scales, RangeOf
<1>4. Holds("supplyMinS1", 100, 50, 700)
  <2>1. /\ SizeOf("supplyMinS1") = "s16" /\ Step("supplyMinS1") = 1
        /\ Documented["supplyMinS1"] = << 5, 70 >>
    BY Sizes, Steppings, DocumentedRanges
  <2>2. QED
    BY <2>1 DEF Holds, Scales, RangeOf
<1>5. Holds("supplyMaxS1", 100, 50, 800)
  <2>1. /\ SizeOf("supplyMaxS1") = "s16" /\ Step("supplyMaxS1") = 1
        /\ Documented["supplyMaxS1"] = << 5, 80 >>
    BY Sizes, Steppings, DocumentedRanges
  <2>2. QED
    BY <2>1 DEF Holds, Scales, RangeOf
<1>6. Holds("dmStartHeating", 10, -1000, 30)
  <2>1. /\ SizeOf("dmStartHeating") = "s16" /\ Step("dmStartHeating") = 10
        /\ "dmStartHeating" \notin DOMAIN Documented
    BY Sizes, Steppings, DocumentedRanges
  <2>2. QED
    BY <2>1 DEF Holds, Scales, RangeOf
<1>7. Holds("addHeatingStep", 10, -32768, 32767)
  <2>1. /\ SizeOf("addHeatingStep") = "s16" /\ Step("addHeatingStep") = 10
        /\ "addHeatingStep" \notin DOMAIN Documented
    BY Sizes, Steppings, DocumentedRanges
  <2>2. QED
    BY <2>1 DEF Holds, Scales, RangeOf
<1>8. Holds("addHeatingMaxPower", 1, 0, 600)
  <2>1. /\ SizeOf("addHeatingMaxPower") = "s16" /\ Step("addHeatingMaxPower") = 100
        /\ Documented["addHeatingMaxPower"] = << 0, 6000 >>
    BY Sizes, Steppings, DocumentedRanges
  <2>2. QED
    BY <2>1 DEF Holds, Scales, RangeOf
<1>9. Holds("addHeatingFuse", 10, 0, 400)
  <2>1. /\ SizeOf("addHeatingFuse") = "u16" /\ Step("addHeatingFuse") = 10
        /\ Documented["addHeatingFuse"] = << 0, 400 >>
    BY Sizes, Steppings, DocumentedRanges
  <2>2. QED
    BY <2>1 DEF Holds, Scales, RangeOf
<1>10. Holds("stopTempHeating", 100, -200, 400)
  <2>1. /\ SizeOf("stopTempHeating") = "s16" /\ Step("stopTempHeating") = 1
        /\ Documented["stopTempHeating"] = << -20, 40 >>
    BY Sizes, Steppings, DocumentedRanges
  <2>2. QED
    BY <2>1 DEF Holds, Scales, RangeOf
<1>11. Holds("stopTempAddHeating", 100, -250, 400)
  <2>1. /\ SizeOf("stopTempAddHeating") = "s16" /\ Step("stopTempAddHeating") = 1
        /\ Documented["stopTempAddHeating"] = << -25, 40 >>
    BY Sizes, Steppings, DocumentedRanges
  <2>2. QED
    BY <2>1 DEF Holds, Scales, RangeOf
<1>12. Holds("dmDiffStartAddHeating", 10, 100, 400)
  <2>1. /\ SizeOf("dmDiffStartAddHeating") = "s16" /\ Step("dmDiffStartAddHeating") = 10
        /\ "dmDiffStartAddHeating" \notin DOMAIN Documented
    BY Sizes, Steppings, DocumentedRanges
  <2>2. QED
    BY <2>1 DEF Holds, Scales, RangeOf
<1>13. Holds("cutOffFrequStart1", 10, 17, 115)
  <2>1. /\ SizeOf("cutOffFrequStart1") = "u8" /\ Step("cutOffFrequStart1") = 10
        /\ Documented["cutOffFrequStart1"] = << 17, 115 >>
    BY Sizes, Steppings, DocumentedRanges
  <2>2. QED
    BY <2>1 DEF Holds, Scales, RangeOf
<1>14. Holds("cutOffFrequStart2", 10, 17, 115)
  <2>1. /\ SizeOf("cutOffFrequStart2") = "u8" /\ Step("cutOffFrequStart2") = 10
        /\ Documented["cutOffFrequStart2"] = << 17, 115 >>
    BY Sizes, Steppings, DocumentedRanges
  <2>2. QED
    BY <2>1 DEF Holds, Scales, RangeOf
<1>15. Holds("cutOffFrequStop1", 10, 22, 120)
  <2>1. /\ SizeOf("cutOffFrequStop1") = "u8" /\ Step("cutOffFrequStop1") = 10
        /\ Documented["cutOffFrequStop1"] = << 22, 120 >>
    BY Sizes, Steppings, DocumentedRanges
  <2>2. QED
    BY <2>1 DEF Holds, Scales, RangeOf
<1>16. Holds("cutOffFrequStop2", 10, 22, 120)
  <2>1. /\ SizeOf("cutOffFrequStop2") = "u8" /\ Step("cutOffFrequStop2") = 10
        /\ Documented["cutOffFrequStop2"] = << 22, 120 >>
    BY Sizes, Steppings, DocumentedRanges
  <2>2. QED
    BY <2>1 DEF Holds, Scales, RangeOf
<1>17. \A p \in CurvePoints : Holds(p, 10, 5, 80)
  BY Sizes, Steppings, DocumentedRanges DEF Holds, Scales, RangeOf
<1>18. QED
  BY <1>1, <1>2, <1>3, <1>4, <1>5, <1>6, <1>7, <1>8, <1>9, <1>10, <1>11, <1>12,
     <1>13, <1>14, <1>15, <1>16, <1>17

-----------------------------------------------------------------------------
(* All methods that write *)

\* regMaxSupplyDiff has an upper limit only, and the two for the compressor apply an
\* upper limit below their lower one, so that the result is always the lower one.
LEMMA HeatWritersRight ==
  ASSUME NEW asked \in Int
  PROVE  \A w \in HeatWriters : ReadsWhatIsWritten(w, asked)
<1>1. ReadsWhatIsWritten(Writes("degreeMinutes", 100, Within(-30000, 30000)), asked)
  <2>1. Holds("degreeMinutes", 100, -30000, 30000)
    BY TableHolds
  <2>2. QED
    BY <2>1, HeldIsRight
<1>2. ReadsWhatIsWritten(WritesUnrounded("heatCurveS1", 10, Within(0, 15)), asked)
  <2>1. Holds("heatCurveS1", 10, 0, 15)
    BY TableHolds
  <2>2. QED
    BY <2>1, HeldIsRight
<1>3. ReadsWhatIsWritten(WritesUnrounded("heatOffsetS1", 10, Within(-10, 10)), asked)
  <2>1. Holds("heatOffsetS1", 10, -10, 10)
    BY TableHolds
  <2>2. QED
    BY <2>1, HeldIsRight
<1>4. ReadsWhatIsWritten(Writes("supplyMinS1", 100, Within(50, 700)), asked)
  <2>1. Holds("supplyMinS1", 100, 50, 700)
    BY TableHolds
  <2>2. QED
    BY <2>1, HeldIsRight
<1>5. ReadsWhatIsWritten(Writes("supplyMaxS1", 100, Within(50, 800)), asked)
  <2>1. Holds("supplyMaxS1", 100, 50, 800)
    BY TableHolds
  <2>2. QED
    BY <2>1, HeldIsRight
<1>6. ReadsWhatIsWritten(Writes("regMaxSupplyDiff", 100, << AtMost(0) >>), asked)
  <2> DEFINE w == Writes("regMaxSupplyDiff", 100, << AtMost(0) >>)
             raw == RawOf(w, asked)
  <2>1. /\ w.reg = "regMaxSupplyDiff" /\ w.scale = 100 /\ w.limits = << AtMost(0) >>
        /\ w.rounds = TRUE
    BY DEF Writes
  <2>2. /\ SizeOf("regMaxSupplyDiff") = "u8" /\ "regMaxSupplyDiff" \notin DOMAIN Documented
        /\ Step("regMaxSupplyDiff") = 1
    BY Sizes, DocumentedRanges, Steppings
  <2>3. Limited(asked * 100, << AtMost(0) >>)
          = IF asked * 100 < 100 * 0 THEN asked * 100 ELSE 100 * 0
    <3>1. AtMost(0) \in Limit /\ asked * 100 \in Int /\ 0 \in Int
      BY DEF AtMost, Limit
    <3>2. QED
      BY <3>1, LimitedOnce, LimitByMost
  <2> HIDE DEF w
  <2>4. raw = (Limited(asked * 100, << AtMost(0) >>) + 50) \div 100
    BY <2>1 DEF RawOf
  <2>5. raw \in Int /\ raw <= 0
    BY <2>3, <2>4
  <2> HIDE DEF raw
  <2>6. CASE raw = 0
    <3>1. Fits(raw, SizeOf("regMaxSupplyDiff"))
      BY <2>2, <2>6 DEF Fits
    <3>2. /\ Accepted("regMaxSupplyDiff", raw)
          /\ ReadNumber("regMaxSupplyDiff", ReadBack("regMaxSupplyDiff", raw))
               = raw * Step("regMaxSupplyDiff")
      BY <2>5, <3>1, NumberReadBack, SMT
    <3>3. QED
      BY <2>1, <2>2, <3>2, Zenon DEF ReadsWhatIsWritten, w, raw
  <2>7. CASE raw < 0
    <3>1. Sent(raw, SizeOf("regMaxSupplyDiff")) = raw
      BY <2>2, <2>5, <2>7 DEF Sent, Offset
    <3>2. raw \notin Sendable
      BY <2>7 DEF Sendable, OutOfRange
    <3>3. ~Accepted("regMaxSupplyDiff", raw)
      BY <2>5, <3>1, <3>2, NotSent, Zenon
    <3>4. QED
      BY <2>1, <2>7, <3>3, Zenon DEF ReadsWhatIsWritten, w, raw
  <2>8. QED
    BY <2>5, <2>6, <2>7 DEF w
<1>7. ASSUME NEW reg, SizeOf(reg) = "s16", reg \notin DOMAIN Documented,
             NEW a \in Int, NEW b \in Int, a <= b, 0 <= b, b < 32768
      PROVE  ReadsWhatIsWritten(Writes(reg, 10, << AtMost(a), AtLeast(b) >>), asked)
  <2> DEFINE w == Writes(reg, 10, << AtMost(a), AtLeast(b) >>)
             raw == RawOf(w, asked)
             x == asked * 10
  <2>1. /\ w.reg = reg /\ w.scale = 10 /\ w.limits = << AtMost(a), AtLeast(b) >>
        /\ w.rounds = TRUE
    BY DEF Writes
  <2>2. x \in Int
    OBVIOUS
  <2>3. Limited(x, << AtMost(a), AtLeast(b) >>) = 100 * b
    <3>1. AtMost(a) \in Limit /\ AtLeast(b) \in Limit
      BY DEF AtMost, AtLeast, Limit
    <3> HIDE DEF x
    <3>2. Limited(x, << AtMost(a), AtLeast(b) >>) = LimitBy(LimitBy(x, AtMost(a)), AtLeast(b))
      BY <2>2, <3>1, LimitedTwice
    <3>3. LimitBy(x, AtMost(a)) = IF x < 100 * a THEN x ELSE 100 * a
      BY <2>2, LimitByMost
    <3>4. LimitBy(x, AtMost(a)) \in Int /\ LimitBy(x, AtMost(a)) <= 100 * b
      BY <1>7, <2>2, <3>3
    <3>5. LimitBy(LimitBy(x, AtMost(a)), AtLeast(b))
            = IF LimitBy(x, AtMost(a)) < 100 * b THEN 100 * b ELSE LimitBy(x, AtMost(a))
      BY <3>4, LimitByLeast
    <3>6. QED
      BY <3>2, <3>4, <3>5
  <2> HIDE DEF w
  <2>4. raw = (100 * b + 50) \div 100
    BY <2>1, <2>3 DEF RawOf
  <2>5. raw = b
    BY <2>4
  <2> HIDE DEF raw
  <2>6. Fits(raw, SizeOf(reg))
    BY <1>7, <2>5 DEF Fits
  <2>7. Accepted(reg, raw) /\ ReadNumber(reg, ReadBack(reg, raw)) = raw * Step(reg)
    BY <2>5, <2>6, NumberReadBack, Zenon
  <2>8. ReadsWhatIsWritten(w, asked)
    <3>1. w.reg = reg /\ reg \notin DOMAIN Documented
      BY <1>7, <2>1
    <3>2. QED
      BY <2>7, <3>1, Zenon DEF ReadsWhatIsWritten, raw
  <2>9. QED
    BY <2>8 DEF w
<1>8. ReadsWhatIsWritten(Writes("regMinCompFrequ", 10, << AtMost(17), AtLeast(90) >>), asked)
  <2>1. SizeOf("regMinCompFrequ") = "s16" /\ "regMinCompFrequ" \notin DOMAIN Documented
    BY Sizes, DocumentedRanges
  <2>2. QED
    BY <1>7, <2>1
<1>9. ReadsWhatIsWritten(Writes("regMaxCompFrequ", 10, << AtMost(20), AtLeast(120) >>), asked)
  <2>1. SizeOf("regMaxCompFrequ") = "s16" /\ "regMaxCompFrequ" \notin DOMAIN Documented
    BY Sizes, DocumentedRanges
  <2>2. QED
    BY <1>7, <2>1
<1>10. ASSUME NEW p \in CurvePoints
       PROVE  ReadsWhatIsWritten(Writes(p, 10, Within(5, 80)), asked)
  <2>1. Holds(p, 10, 5, 80)
    BY TableHolds
  <2>2. QED
    BY <2>1, HeldIsRight
<1>11. QED
  BY <1>1, <1>2, <1>3, <1>4, <1>5, <1>6, <1>8, <1>9, <1>10 DEF HeatWriters

LEMMA LimitWritersRight ==
  ASSUME NEW asked \in Int
  PROVE  \A w \in LimitWriters : ReadsWhatIsWritten(w, asked)
<1>1. ReadsWhatIsWritten(Writes("dmStartHeating", 10, Within(-1000, 30)), asked)
  <2>1. Holds("dmStartHeating", 10, -1000, 30)
    BY TableHolds
  <2>2. QED
    BY <2>1, HeldIsRight
<1>2. ReadsWhatIsWritten(Writes("addHeatingStep", 10, Within(-32768, 32767)), asked)
  <2>1. Holds("addHeatingStep", 10, -32768, 32767)
    BY TableHolds
  <2>2. QED
    BY <2>1, HeldIsRight
<1>3. ReadsWhatIsWritten(Writes("addHeatingMaxPower", 1, Within(0, 600)), asked)
  <2>1. Holds("addHeatingMaxPower", 1, 0, 600)
    BY TableHolds
  <2>2. QED
    BY <2>1, HeldIsRight
<1>4. ReadsWhatIsWritten(Writes("addHeatingFuse", 10, Within(0, 400)), asked)
  <2>1. Holds("addHeatingFuse", 10, 0, 400)
    BY TableHolds
  <2>2. QED
    BY <2>1, HeldIsRight
<1>5. ReadsWhatIsWritten(Writes("stopTempHeating", 100, Within(-200, 400)), asked)
  <2>1. Holds("stopTempHeating", 100, -200, 400)
    BY TableHolds
  <2>2. QED
    BY <2>1, HeldIsRight
<1>6. ReadsWhatIsWritten(Writes("stopTempAddHeating", 100, Within(-250, 400)), asked)
  <2>1. Holds("stopTempAddHeating", 100, -250, 400)
    BY TableHolds
  <2>2. QED
    BY <2>1, HeldIsRight
<1>7. ReadsWhatIsWritten(Writes("dmDiffStartAddHeating", 10, Within(100, 400)), asked)
  <2>1. Holds("dmDiffStartAddHeating", 10, 100, 400)
    BY TableHolds
  <2>2. QED
    BY <2>1, HeldIsRight
<1>8. ReadsWhatIsWritten(Writes("cutOffFrequStart1", 10, Within(17, 115)), asked)
  <2>1. Holds("cutOffFrequStart1", 10, 17, 115)
    BY TableHolds
  <2>2. QED
    BY <2>1, HeldIsRight
<1>9. ReadsWhatIsWritten(Writes("cutOffFrequStart2", 10, Within(17, 115)), asked)
  <2>1. Holds("cutOffFrequStart2", 10, 17, 115)
    BY TableHolds
  <2>2. QED
    BY <2>1, HeldIsRight
<1>10. ReadsWhatIsWritten(Writes("cutOffFrequStop1", 10, Within(22, 120)), asked)
  <2>1. Holds("cutOffFrequStop1", 10, 22, 120)
    BY TableHolds
  <2>2. QED
    BY <2>1, HeldIsRight
<1>11. ReadsWhatIsWritten(Writes("cutOffFrequStop2", 10, Within(22, 120)), asked)
  <2>1. Holds("cutOffFrequStop2", 10, 22, 120)
    BY TableHolds
  <2>2. QED
    BY <2>1, HeldIsRight
<1>12. QED
  BY <1>1, <1>2, <1>3, <1>4, <1>5, <1>6, <1>7, <1>8, <1>9, <1>10, <1>11 DEF LimitWriters

\* A word below 0xffff is accepted by every register, and one of two words keeps it.
LEMMA WordAccepted ==
  ASSUME NEW r, NEW raw \in Sendable
  PROVE  /\ Accepted(r, raw)
         /\ Quantity(SizeOf(r)) = 2 =>
              ParseModbusResponse(ReadBack(r, raw), SizeOf(r)) = << 0, raw >>
<1>1. raw = Sent(raw, SizeOf(r))
  BY DEF Sent, Sendable, OutOfRange
<1>2. Quantity(SizeOf(r)) = 1 \/ Quantity(SizeOf(r)) = 2
  BY DEF Quantity
<1>3. CASE Quantity(SizeOf(r)) = 1
  <2>1. Accepted(r, raw)
    BY <1>1, <1>3, WordReadBack, Zenon
  <2>2. QED
    BY <1>3, <2>1
<1>4. CASE Quantity(SizeOf(r)) = 2
  BY <1>1, <1>4, DoubleReadBack, Zenon
<1>5. QED
  BY <1>2, <1>3, <1>4

\* What is read of a register after v is written to it.
ReadOf(reg, v) == ParseModbusResponse(ReadBack(reg, v), SizeOf(reg))

\* Modes and switches are read under the name they were written by.
LEMMA ModesRead ==
  /\ \A m \in DOMAIN OperationMode :
       LET x == ReadOf("operationalMode", OperationMode[m])
       IN  ReadOperationMode(x) = m /\ OperationModeText(x) = m
  /\ \A m \in DOMAIN PumpMode, r \in { "supplyPumpMode", "brinePumpMode" } :
       LET x == ReadOf(r, PumpMode[m])
       IN  ReadPumpMode(x) = m /\ PumpModeText(x) = m
  /\ \A on \in BOOLEAN, r \in { "allowHeating", "allowAdditiveHeating" } :
       ReadSwitch(r, ReadOf(r, WriteSwitch(on))) = on
<1>1. ASSUME NEW r, SizeOf(r) = "u8", NEW v \in 0 .. 40
      PROVE  ReadOf(r, v) = v
  <2>1. v \in Int /\ Fits(v, SizeOf(r))
    BY <1>1 DEF Fits
  <2>2. QED
    BY <2>1, NumberReadBack, Zenon DEF ReadOf
<1>2. \A r \in { "operationalMode", "supplyPumpMode", "brinePumpMode", "allowHeating",
                 "allowAdditiveHeating" } : SizeOf(r) = "u8"
  BY Sizes
<1>3. ASSUME NEW m \in DOMAIN OperationMode
      PROVE  LET x == ReadOf("operationalMode", OperationMode[m])
             IN  ReadOperationMode(x) = m /\ OperationModeText(x) = m
  <2>1. OperationMode[m] \in 0 .. 40
    BY DEF OperationMode
  <2>2. ReadOf("operationalMode", OperationMode[m]) = OperationMode[m]
    BY <1>1, <1>2, <2>1
  <2>3. /\ ReadOperationMode(OperationMode[m]) = m
        /\ OperationModeText(OperationMode[m]) = m
    BY DEF OperationMode, ReadOperationMode, OperationModeText
  <2>4. QED
    BY <2>2, <2>3, Zenon
<1>4. ASSUME NEW m \in DOMAIN PumpMode, NEW r \in { "supplyPumpMode", "brinePumpMode" }
      PROVE  LET x == ReadOf(r, PumpMode[m])
             IN  ReadPumpMode(x) = m /\ PumpModeText(x) = m
  <2>1. PumpMode[m] \in 0 .. 40
    BY DEF PumpMode
  <2>2. ReadOf(r, PumpMode[m]) = PumpMode[m]
    BY <1>1, <1>2, <2>1
  <2>3. ReadPumpMode(PumpMode[m]) = m /\ PumpModeText(PumpMode[m]) = m
    BY DEF PumpMode, ReadPumpMode, PumpModeText
  <2>4. QED
    BY <2>2, <2>3, Zenon
<1>5. ASSUME NEW on \in BOOLEAN, NEW r \in { "allowHeating", "allowAdditiveHeating" }
      PROVE  ReadSwitch(r, ReadOf(r, WriteSwitch(on))) = on
  <2>1. WriteSwitch(on) \in 0 .. 40
    BY DEF WriteSwitch
  <2>2. ReadOf(r, WriteSwitch(on)) = WriteSwitch(on)
    BY <1>1, <1>2, <2>1
  <2>3. CASE on
    <3>1. WriteSwitch(on) = 1
      BY <2>3 DEF WriteSwitch
    <3>2. ReadSwitch(r, 1) = TRUE
      BY DEF ReadSwitch
    <3>3. QED
      BY <2>2, <2>3, <3>1, <3>2
  <2>4. CASE ~on
    <3>1. WriteSwitch(on) = 0
      BY <2>4 DEF WriteSwitch
    <3>2. ReadSwitch(r, 0) = FALSE
      <4>1. r \notin { "cutOffFrequActivated1", "cutOffFrequActivated2" }
        OBVIOUS
      <4>2. ReadSwitch(r, 0) = (0 = 1)
        BY <4>1 DEF ReadSwitch
      <4>3. ~(0 = 1)
        OBVIOUS
      <4>4. QED
        BY <4>2, <4>3, Zenon
    <3>3. QED
      BY <2>2, <2>4, <3>1, <3>2
  <2>5. QED
    BY <2>3, <2>4
<1>6. QED
  BY <1>3, <1>4, <1>5, Zenon

\* Every method that writes against the one that reads its register, for every number
\* a caller asks for: what is accepted is read back, within one step of what was asked
\* for and inside the documented range; modes and switches keep their names.
THEOREM WritesAreRead == Spec => []WrittenIsRead
<1>1. MessageOK => WrittenIsRead
  <2> SUFFICES ASSUME MessageOK, Len(message) = 2 PROVE WrittenIsRead
    BY DEF WrittenIsRead
  <2> DEFINE word == U16At(message, 0)
             asked == TwosComplement(word, 65536)
  <2>1. word \in SixteenBits
    <3>1. message[1] \in Byte /\ message[2] \in Byte
      BY FirstBytes, Zenon DEF MessageOK
    <3>2. word = Word16(message[1], message[2])
      BY DEF U16At, Word16
    <3>3. \A a, b \in Byte : Word16(a, b) \in SixteenBits
      BY DEF Word16, SixteenBits, Byte
    <3>4. QED
      BY <3>1, <3>2, <3>3, Zenon
  <2> HIDE DEF word
  <2>2. asked \in Int
    BY <2>1 DEF SixteenBits, TwosComplement
  <2> HIDE DEF asked
  <2>3. \A w \in HeatWriters \cup LimitWriters : ReadsWhatIsWritten(w, asked)
    BY <2>2, HeatWritersRight, LimitWritersRight, Zenon
  <2>4. \A r \in Registers : word < 65535 =>
          /\ Accepted(r, word)
          /\ Quantity(SizeOf(r)) = 2 =>
               ParseModbusResponse(ReadBack(r, word), SizeOf(r)) = << 0, word >>
    <3>1. word < 65535 => word \in Sendable
      BY <2>1 DEF SixteenBits, Sendable, OutOfRange
    <3>2. QED
      BY <3>1, WordAccepted
  <2>5. QED
    BY <2>3, <2>4, ModesRead DEF WrittenIsRead, ReadsWhatIsWritten, ReadOf, word, asked
<1>2. QED
  BY <1>1, MessageType, PTL

-----------------------------------------------------------------------------
(* The server of egoHeater                                                  *)

Sources == Nat \X { "echo", "response" }
Pieces == [kind : Kinds, ok : BOOLEAN, of : Sources]
Echo(r) == << r, "echo" >>
Response(r) == << r, "response" >>
Owned(pieces, r) == \A i \in DOMAIN pieces : pieces[i].of = Response(r)

\* The state of the reader of a data event.
Readers == [frame : Seq(Pieces), received : Seq(Seq(Pieces)), pending : BOOLEAN,
            answer : Seq(Pieces)]

\* What is on its way while request r is open: behind the end of a line comes nothing
\* but the answer, and nothing at all behind the end of the answer.
Ordered(l, r) ==
  /\ l \in Seq(Pieces)
  /\ \A i \in DOMAIN l : l[i].kind = "end" =>
       /\ l[i].of = Response(r) => i = Len(l)
       /\ \A j \in DOMAIN l : j > i => l[j].of = Response(r)

\* The inductive invariant: once a frame has been received, only the answer is to come;
\* and nothing is left of a request whose write has resolved.
EgoInv ==
  /\ request \in Nat /\ pending \in BOOLEAN
  /\ frame \in Seq(Pieces) /\ received \in Seq(Seq(Pieces)) /\ answer \in Seq(Pieces)
  /\ pc = "delay" => ~pending
  /\ IF pending
     THEN /\ Ordered(line, request) /\ Len(received) \in { 0, 1 }
          /\ Len(received) = 1 => Owned(frame, request) /\ Owned(line, request)
     ELSE line = <<>> /\ frame = <<>> /\ received = <<>>

LEMMA PieceIs ==
  ASSUME NEW kind \in Kinds, NEW ok \in BOOLEAN, NEW of \in Sources
  PROVE  /\ Piece(kind, ok, of) \in Pieces
         /\ Piece(kind, ok, of).kind = kind /\ Piece(kind, ok, of).of = of
BY DEF Piece, Pieces

LEMMA FourPieces ==
  ASSUME NEW a \in Pieces, NEW b \in Pieces, NEW c \in Pieces, NEW d \in Pieces
  PROVE  /\ << a, b, c, d >> \in Seq(Pieces) /\ Len(<< a, b, c, d >>) = 4
         /\ DOMAIN << a, b, c, d >> = 1 .. 4
         /\ << a, b, c, d >>[1] = a /\ << a, b, c, d >>[2] = b
         /\ << a, b, c, d >>[3] = c /\ << a, b, c, d >>[4] = d
OBVIOUS

LEMMA PiecesOf ==
  ASSUME NEW f \in [1 .. 4 -> Pieces]
  PROVE  f \in Seq(Pieces) /\ Len(f) = 4 /\ DOMAIN f = 1 .. 4
<1>1. DOMAIN f = 1 .. 4
  OBVIOUS
<1>2. f \in Seq(Pieces)
  <2>1. 4 \in Nat
    OBVIOUS
  <2> QED
    BY <2>1, SeqDef, Zenon
<1>3. Len(f) = 4
  BY <1>1, <1>2
<1> QED
  BY <1>1, <1>2, <1>3

LEMMA SeqOfFour ==
  ASSUME NEW f \in Seq(Pieces), Len(f) = 4
  PROVE  f \in [1 .. 4 -> Pieces]
<1> HIDE DEF Pieces
<1>1. f \in [1 .. Len(f) -> Pieces]
  BY LenProperties, Zenon
<1> QED
  BY <1>1, Zenon

LEMMA OneLine ==
  ASSUME NEW of \in Sources, NEW a \in Arrives(of)
  PROVE  /\ a \in Seq(Pieces)
         /\ \A i \in DOMAIN a : a[i].of = of /\ (a[i].kind = "end" => i = Len(a))
<1> DEFINE sent == SoundLine(of)
           Fine(s) == /\ s \in Seq(Pieces)
                      /\ \A i \in DOMAIN s : s[i].of = of /\ (s[i].kind = "end" => i = Len(s))
<1>1. /\ sent \in Seq(Pieces) /\ Len(sent) = 4 /\ DOMAIN sent = 1 .. 4
      /\ \A i \in 1 .. 4 : sent[i].of = of
      /\ \A i \in 1 .. 3 : sent[i].kind # "end"
  <2> DEFINE c == Piece("colon", TRUE, of)
             x == Piece("text", TRUE, of)
             e == Piece("end", TRUE, of)
  <2>1. sent = << c, x, x, e >>
    BY Zenon DEF SoundLine
  <2>2. "colon" \in Kinds /\ "text" \in Kinds /\ "end" \in Kinds /\ TRUE \in BOOLEAN
    BY DEF Kinds
  <2>3. /\ c \in Pieces /\ x \in Pieces /\ e \in Pieces
        /\ c.of = of /\ x.of = of /\ e.of = of /\ c.kind = "colon" /\ x.kind = "text"
    BY <2>2 DEF Piece, Pieces
  <2> HIDE DEF sent, c, x, e
  <2>4. /\ sent \in Seq(Pieces) /\ Len(sent) = 4 /\ DOMAIN sent = 1 .. 4
        /\ sent[1] = c /\ sent[2] = x /\ sent[3] = x /\ sent[4] = e
    BY <2>1, <2>3, FourPieces
  <2>5. /\ \A i \in 1 .. 4 : i = 1 \/ i = 2 \/ i = 3 \/ i = 4
        /\ \A i \in 1 .. 3 : i = 1 \/ i = 2 \/ i = 3
    OBVIOUS
  <2>6. "colon" # "end" /\ "text" # "end"
    OBVIOUS
  <2>7. ASSUME NEW i \in 1 .. 4 PROVE sent[i].of = of
    BY <2>3, <2>4, <2>5, Zenon
  <2>8. ASSUME NEW i \in 1 .. 3 PROVE sent[i].kind # "end"
    BY <2>3, <2>4, <2>5, <2>6, Zenon
  <2> QED
    BY <2>4, <2>7, <2>8, Zenon
<1> HIDE DEF sent
<1>2. Fine(sent)
  <2>1. \A i \in 1 .. 4 : i \in 1 .. 3 \/ i = 4
    OBVIOUS
  <2> QED
    BY <1>1, <2>1, Zenon
<1>3. Fine(<<>>)
  OBVIOUS
<1>4. ASSUME NEW k \in 1 .. 4 PROVE Fine(RemoveAt(sent, k))
  <2> DEFINE u == RemoveAt(sent, k)
  <2>1. /\ u \in Seq(Pieces) /\ Len(u) = 3
        /\ \A j \in 1 .. 3 : u[j] = IF j < k THEN sent[j] ELSE sent[j + 1]
    <3>1. k \in 1 .. Len(sent)
      BY <1>1, Zenon
    <3>2. /\ u \in Seq(Pieces) /\ Len(u) = Len(sent) - 1
          /\ \A j \in 1 .. Len(sent) - 1 : u[j] = IF j < k THEN sent[j] ELSE sent[j + 1]
      BY <1>1, <3>1, RemovedAt
    <3>3. Len(sent) - 1 = 3
      BY <1>1
    <3> QED
      BY <3>2, <3>3, Zenon
  <2> HIDE DEF u
  <2>2. DOMAIN u = 1 .. 3
    BY <2>1
  <2>3. ASSUME NEW j \in 1 .. 3 PROVE u[j].of = of /\ (u[j].kind = "end" => j = 3)
    <3>1. CASE j < k
      BY <1>1, <2>1, <3>1
    <3>2. CASE ~(j < k)
      <4>1. u[j] = sent[j + 1] /\ j + 1 \in 1 .. 4 /\ (j + 1 \in 1 .. 3 \/ j = 3)
        BY <2>1, <3>2
      <4> QED
        BY <1>1, <4>1, Zenon
    <3> QED
      BY <3>1, <3>2, Zenon
  <2> QED
    BY <2>1, <2>2, <2>3 DEF u
<1>5. ASSUME NEW k \in 1 .. 4, NEW kind \in Kinds \ { "end" }, NEW ok \in BOOLEAN
      PROVE  Fine(ReplaceAt(sent, k, Piece(kind, ok, of)))
  <2> DEFINE u == ReplaceAt(sent, k, Piece(kind, ok, of))
             p == Piece(kind, ok, of)
  <2>1. p \in Pieces /\ p.of = of /\ p.kind # "end"
    <3>1. kind \in Kinds /\ kind # "end"
      OBVIOUS
    <3> QED
      BY <3>1, PieceIs
  <2> HIDE DEF p
  <2>2. u = [sent EXCEPT ![k] = p]
    BY Zenon DEF ReplaceAt, p
  <2> HIDE DEF u
  <2>3. /\ u \in Seq(Pieces) /\ Len(u) = 4 /\ DOMAIN u = 1 .. 4
        /\ \A j \in 1 .. 4 : u[j] = IF j = k THEN p ELSE sent[j]
    <3>1. sent \in [1 .. 4 -> Pieces]
      BY <1>1, SeqOfFour, Zenon
    <3>2. u \in [1 .. 4 -> Pieces] /\ \A j \in 1 .. 4 : u[j] = IF j = k THEN p ELSE sent[j]
      BY <2>1, <2>2, <3>1
    <3> QED
      BY <3>2, PiecesOf, Zenon
  <2>4. ASSUME NEW j \in 1 .. 4 PROVE u[j].of = of /\ (u[j].kind = "end" => j = 4)
    <3>1. j \in 1 .. 3 \/ j = 4
      OBVIOUS
    <3>2. u[j] = p \/ u[j] = sent[j]
      BY <2>3, Zenon
    <3> QED
      BY <1>1, <2>1, <3>1, <3>2, Zenon
  <2> QED
    BY <2>3, <2>4, Zenon DEF u
<1>6. \/ a = sent \/ a = <<>> \/ \E k \in DOMAIN sent : a = RemoveAt(sent, k)
      \/ \E k \in DOMAIN sent, kind \in Kinds \ { "end" }, ok \in BOOLEAN :
           a = ReplaceAt(sent, k, Piece(kind, ok, of))
  BY DEF Arrives, sent
<1>7. Fine(a)
  <2> HIDE DEF Fine
  <2> QED
    BY <1>1, <1>2, <1>3, <1>4, <1>5, <1>6, Zenon
<1> QED
  BY <1>7

LEMMA TwoLines ==
  ASSUME NEW r \in Nat, NEW e \in Arrives(Echo(r)), NEW s \in Arrives(Response(r))
  PROVE  Ordered(<<>> \o e \o s, r)
<1>0. Echo(r) \in Sources /\ Response(r) \in Sources /\ Echo(r) # Response(r)
  BY DEF Sources, Echo, Response
<1>1. /\ e \in Seq(Pieces)
      /\ \A i \in DOMAIN e : e[i].of = Echo(r) /\ (e[i].kind = "end" => i = Len(e))
  BY <1>0, OneLine
<1>2. /\ s \in Seq(Pieces)
      /\ \A i \in DOMAIN s : s[i].of = Response(r) /\ (s[i].kind = "end" => i = Len(s))
  BY <1>0, OneLine
<1>3. PICK m \in Nat, n \in Nat :
        m = Len(e) /\ DOMAIN e = 1 .. m /\ n = Len(s) /\ DOMAIN s = 1 .. n
  BY <1>1, <1>2
<1> DEFINE l == e \o s
<1>4. <<>> \o e \o s = l
  BY <1>1
<1>5. /\ l \in Seq(Pieces) /\ Len(l) = m + n
      /\ \A i \in 1 .. m + n : l[i] = IF i <= m THEN e[i] ELSE s[i - m]
  BY <1>1, <1>2, <1>3, ConcatProperties
<1> HIDE DEF l
<1>6. DOMAIN l = 1 .. m + n
  BY <1>5
<1>7. ASSUME NEW i \in 1 .. m + n, i > m
      PROVE  l[i].of = Response(r) /\ (l[i].kind = "end" => i = m + n)
  <2>1. i - m \in 1 .. n /\ (i - m = n => i = m + n) /\ ~(i <= m)
    BY <1>7
  <2>2. l[i] = s[i - m]
    BY <1>5, <2>1, Zenon
  <2> QED
    BY <1>2, <1>3, <2>1, <2>2, Zenon
<1>8. ASSUME NEW i \in 1 .. m + n, i <= m
      PROVE  l[i].of = Echo(r) /\ (l[i].kind = "end" => i = m)
  <2>1. i \in 1 .. m
    BY <1>8
  <2>2. l[i] = e[i]
    BY <1>5, <1>8, Zenon
  <2> QED
    BY <1>1, <1>3, <2>1, <2>2, Zenon
<1>9. ASSUME NEW i \in 1 .. m + n, l[i].kind = "end"
      PROVE  /\ l[i].of = Response(r) => i = m + n
             /\ \A j \in 1 .. m + n : j > i => l[j].of = Response(r)
  <2>1. CASE i > m
    <3>1. i = m + n
      BY <1>7, <1>9, <2>1, Zenon
    <3>2. \A j \in 1 .. m + n : ~(j > i)
      BY <3>1
    <3> QED
      BY <3>1, <3>2, Zenon
  <2>2. CASE i <= m
    <3>1. i = m /\ l[i].of # Response(r)
      BY <1>0, <1>8, <1>9, <2>2, Zenon
    <3> QED
      BY <1>7, <3>1, Zenon
  <2>3. i > m \/ i <= m
    OBVIOUS
  <2> QED
    BY <2>1, <2>2, <2>3, Zenon
<1>10. Ordered(l, r)
  BY <1>5, <1>6, <1>9, Zenon DEF Ordered
<1> QED
  BY <1>4, <1>10, Zenon

-----------------------------------------------------------------------------
\* The state of a reader from its parts.
Reader(f, r, p, a) == [frame |-> f, received |-> r, pending |-> p, answer |-> a]

\* The state of one whose write has been resolved with a frame.
Closed(f, a) == Reader(f, <<>>, FALSE, a)

LEMMA ReaderType ==
  \A f \in Seq(Pieces), r \in Seq(Seq(Pieces)), p \in BOOLEAN, a \in Seq(Pieces) :
    Reader(f, r, p, a) \in Readers
BY DEF Reader, Readers

LEMMA ReaderParts ==
  \A f, r, p, a : /\ Reader(f, r, p, a).frame = f /\ Reader(f, r, p, a).received = r
                  /\ Reader(f, r, p, a).pending = p /\ Reader(f, r, p, a).answer = a
BY DEF Reader

LEMMA ClosedParts ==
  \A f, a : /\ Closed(f, a).frame = f /\ Closed(f, a).received = <<>>
            /\ Closed(f, a).pending = FALSE /\ Closed(f, a).answer = a
BY DEF Closed, Reader

LEMMA ReaderIs ==
  ASSUME NEW s \in Readers
  PROVE  /\ s = Reader(s.frame, s.received, s.pending, s.answer)
         /\ s.frame \in Seq(Pieces) /\ s.received \in Seq(Seq(Pieces))
         /\ s.pending \in BOOLEAN /\ s.answer \in Seq(Pieces)
BY DEF Reader, Readers

WithFrame(s, x) == [s EXCEPT !.frame = x]
WithReceived(s, x) == [s EXCEPT !.received = x]
WithAnswer(s, x) == [s EXCEPT !.answer = x, !.pending = FALSE, !.received = <<>>]

LEMMA FrameSet == \A f, r, p, a, x : WithFrame(Reader(f, r, p, a), x) = Reader(x, r, p, a)
BY DEF Reader, WithFrame

LEMMA ReceivedSet ==
  \A f, r, p, a, x : WithReceived(Reader(f, r, p, a), x) = Reader(f, x, p, a)
BY DEF Reader, WithReceived

LEMMA AnswerSet ==
  ASSUME NEW f, NEW r, NEW p, NEW a, NEW x
  PROVE  WithAnswer(Reader(f, r, p, a), x) = Closed(f, x)
<1> DEFINE old == Reader(f, r, p, a)
           new == WithAnswer(old, x)
           c == Closed(f, x)
<1>1. DOMAIN old = {"frame", "received", "pending", "answer"}
  BY DEF Reader
<1>2. DOMAIN new = DOMAIN old /\ new = [k \in DOMAIN old |-> new[k]]
  BY DEF WithAnswer
<1>3. DOMAIN c = DOMAIN old /\ c = [k \in DOMAIN old |-> c[k]]
  BY DEF Reader, Closed
<1>4. new.frame = f /\ new.received = <<>> /\ new.pending = FALSE /\ new.answer = x
  BY DEF Reader, WithAnswer
<1>5. c.frame = f /\ c.received = <<>> /\ c.pending = FALSE /\ c.answer = x
  BY DEF Reader, Closed
<1> HIDE DEF old, new, c
<1>6. \A k \in DOMAIN old : new[k] = c[k]
  BY <1>1, <1>4, <1>5
<1>7. new = c
  BY <1>2, <1>3, <1>6
<1> QED
  BY <1>7 DEF new, c, old

LEMMA FrameOfClosed == \A f, a, x : WithFrame(Closed(f, a), x) = Closed(x, a)
<1> SUFFICES ASSUME NEW f, NEW a, NEW x PROVE WithFrame(Closed(f, a), x) = Closed(x, a)
  OBVIOUS
<1> DEFINE none == <<>>
           no == FALSE
<1> HIDE DEF none, no
<1>1. WithFrame(Reader(f, none, no, a), x) = Reader(x, none, no, a)
  BY FrameSet
<1> QED
  BY <1>1, Zenon DEF Closed, none, no

\* The frame is the second one, and a write is waiting for it.
Second(r, p) == Len(r) = 1 /\ p = TRUE

\* What one round makes of each part.
LEMMA TakenIs ==
  ASSUME NEW f, NEW r, NEW p \in BOOLEAN, NEW a, NEW piece
  PROVE  LET text == Append(f, piece)
             s == Taken(Reader(f, r, p, a), piece)
         IN  \/ piece.kind = "colon" /\ s = Reader(<< piece >>, r, p, a)
             \/ s = Reader(text, r, p, a)
             \/ s = Reader(<<>>, r, p, a)
             \/ IsFrame(text) /\ Second(r, p) /\ s = Closed(<<>>, text)
             \/ IsFrame(text) /\ ~Second(r, p) /\ s = Reader(<<>>, Append(r, text), p, a)
<1> DEFINE text == Append(f, piece)
           old == Reader(f, r, p, a)
           s == Taken(old, piece)
<1> HIDE DEF text
<1>1. /\ \A x : WithFrame(old, x) = Reader(x, r, p, a)
      /\ WithReceived(old, Append(r, text)) = Reader(f, Append(r, text), p, a)
      /\ WithAnswer(old, text) = Closed(f, text)
  <2>1. \A x : WithFrame(old, x) = Reader(x, r, p, a)
    BY FrameSet
  <2>2. WithReceived(old, Append(r, text)) = Reader(f, Append(r, text), p, a)
    BY ReceivedSet
  <2>3. WithAnswer(old, text) = Closed(f, text)
    BY AnswerSet
  <2> QED
    BY <2>1, <2>2, <2>3, Zenon
<1>2. old.frame = f /\ old.received = r /\ old.pending = p
  BY DEF Reader
<1> HIDE DEF old
<1>3. s = IF piece.kind = "colon" THEN WithFrame(old, << piece >>)
          ELSE IF piece.kind = "text" THEN WithFrame(old, text)
          ELSE WithFrame(IF IsFrame(text) THEN Pushed(old, text) ELSE old, <<>>)
  BY <1>2, SMT DEF Taken, text, WithFrame
<1>4. Pushed(old, text) =
        IF Second(r, p) THEN WithAnswer(old, text) ELSE WithReceived(old, Append(r, text))
  BY <1>2, SMT DEF Second, Pushed, WithAnswer, WithReceived
<1> HIDE DEF s
<1>5. CASE piece.kind = "colon"
  BY <1>1, <1>3, <1>5, Zenon DEF s, old
<1>6. CASE piece.kind # "colon" /\ piece.kind = "text"
  BY <1>1, <1>3, <1>6, Zenon DEF s, old, text
<1>7. CASE piece.kind # "colon" /\ piece.kind # "text"
  <2>1. s = WithFrame(IF IsFrame(text) THEN Pushed(old, text) ELSE old, <<>>)
    BY <1>3, <1>7, Zenon
  <2>2. CASE ~IsFrame(text)
    <3>1. s = Reader(<<>>, r, p, a)
      BY <1>1, <2>1, <2>2, Zenon
    <3> QED
      BY <3>1, Zenon DEF s, old
  <2>3. CASE IsFrame(text) /\ Second(r, p)
    <3>1. s = WithFrame(Closed(f, text), <<>>)
      BY <1>1, <1>4, <2>1, <2>3, Zenon
    <3>2. s = Closed(<<>>, text)
      BY <3>1, FrameOfClosed
    <3> QED
      BY <2>3, <3>2, Zenon DEF s, old, text
  <2>4. CASE IsFrame(text) /\ ~Second(r, p)
    <3>1. s = WithFrame(Reader(f, Append(r, text), p, a), <<>>)
      BY <1>1, <1>4, <2>1, <2>4, Zenon
    <3>2. s = Reader(<<>>, Append(r, text), p, a)
      BY <3>1, FrameSet
    <3> QED
      BY <2>4, <3>2, Zenon DEF s, old, text
  <2> QED
    BY <2>2, <2>3, <2>4, Zenon
<1> QED
  BY <1>5, <1>6, <1>7, Zenon

LEMMA TakenType ==
  ASSUME NEW s \in Readers, NEW piece \in Pieces
  PROVE  Taken(s, piece) \in Readers
<1> DEFINE t == Taken(s, piece)
<1>1. /\ s.frame \in Seq(Pieces) /\ s.received \in Seq(Seq(Pieces))
      /\ s.pending \in BOOLEAN /\ s.answer \in Seq(Pieces)
      /\ s = Reader(s.frame, s.received, s.pending, s.answer)
  BY ReaderIs
<1> DEFINE f == s.frame
           r == s.received
           p == s.pending
           a == s.answer
<1>4. t = Taken(Reader(f, r, p, a), piece)
  BY <1>1, Zenon
<1> HIDE DEF t, f, r, p, a
<1> DEFINE more == Append(f, piece)
           all == Append(r, more)
<1>6. /\ f \in Seq(Pieces) /\ r \in Seq(Seq(Pieces)) /\ p \in BOOLEAN /\ a \in Seq(Pieces)
  BY <1>1, Zenon DEF f, r, p, a
<1>5. \/ t = Reader(<< piece >>, r, p, a) \/ t = Reader(more, r, p, a)
      \/ t = Reader(<<>>, r, p, a) \/ t = Closed(<<>>, more)
      \/ t = Reader(<<>>, all, p, a)
  <2> HIDE DEF more, all
  <2> QED
    BY <1>4, <1>6, TakenIs DEF more, all
<1>7. more \in Seq(Pieces)
  BY <1>6
<1> HIDE DEF more
<1>8. all \in Seq(Seq(Pieces))
  BY <1>6, <1>7
<1>9. <<>> \in Seq(Seq(Pieces)) /\ <<>> \in Seq(Pieces) /\ << piece >> \in Seq(Pieces)
      /\ FALSE \in BOOLEAN
  OBVIOUS
<1> HIDE DEF all
<1>10. CASE t = Reader(<< piece >>, r, p, a)
  <2>1. Reader(<< piece >>, r, p, a) \in Readers
    BY <1>6, <1>9, ReaderType, Zenon
  <2> QED
    BY <1>10, <2>1, Zenon DEF t
<1>11. CASE t = Reader(more, r, p, a)
  <2>1. Reader(more, r, p, a) \in Readers
    BY <1>6, <1>7, ReaderType, Zenon
  <2> QED
    BY <1>11, <2>1, Zenon DEF t
<1>12. CASE t = Reader(<<>>, r, p, a)
  <2>1. Reader(<<>>, r, p, a) \in Readers
    BY <1>6, <1>9, ReaderType, Zenon
  <2> QED
    BY <1>12, <2>1, Zenon DEF t
<1>13. CASE t = Closed(<<>>, more)
  <2>1. Closed(<<>>, more) \in Readers
    BY <1>7, <1>9, ReaderType, Zenon DEF Closed
  <2> QED
    BY <1>13, <2>1, Zenon DEF t
<1>14. CASE t = Reader(<<>>, all, p, a)
  <2>1. Reader(<<>>, all, p, a) \in Readers
    BY <1>6, <1>8, <1>9, ReaderType, Zenon
  <2> QED
    BY <1>14, <2>1, Zenon DEF t
<1> QED
  BY <1>5, <1>10, <1>11, <1>12, <1>13, <1>14, Zenon DEF t

\* What the first m pieces of line l make of a reader that is waiting for the answer to
\* request r, and whose last answer was a.
Begun(s, l, m, r) ==
  /\ Len(s.received) \in { 0, 1 }
  /\ Len(s.received) = 1 =>
       Owned(s.frame, r) /\ \A i \in DOMAIN l : i > m => l[i].of = Response(r)
Of(pieces, r) == pieces[1].of = Response(r) /\ pieces[Len(pieces)].of = Response(r)
Reads(s, l, m, r, a) ==
  /\ s \in Readers
  /\ IF s.pending THEN s.answer = a /\ Begun(s, l, m, r)
                  ELSE m = Len(l) /\ s.frame = <<>> /\ s.received = <<>> /\ Of(s.answer, r)

LEMMA OwnedAppend ==
  ASSUME NEW f \in Seq(Pieces), NEW piece \in Pieces, NEW r, Owned(f, r), piece.of = Response(r)
  PROVE  Owned(Append(f, piece), r)
<1> DEFINE text == Append(f, piece)
<1>1. PICK n \in Nat : n = Len(f) /\ DOMAIN f = 1 .. n
  OBVIOUS
<1>2. /\ text \in Seq(Pieces) /\ Len(text) = n + 1 /\ text[n + 1] = piece
      /\ \A i \in 1 .. n : text[i] = f[i]
  BY <1>1, AppendProperties
<1> HIDE DEF text
<1>3. DOMAIN text = 1 .. n + 1
  BY <1>1, <1>2
<1>4. ASSUME NEW i \in 1 .. n + 1 PROVE text[i].of = Response(r)
  <2>1. i \in 1 .. n \/ i = n + 1
    OBVIOUS
  <2> QED
    BY <1>1, <1>2, <2>1, Zenon DEF Owned
<1>5. Owned(text, r)
  BY <1>3, <1>4, Zenon DEF Owned
<1> QED
  BY <1>5 DEF text

LEMMA ReadStep ==
  ASSUME NEW r \in Nat, NEW l, Ordered(l, r), NEW m \in Nat, m + 1 \in DOMAIN l,
         NEW a, NEW s, Reads(s, l, m, r, a)
  PROVE  Reads(Taken(s, l[m + 1]), l, m + 1, r, a)
<1> DEFINE piece == l[m + 1]
           f == s.frame
           q == s.received
           p == s.pending
           t == Taken(s, piece)
           text == Append(f, piece)
           all == Append(q, text)
<1> SUFFICES Reads(t, l, m + 1, r, a)
  OBVIOUS
<1>1. l \in Seq(Pieces)
  BY DEF Ordered
<1>a. PICK n \in Nat : n = Len(l) /\ DOMAIN l = 1 .. n
  BY <1>1
<1>2. piece \in Pieces /\ m # Len(l)
  <2>1. m + 1 \in 1 .. Len(l)
    BY <1>a
  <2>2. piece \in Pieces
    BY <1>1, <2>1, ElementOfSeq
  <2>3. m # n
    BY <1>a
  <2> QED
    BY <1>a, <2>2, <2>3, Zenon
<1>3. s \in Readers
  BY Zenon DEF Reads
<1>4. p = TRUE /\ s.answer = a /\ Begun(s, l, m, r)
  <2>1. p \in BOOLEAN
    BY <1>3, ReaderIs
  <2>2. p
    BY <1>2, Zenon DEF Reads
  <2>3. s.answer = a /\ Begun(s, l, m, r)
    BY <2>2, Zenon DEF Reads
  <2> QED
    BY <2>1, <2>2, <2>3, Zenon
<1>5. /\ f \in Seq(Pieces) /\ q \in Seq(Seq(Pieces)) /\ p \in BOOLEAN /\ a \in Seq(Pieces)
      /\ s = Reader(f, q, p, a)
  <2>1. /\ s.frame \in Seq(Pieces) /\ s.received \in Seq(Seq(Pieces))
        /\ s.pending \in BOOLEAN /\ s.answer \in Seq(Pieces)
        /\ s = Reader(s.frame, s.received, s.pending, s.answer)
    BY <1>3, ReaderIs
  <2> QED
    BY <1>4, <2>1, Zenon
<1>6. /\ Len(q) \in { 0, 1 }
      /\ Len(q) = 1 => Owned(f, r) /\ \A i \in DOMAIN l : i > m => l[i].of = Response(r)
  BY <1>4, Zenon DEF Begun
<1>7. Len(q) = 1 => piece.of = Response(r) /\ \A i \in DOMAIN l : i > m + 1 => l[i].of = Response(r)
  <2>1. m + 1 > m /\ \A i \in DOMAIN l : i > m + 1 => i > m
    BY <1>a
  <2> QED
    BY <1>6, <2>1, Zenon
<1>8. t \in Readers
  BY <1>2, <1>3, TakenType, Zenon
<1>9. /\ text \in Seq(Pieces) /\ Len(text) >= 1 /\ text[Len(text)] = piece
      /\ DOMAIN text = 1 .. Len(text)
  BY <1>2, <1>5, AppendProperties
<1>10. Len(q) = 1 => Owned(text, r)
  BY <1>2, <1>5, <1>6, <1>7, OwnedAppend, Zenon
<1> HIDE DEF piece, text
<1>11. \/ piece.kind = "colon" /\ t = Reader(<< piece >>, q, p, a)
       \/ t = Reader(text, q, p, a)
       \/ t = Reader(<<>>, q, p, a)
       \/ IsFrame(text) /\ Second(q, p) /\ t = Closed(<<>>, text)
       \/ IsFrame(text) /\ ~Second(q, p) /\ t = Reader(<<>>, all, p, a)
  <2>1. t = Taken(Reader(f, q, p, a), piece)
    BY <1>5, Zenon
  <2> HIDE DEF f, q, p, t
  <2> QED
    BY <1>5, <2>1, TakenIs DEF text
<1> HIDE DEF f, q, p, t
<1>12. ASSUME NEW g, Len(q) = 1 => Owned(g, r), t = Reader(g, q, p, a)
       PROVE  Reads(t, l, m + 1, r, a)
  <2>1. t.frame = g /\ t.received = q /\ t.pending = p /\ t.answer = a
    BY <1>12, ReaderParts
  <2>2. Begun(t, l, m + 1, r)
    BY <1>6, <1>7, <1>12, <2>1, Zenon DEF Begun
  <2> QED
    BY <1>4, <1>8, <2>1, <2>2, Zenon DEF Reads, p
<1>13. CASE t = Reader(<< piece >>, q, p, a)
  <2>1. Len(q) = 1 => Owned(<< piece >>, r)
    <3>1. DOMAIN << piece >> = { 1 } /\ << piece >>[1] = piece
      OBVIOUS
    <3> QED
      BY <1>7, <3>1 DEF Owned
  <2> QED
    BY <1>12, <1>13, <2>1
<1>14. CASE t = Reader(text, q, p, a)
  BY <1>10, <1>12, <1>14
<1>15. CASE t = Reader(<<>>, q, p, a)
  <2>1. Owned(<<>>, r)
    BY DEF Owned
  <2> QED
    BY <1>12, <1>15, <2>1
<1>16. IsFrame(text) => piece.kind = "end"
  BY <1>9, Zenon DEF IsFrame
<1>17. CASE IsFrame(text) /\ Second(q, p) /\ t = Closed(<<>>, text)
  <2>1. t.frame = <<>> /\ t.received = <<>> /\ t.pending = FALSE /\ t.answer = text
    <3>1. t = Closed(<<>>, text)
      BY <1>17, Zenon
    <3> QED
      BY <3>1, ClosedParts, Zenon
  <2>2. Len(q) = 1
    BY <1>17, Zenon DEF Second
  <2>3. m + 1 = Len(l)
    BY <1>7, <1>16, <1>17, <2>2, Zenon DEF Ordered, piece
  <2>4. Of(text, r)
    <3>1. 1 \in DOMAIN text /\ Len(text) \in DOMAIN text
      BY <1>9
    <3> QED
      BY <1>10, <2>2, <3>1, Zenon DEF Of, Owned
  <2> QED
    BY <1>8, <2>1, <2>3, <2>4, Zenon DEF Reads
<1>18. CASE IsFrame(text) /\ ~Second(q, p) /\ t = Reader(<<>>, all, p, a)
  <2>1. t.frame = <<>> /\ t.received = all /\ t.pending = p /\ t.answer = a
    <3>1. t = Reader(<<>>, all, p, a)
      BY <1>18, Zenon
    <3> HIDE DEF all
    <3> QED
      BY <3>1, ReaderParts
  <2>2. Len(all) = 1
    <3>1. Len(q) = 0
      BY <1>4, <1>6, <1>18, Zenon DEF Second, p
    <3> QED
      BY <1>5, <3>1
  <2>3. \A i \in DOMAIN l : i > m + 1 => l[i].of = Response(r)
    BY <1>16, <1>18, Zenon DEF Ordered, piece
  <2>4. Owned(<<>>, r)
    BY DEF Owned
  <2> HIDE DEF all
  <2>5. Begun(t, l, m + 1, r)
    BY <2>1, <2>2, <2>3, <2>4 DEF Begun
  <2> QED
    BY <1>4, <1>8, <2>1, <2>5, Zenon DEF Reads, p
<1> QED
  BY <1>11, <1>13, <1>14, <1>15, <1>17, <1>18, Zenon

\* The states of a reader, as the recursive function in the definition of FoldLeft
\* computes them.
ReadTrace(it, old, l) ==
  \A u \in SUBSET DOMAIN l :
    it[u] = IF u = {} THEN old ELSE Taken(it[u \ {Max(u)}], l[Max(u)])

LEMMA ReadHasTrace ==
  ASSUME NEW old \in Readers, NEW l \in Seq(Pieces)
  PROVE  \E it : ReadTrace(it, old, l) /\ FoldLeft(Taken, old, l) = it[DOMAIN l]
<1> DEFINE Eq(it) == it = [u \in SUBSET DOMAIN l |->
                            IF u = {} THEN old ELSE Taken(it[u \ {Max(u)}], l[Max(u)])]
<1>1. FoldLeft(Taken, old, l) = (CHOOSE it : Eq(it))[DOMAIN l]
  BY DEF FoldLeft, MapThenFoldSet
<1>2. \E it : Eq(it)
  <2> DEFINE g == [p \in Readers \X Pieces |-> Taken(p[1], p[2])]
  <2>1. g \in [Readers \X Pieces -> Readers]
    BY TakenType
  <2>2. \A s \in Readers, piece \in Pieces : g[<< s, piece >>] = Taken(s, piece)
    OBVIOUS
  <2> HIDE DEF g
  <2>3. PICK n \in Nat : l \in [1 .. n -> Pieces] /\ DOMAIN l = 1 .. n
    BY LenProperties
  <2>4. PICK h : TraceOf(h, Readers, g, old, n, l)
    BY <2>1, <2>3, TraceExists
  <2>5. ASSUME NEW u \in SUBSET (1 .. n)
        PROVE  h[u] = IF u = {} THEN old ELSE Taken(h[u \ {Max(u)}], l[Max(u)])
    <3>1. CASE u = {}
      BY <2>4, <3>1 DEF TraceOf
    <3>2. CASE u # {}
      <4>1. u \ {Max(u)} \in SUBSET (1 .. n) /\ Max(u) \in 1 .. n
        BY <2>4, <3>2 DEF TraceOf
      <4>2. h[u \ {Max(u)}] \in Readers /\ l[Max(u)] \in Pieces
        BY <2>3, <2>4, <4>1 DEF TraceOf
      <4>3. h[u] = g[<< h[u \ {Max(u)}], l[Max(u)] >>]
        BY <2>4, <3>2 DEF TraceOf
      <4> QED
        BY <2>2, <3>2, <4>2, <4>3
    <3> QED
      BY <3>1, <3>2
  <2>6. Eq(h)
    BY <2>3, <2>4, <2>5 DEF TraceOf
  <2> QED
    BY <2>6
<1> DEFINE result == CHOOSE it : Eq(it)
<1>3. Eq(result)
  <2> HIDE DEF Eq
  <2> QED
    BY <1>2
<1> HIDE DEF result
<1>4. ReadTrace(result, old, l)
  BY <1>3 DEF ReadTrace
<1> QED
  BY <1>1, <1>4 DEF result

LEMMA ReadTraceStep ==
  ASSUME NEW it, NEW old, NEW l, ReadTrace(it, old, l), NEW m \in Nat,
         1 .. m + 1 \in SUBSET DOMAIN l
  PROVE  it[1 .. m + 1] = Taken(it[1 .. m], l[m + 1])
<1>1. /\ Max(1 .. m + 1) = m + 1 /\ (1 .. m + 1) \ {m + 1} = 1 .. m
      /\ (1 .. m + 1 = {}) = FALSE
  BY Segment, Zenon
<1>2. it[1 .. m + 1] = IF 1 .. m + 1 = {} THEN old
        ELSE Taken(it[(1 .. m + 1) \ {Max(1 .. m + 1)}], l[Max(1 .. m + 1)])
  BY Zenon DEF ReadTrace
<1> QED
  BY <1>1, <1>2, Zenon

\* What a data event makes of the reader.
LEMMA Reading ==
  ASSUME NEW r \in Nat, NEW l, Ordered(l, r), NEW n \in 1 .. Len(l),
         NEW old \in Readers, old.pending, Begun(old, l, 0, r)
  PROVE  Reads(FoldLeft(Taken, old, SubSeq(l, 1, n)), l, n, r, old.answer)
<1> DEFINE u == SubSeq(l, 1, n)
           a == old.answer
<1>1. l \in Seq(Pieces)
  BY DEF Ordered
<1>2. PICK k \in Nat : k = Len(l) /\ DOMAIN l = 1 .. k /\ n \in 1 .. k
  BY <1>1
<1>3. n \in Nat /\ n <= k /\ \A i \in 1 .. n : i \in 1 .. k /\ i \in 1 .. Len(l)
  BY <1>2
<1>4. /\ u \in Seq(Pieces) /\ Len(u) = n /\ \A i \in 1 .. n : u[i] = l[i]
  <2>1. \A i \in 1 .. n : l[i] \in Pieces
    BY <1>1, <1>3, ElementOfSeq
  <2>2. /\ u \in Seq(Pieces) /\ Len(u) = IF 1 <= n THEN n - 1 + 1 ELSE 0
        /\ \A i \in 1 .. n - 1 + 1 : u[i] = l[1 + i - 1]
    BY <1>3, <2>1, SubSeqProperties
  <2>3. 1 <= n /\ n - 1 + 1 = n /\ \A i \in 1 .. n : 1 + i - 1 = i
    BY <1>3
  <2> QED
    BY <2>2, <2>3, Zenon
<1> HIDE DEF u
<1>5. DOMAIN u = 1 .. n
  BY <1>4
<1>6. PICK it : ReadTrace(it, old, u) /\ FoldLeft(Taken, old, u) = it[DOMAIN u]
  BY <1>4, ReadHasTrace, Zenon
<1> DEFINE S == { m \in Nat : m <= n => Reads(it[1 .. m], l, m, r, a) }
<1>7. 0 \in S
  <2>1. 1 .. 0 = {} /\ 0 \in Nat /\ {} \in SUBSET DOMAIN u
    OBVIOUS
  <2>2. it[1 .. 0] = old
    BY <1>6, <2>1, Zenon DEF ReadTrace
  <2>3. Reads(old, l, 0, r, a)
    BY Zenon DEF Reads
  <2> QED
    BY <2>1, <2>2, <2>3, Zenon
<1>8. ASSUME NEW m \in S PROVE m + 1 \in S
  <2>1. m \in Nat /\ m + 1 \in Nat
    OBVIOUS
  <2>2. ASSUME m + 1 <= n PROVE Reads(it[1 .. m + 1], l, m + 1, r, a)
    <3>1. m <= n /\ m + 1 \in 1 .. n /\ 1 .. m + 1 \in SUBSET (1 .. n)
      BY <2>1, <2>2
    <3>2. Reads(it[1 .. m], l, m, r, a)
      BY <3>1, Zenon
    <3>3. it[1 .. m + 1] = Taken(it[1 .. m], u[m + 1])
      BY <1>5, <1>6, <2>1, <3>1, ReadTraceStep, Zenon
    <3>4. u[m + 1] = l[m + 1] /\ m + 1 \in DOMAIN l
      BY <1>2, <1>3, <1>4, <3>1, Zenon
    <3>5. Reads(Taken(it[1 .. m], l[m + 1]), l, m + 1, r, a)
      BY <2>1, <3>2, <3>4, ReadStep, Zenon
    <3> QED
      BY <3>3, <3>4, <3>5, Zenon
  <2> QED
    BY <2>1, <2>2, Zenon
<1>9. n \in S
  <2>1. S \subseteq Nat
    OBVIOUS
  <2> HIDE DEF S
  <2>2. S = Nat
    BY <1>7, <1>8, <2>1, Natural
  <2> QED
    BY <1>3, <2>2, Zenon
<1>10. Reads(it[1 .. n], l, n, r, a)
  BY <1>9
<1> QED
  BY <1>5, <1>6, <1>10, Zenon DEF u

-----------------------------------------------------------------------------
(* Every write resolves with the answer to its own request *)

LEMMA EgoStart ==
  ASSUME EgoInit
  PROVE  EgoInv
<1>1. /\ request = 0 /\ pending = FALSE /\ frame = <<>> /\ received = <<>> /\ line = <<>>
      /\ answer = <<>>
  BY Zenon DEF EgoInit
<1>2. /\ 0 \in Nat /\ FALSE \in BOOLEAN
      /\ <<>> \in Seq(Pieces) /\ <<>> \in Seq(Seq(Pieces))
  OBVIOUS
<1> QED
  BY <1>1, <1>2, Zenon DEF EgoInv

LEMMA FollowingType ==
  ASSUME request \in Nat
  PROVE  Following \in Nat
BY RequestsAssumption DEF Following, Repeated

\* A request that is written when nothing is left of the one before.
LEMMA Asks ==
  ASSUME NEW r \in Nat, Write(r, <<>>), answer' \in Seq(Pieces), frame' = <<>>, received' = <<>>
  PROVE  EgoInv'
<1>1. request' = r /\ pc' = "write" /\ pending' = TRUE
  BY DEF Write
<1>2. PICK e \in Arrives(<< r, "echo" >>), s \in Arrives(<< r, "response" >>) :
        line' = <<>> \o e \o s
  BY DEF Write
<1>3. Ordered(<<>> \o e \o s, r)
  BY <1>2, TwoLines DEF Echo, Response
<1>4. Ordered(line', r)
  BY <1>2, <1>3, Zenon
<1>5. <<>> \in Seq(Pieces) /\ <<>> \in Seq(Seq(Pieces)) /\ Len(<<>>) = 0
  OBVIOUS
<1> QED
  BY <1>1, <1>4, <1>5 DEF EgoInv

LEMMA EgoDelayEnds ==
  ASSUME EgoInv, DelayEnds
  PROVE  EgoInv' /\ answer' = answer
<1>1. pc = "delay" /\ request \in Nat /\ pending = FALSE
  <2>1. pc = "delay" /\ request \in Nat /\ pending \in BOOLEAN /\ ~pending
    BY Zenon DEF EgoInv, DelayEnds
  <2> QED
    BY <2>1
<1>2. /\ line = <<>> /\ frame = <<>> /\ received = <<>> /\ answer \in Seq(Pieces)
      /\ frame \in Seq(Pieces) /\ received \in Seq(Seq(Pieces))
  BY <1>1, Zenon DEF EgoInv
<1>3. CASE Write(Following, line) /\ UNCHANGED << frame, received, answer >>
  <2>1. frame' = <<>> /\ received' = <<>> /\ answer' = answer
    BY <1>2, <1>3
  <2>2. Write(Following, <<>>)
    BY <1>2, <1>3, Zenon
  <2>3. Following \in Nat
    BY <1>1, FollowingType
  <2>4. answer' \in Seq(Pieces)
    BY <1>2, <2>1, Zenon
  <2> QED
    BY <2>1, <2>2, <2>3, <2>4, Asks
<1>4. CASE UNCHANGED << request, pending, frame, received, line, answer, damaged >>
  <2>1. /\ request' = request /\ pending' = pending /\ frame' = frame
        /\ received' = received /\ line' = line /\ answer' = answer
    BY <1>4
  <2> QED
    BY <1>1, <1>2, <2>1, Zenon DEF EgoInv
<1> QED
  BY <1>3, <1>4 DEF DelayEnds

\* What is left of the line is as ordered as the line was.
LEMMA OrderedRest ==
  ASSUME NEW l, NEW r \in Nat, Ordered(l, r), NEW n \in 1 .. Len(l)
  PROVE  /\ Ordered(SubSeq(l, n + 1, Len(l)), r)
         /\ n = Len(l) => SubSeq(l, n + 1, Len(l)) = <<>>
         /\ (\A i \in DOMAIN l : i > n => l[i].of = Response(r)) =>
              Owned(SubSeq(l, n + 1, Len(l)), r)
<1>1. l \in Seq(Pieces)
  BY DEF Ordered
<1>2. PICK k \in Nat : k = Len(l) /\ DOMAIN l = 1 .. k /\ n \in 1 .. k
  BY <1>1
<1>3. n \in Nat /\ n <= k
  BY <1>2
<1> DEFINE u == SubSeq(l, n + 1, k)
<1>4. /\ u \in Seq(Pieces) /\ Len(u) = k - n
      /\ \A j \in 1 .. k - n : u[j] = l[n + j] /\ n + j \in 1 .. k
  <2>1. \A i \in n + 1 .. k : l[i] \in Pieces
    <3>1. \A i \in n + 1 .. k : i \in 1 .. Len(l)
      BY <1>2, <1>3
    <3> QED
      BY <1>1, <3>1, ElementOfSeq
  <2>2. /\ u \in Seq(Pieces) /\ Len(u) = IF n + 1 <= k THEN k - (n + 1) + 1 ELSE 0
        /\ \A j \in 1 .. k - (n + 1) + 1 : u[j] = l[n + 1 + j - 1]
    BY <1>2, <1>3, <2>1, SubSeqProperties
  <2>3. /\ (IF n + 1 <= k THEN k - (n + 1) + 1 ELSE 0) = k - n
        /\ k - (n + 1) + 1 = k - n
        /\ \A j \in 1 .. k - n : n + 1 + j - 1 = n + j /\ n + j \in 1 .. k
    BY <1>2, <1>3
  <2> QED
    BY <2>2, <2>3, Zenon
<1> HIDE DEF u
<1>5. DOMAIN u = 1 .. k - n
  BY <1>4
<1>6. ASSUME NEW j \in 1 .. k - n, u[j].kind = "end"
      PROVE  /\ u[j].of = Response(r) => j = k - n
             /\ \A i \in 1 .. k - n : i > j => u[i].of = Response(r)
  <2>1. /\ l[n + j].of = Response(r) => n + j = k
        /\ \A i \in 1 .. k : i > n + j => l[i].of = Response(r)
    BY <1>2, <1>4, <1>6, Zenon DEF Ordered
  <2>2. /\ n + j = k => j = k - n
        /\ \A i \in 1 .. k - n : i > j => n + i > n + j
    BY <1>3
  <2> QED
    BY <1>4, <2>1, <2>2, Zenon
<1>7. Ordered(u, r)
  BY <1>4, <1>5, <1>6, Zenon DEF Ordered
<1>8. ASSUME n = k PROVE u = <<>>
  <2>1. Len(u) = 0
    BY <1>3, <1>4, <1>8
  <2> QED
    BY <1>4, <2>1
<1>9. ASSUME \A i \in DOMAIN l : i > n => l[i].of = Response(r)
      PROVE  Owned(u, r)
  <2>1. \A j \in 1 .. k - n : n + j > n
    BY <1>3
  <2>2. ASSUME NEW j \in 1 .. k - n PROVE u[j].of = Response(r)
    <3>1. u[j] = l[n + j] /\ n + j \in DOMAIN l
      BY <1>2, <1>4, Zenon
    <3> QED
      BY <1>9, <2>1, <3>1, Zenon
  <2> QED
    BY <1>5, <2>2, Zenon DEF Owned
<1> QED
  BY <1>2, <1>7, <1>8, <1>9, Zenon DEF u

LEMMA EgoDataEvent ==
  ASSUME EgoInv, DataEvent
  PROVE  EgoInv' /\ (answer' # answer => Of(answer', request))
<1> DEFINE r == request
<1>1. PICK n \in 1 .. Len(line) :
        LET old == [frame |-> frame, received |-> received, pending |-> pending,
                    answer |-> answer]
            new == IF pending THEN FoldLeft(Taken, old, SubSeq(line, 1, n)) ELSE old
        IN  /\ frame' = new.frame /\ received' = new.received /\ answer' = new.answer
            /\ IF pending /\ ~new.pending /\ request \notin Delayed
               THEN Write(Following, SubSeq(line, n + 1, Len(line)))
               ELSE /\ line' = SubSeq(line, n + 1, Len(line)) /\ pending' = new.pending
                    /\ pc' = IF pending /\ ~new.pending THEN "delay" ELSE pc
                    /\ UNCHANGED << request, damaged >>
  BY Zenon DEF DataEvent
<1>2. pending = TRUE
  <2>1. pending \in BOOLEAN
    BY Zenon DEF EgoInv
  <2>2. ASSUME ~pending PROVE FALSE
    <3>1. line = <<>>
      BY <2>2, Zenon DEF EgoInv
    <3> QED
      BY <1>1, <3>1
  <2> QED
    BY <2>1, <2>2
<1>3. /\ request \in Nat /\ frame \in Seq(Pieces) /\ received \in Seq(Seq(Pieces))
      /\ answer \in Seq(Pieces) /\ pc # "delay"
      /\ Ordered(line, request) /\ Len(received) \in { 0, 1 }
      /\ Len(received) = 1 => Owned(frame, request) /\ Owned(line, request)
  BY <1>2, Zenon DEF EgoInv
<1> DEFINE old == Reader(frame, received, pending, answer)
           new == FoldLeft(Taken, old, SubSeq(line, 1, n))
           rest == SubSeq(line, n + 1, Len(line))
<1>4. /\ frame' = new.frame /\ received' = new.received /\ answer' = new.answer
      /\ IF ~new.pending /\ request \notin Delayed
         THEN Write(Following, rest)
         ELSE /\ line' = rest /\ pending' = new.pending
              /\ pc' = IF ~new.pending THEN "delay" ELSE pc
              /\ UNCHANGED << request, damaged >>
  BY <1>1, <1>2, Zenon DEF Reader
<1>5. /\ Ordered(rest, r)
      /\ n = Len(line) => rest = <<>>
      /\ (\A i \in DOMAIN line : i > n => line[i].of = Response(r)) => Owned(rest, r)
  BY <1>3, OrderedRest
<1>6. /\ old \in Readers
      /\ old.pending = TRUE /\ old.received = received /\ old.frame = frame
      /\ old.answer = answer
  <2>1. pending \in BOOLEAN
    BY <1>2
  <2>2. old \in Readers
    BY <1>3, <2>1, ReaderType, Zenon
  <2>3. /\ old.pending = pending /\ old.received = received /\ old.frame = frame
        /\ old.answer = answer
    BY ReaderParts
  <2> QED
    BY <1>2, <2>2, <2>3, Zenon
<1> HIDE DEF old
<1>7. Begun(old, line, 0, r)
  BY <1>3, <1>6, Zenon DEF Begun, Owned
<1>8. Reads(new, line, n, r, answer)
  <2>1. Reads(new, line, n, r, old.answer)
    BY <1>3, <1>6, <1>7, Reading
  <2> QED
    BY <1>6, <2>1, Zenon
<1> HIDE DEF new, rest
<1>9. /\ new.frame \in Seq(Pieces) /\ new.received \in Seq(Seq(Pieces))
      /\ new.pending \in BOOLEAN /\ new.answer \in Seq(Pieces)
  <2>1. new \in Readers
    BY <1>8, Zenon DEF Reads
  <2> QED
    BY <2>1, ReaderIs
<1>10. CASE new.pending
  <2>1. new.answer = answer /\ Begun(new, line, n, r)
    BY <1>8, <1>10, Zenon DEF Reads
  <2>2. /\ line' = rest /\ pending' = new.pending /\ pc' = pc /\ request' = request
    BY <1>4, <1>10
  <2>3. /\ Len(received') \in { 0, 1 }
        /\ Len(received') = 1 => Owned(frame', request') /\ Owned(line', request')
    BY <1>4, <1>5, <2>1, <2>2, Zenon DEF Begun
  <2>4. Ordered(line', request')
    BY <1>5, <2>2, Zenon
  <2>5. pending' /\ pending' \in BOOLEAN /\ (pc' = "delay" => ~pending')
    BY <1>3, <1>9, <1>10, <2>2, Zenon
  <2>6. /\ request' \in Nat /\ frame' \in Seq(Pieces) /\ received' \in Seq(Seq(Pieces))
        /\ answer' \in Seq(Pieces) /\ answer' = answer
    BY <1>3, <1>4, <1>9, <2>1, <2>2, Zenon
  <2> QED
    BY <2>3, <2>4, <2>5, <2>6 DEF EgoInv
<1>11. CASE ~new.pending
  <2>1. /\ n = Len(line) /\ new.frame = <<>> /\ new.received = <<>> /\ Of(new.answer, r)
    BY <1>8, <1>11, Zenon DEF Reads
  <2>2. /\ rest = <<>> /\ frame' = <<>> /\ received' = <<>> /\ Of(answer', request)
        /\ answer' \in Seq(Pieces) /\ frame' \in Seq(Pieces)
        /\ received' \in Seq(Seq(Pieces))
    BY <1>4, <1>5, <1>9, <2>1, Zenon
  <2>3. CASE request \notin Delayed
    <3>1. Write(Following, <<>>)
      BY <1>4, <1>11, <2>2, <2>3, Zenon
    <3>2. Following \in Nat
      BY <1>3, FollowingType
    <3> QED
      BY <2>2, <3>1, <3>2, Asks
  <2>4. CASE request \in Delayed
    <3>1. line' = rest /\ pending' = new.pending /\ request' = request
      BY <1>4, <1>11, <2>4
    <3>2. ~pending' /\ pending' \in BOOLEAN /\ line' = <<>> /\ request' \in Nat
      BY <1>3, <1>9, <1>11, <2>2, <3>1, Zenon
    <3> QED
      BY <2>2, <3>2 DEF EgoInv
  <2> QED
    BY <2>3, <2>4
<1> QED
  BY <1>10, <1>11

LEMMA EgoStep ==
  ASSUME EgoInv, [EgoNext]_egoVars
  PROVE  EgoInv' /\ (answer' # answer => Of(answer', request))
<1>1. CASE DelayEnds
  BY <1>1, EgoDelayEnds
<1>2. CASE DataEvent
  BY <1>2, EgoDataEvent
<1>3. CASE UNCHANGED egoVars
  <2>1. /\ request' = request /\ pending' = pending /\ frame' = frame /\ pc' = pc
        /\ received' = received /\ line' = line /\ answer' = answer
    BY <1>3 DEF egoVars
  <2> QED
    BY <2>1, Zenon DEF EgoInv
<1> QED
  BY <1>1, <1>2, <1>3 DEF EgoNext

\* A write of doStartup() never resolves with another frame than the one that ends the
\* answer to its own request, although handleOnSerialData() only counts frames.
THEOREM AnswersBelong == EgoSpec => AnswerBelongs
<1>1. EgoInit => EgoInv
  BY EgoStart
<1>2. EgoInv /\ [EgoNext]_egoVars => EgoInv'
  BY EgoStep
<1>3. EgoInv /\ [EgoNext]_egoVars =>
        [answer' # answer => answer'[Len(answer')].of = << request, "response" >>
                             /\ answer'[1].of = << request, "response" >>]_egoVars
  BY EgoStep DEF Of, Response
<1> QED
  BY <1>1, <1>2, <1>3, PTL DEF EgoSpec, AnswerBelongs
=============================================================================
