------------------------- MODULE PacketStreamProofs -------------------------
(***************************************************************************)
(* PacketStream: what is handled is exactly what was written, for every    *)
(* value of the constants.                                                 *)
(***************************************************************************)
EXTENDS PacketStream, SequenceTheorems, TLAPS

(***************************************************************************)
(* The loops of the model, one turn at a time.                             *)
(***************************************************************************)
Digits == INSTANCE FoldSteps WITH Op <- AddDigit
Puts == INSTANCE FoldSteps WITH Op <- Put
Writes == INSTANCE FoldSteps WITH Op <- WriteByte
Turns == INSTANCE FoldSteps WITH Op <- Turn
Knowing == INSTANCE FoldSteps WITH Op <- AddKnown
Joins == INSTANCE FoldSteps WITH Op <- \o

LEMMA DigitFolds ==
  ASSUME NEW v, NEW s
  PROVE  FoldLeft(AddDigit, v, s) = Digits!Folded(v, s)
  BY DEF FoldLeft, MapThenFoldSet, Max, Digits!Folded, Digits!FoldLeft,
         Digits!MapThenFoldSet, Digits!Max

LEMMA PutFolds ==
  ASSUME NEW v, NEW s
  PROVE  FoldLeft(Put, v, s) = Puts!Folded(v, s)
  BY DEF FoldLeft, MapThenFoldSet, Max, Puts!Folded, Puts!FoldLeft,
         Puts!MapThenFoldSet, Puts!Max

LEMMA WriteFolds ==
  ASSUME NEW v, NEW s
  PROVE  FoldLeft(WriteByte, v, s) = Writes!Folded(v, s)
  BY DEF FoldLeft, MapThenFoldSet, Max, Writes!Folded, Writes!FoldLeft,
         Writes!MapThenFoldSet, Writes!Max

LEMMA TurnFolds ==
  ASSUME NEW v, NEW s
  PROVE  FoldLeft(Turn, v, s) = Turns!Folded(v, s)
  BY DEF FoldLeft, MapThenFoldSet, Max, Turns!Folded, Turns!FoldLeft,
         Turns!MapThenFoldSet, Turns!Max

LEMMA KnownFolds ==
  ASSUME NEW v, NEW s
  PROVE  FoldLeft(AddKnown, v, s) = Knowing!Folded(v, s)
  BY DEF FoldLeft, MapThenFoldSet, Max, Knowing!Folded, Knowing!FoldLeft,
         Knowing!MapThenFoldSet, Knowing!Max

LEMMA JoinFolds ==
  ASSUME NEW v, NEW s
  PROVE  FoldLeft(\o, v, s) = Joins!Folded(v, s)
  BY DEF FoldLeft, MapThenFoldSet, Max, Joins!Folded, Joins!FoldLeft,
         Joins!MapThenFoldSet, Joins!Max
-----------------------------------------------------------------------------
(***************************************************************************)
(* Numbers and their digits.                                               *)
(***************************************************************************)
LEMMA Division ==
  ASSUME NEW n \in Nat, NEW d \in Nat, d > 0
  PROVE  /\ n \div d \in Nat /\ n % d \in Nat /\ n % d < d
         /\ n = d * (n \div d) + (n % d)
  OBVIOUS

LEMMA Quotient ==
  ASSUME NEW n \in Nat, NEW d \in Nat, d > 0,
         NEW q \in Nat, NEW r \in Nat, r < d, n = d * q + r
  PROVE  n \div d = q
  OBVIOUS

LEMMA Product ==
  ASSUME NEW a \in Nat, NEW b \in Nat
  PROVE  a * b \in Nat /\ (a > 0 /\ b > 0 => a * b > 0)
  OBVIOUS

LEMMA QuotientOfQuotient ==
  ASSUME NEW n \in Nat, NEW a \in Nat, a > 0, NEW b \in Nat, b > 0
  PROVE  (n \div a) \div b = n \div (a * b)
<1> DEFINE q == n \div a
           r == n % a
           p == q \div b
           s == q % b
           t == a * s + r
<1>1. q \in Nat /\ r \in Nat /\ r < a /\ n = a * q + r
  BY Division
<1>2. p \in Nat /\ s \in Nat /\ s < b /\ q = b * p + s
  BY <1>1, Division
<1>3. a * b \in Nat /\ a * b > 0
  BY Product
<1> HIDE DEF q, r, p, s
<1>4. a * s \in Nat /\ t \in Nat
  BY <1>1, <1>2
<1>5. t < a * b
  <2>1. b - s - 1 \in Nat
    BY <1>2
  <2>2. a * (b - s - 1) >= 0
    BY <2>1
  <2>3. a * (b - s - 1) = a * b - a * s - a
    BY <1>2
  <2> QED
    BY <1>1, <1>3, <1>4, <2>2, <2>3
<1>6. n = (a * b) * p + t
  <2>1. a * q = (a * b) * p + a * s
    BY <1>2
  <2> QED
    BY <1>1, <1>2, <1>3, <1>4, <2>1
<1> HIDE DEF t
<1> QED
  BY <1>2, <1>3, <1>4, <1>5, <1>6, Quotient DEF p, q

LEMMA QuotientBound ==
  ASSUME NEW n \in Nat, NEW a \in Nat, a > 0, NEW b \in Nat, n < b * a
  PROVE  n \div a < b
<1> DEFINE q == n \div a
           r == n % a
<1>1. q \in Nat /\ r \in Nat /\ n = a * q + r
  BY Division
<1>2. SUFFICES ASSUME q >= b PROVE FALSE
  BY <1>1
<1> HIDE DEF q, r
<1>3. q \in Nat /\ a * q \in Nat /\ a * q <= n
  BY <1>1
<1>4. a * (q - b) >= 0
  BY <1>2, <1>3
<1>5. a * (q - b) = a * q - b * a
  BY <1>3
<1>6. b * a \in Nat
  BY <1>3
<1> QED
  BY <1>3, <1>4, <1>5, <1>6

LEMMA Places ==
  /\ Base \in Nat /\ Base > 12
  /\ Place[1] = 1 /\ Place[2] = Base /\ Place[3] = Base * Base
  /\ Place[4] = Base * Base * Base
  /\ \A i \in 1..4 : Place[i] \in Nat /\ Place[i] > 0
  BY BaseAssumption DEF Place

LEMMA LittleEndianType ==
  ASSUME NEW n \in Nat, NEW size \in 0..4
  PROVE  /\ LittleEndian(n, size) \in Seq(Byte)
         /\ Len(LittleEndian(n, size)) = size
<1>1. ASSUME NEW i \in 1..size PROVE (n \div Place[i]) % Base \in Byte
  <2>1. n \div Place[i] \in Nat
    BY Places, Division
  <2>2. (n \div Place[i]) % Base \in Nat /\ (n \div Place[i]) % Base < Base
    BY <2>1, Places, Division
  <2> QED
    BY <2>2, Places DEF Byte
<1>2. LittleEndian(n, size) \in [1..size -> Byte]
  BY <1>1 DEF LittleEndian
<1> QED
  BY <1>2

LEMMA ReverseIs ==
  ASSUME NEW X, NEW s \in Seq(X)
  PROVE  /\ Reverse(s) \in Seq(X) /\ Len(Reverse(s)) = Len(s)
         /\ \A i \in 1..Len(s) : Reverse(s)[i] = s[(Len(s) - i) + 1]
         /\ Reverse(Reverse(s)) = s
<1> DEFINE n == Len(s)
           r == Reverse(s)
<1>1. n \in Nat /\ s \in [1..n -> X]
  OBVIOUS
<1> HIDE DEF n
<1>2. \A i \in 1..n : (n - i) + 1 \in 1..n /\ (n - ((n - i) + 1)) + 1 = i
  BY <1>1
<1>3. /\ r = [i \in 1..n |-> s[(n - i) + 1]]
  BY DEF Reverse, n
<1> HIDE DEF r
<1>4. r \in [1..n -> X]
  BY <1>1, <1>2, <1>3
<1>5. r \in Seq(X) /\ Len(r) = n
  BY <1>1, <1>4
<1>6. Reverse(r) = [i \in 1..n |-> r[(n - i) + 1]]
  BY <1>5 DEF Reverse
<1>7. \A i \in 1..n : r[(n - i) + 1] = s[i]
  BY <1>2, <1>3
<1>8. Reverse(r) = s
  BY <1>1, <1>6, <1>7
<1> QED
  BY <1>3, <1>5, <1>8 DEF r, n

LEMMA FlipType ==
  ASSUME NEW s \in Seq(Byte), NEW flip \in BOOLEAN
  PROVE  FlipEndian(s, flip) \in Seq(Byte) /\ Len(FlipEndian(s, flip)) = Len(s)
  BY ReverseIs DEF FlipEndian

\* What is written of a number is the same on hosts of either order.
LEMMA FlippedMemory ==
  ASSUME NEW n \in Nat, NEW size \in 0..4, NEW little \in BOOLEAN
  PROVE  FlipEndian(InMemory(n, size, little), ~little) = LittleEndian(n, size)
<1>1. LittleEndian(n, size) \in Seq(Byte)
  BY LittleEndianType
<1> QED
  BY <1>1, ReverseIs DEF FlipEndian, InMemory

LEMMA MemoryType ==
  ASSUME NEW n \in Nat, NEW size \in 0..4, NEW little \in BOOLEAN
  PROVE  InMemory(n, size, little) \in Seq(Byte)
<1>1. LittleEndian(n, size) \in Seq(Byte)
  BY LittleEndianType
<1> QED
  BY <1>1, ReverseIs DEF InMemory

\* And a host of either order reads the number that was written.
LEMMA NumberIsFold ==
  ASSUME NEW s \in Seq(Byte), NEW little \in BOOLEAN
  PROVE  Number(FlipEndian(s, ~little), little) =
           FoldLeft(AddDigit, 0, Reverse(s))
  BY ReverseIs DEF Number, FlipEndian

LEMMA NumberTrace ==
  ASSUME NEW n \in Nat, NEW size \in 0..4, NEW little \in BOOLEAN
  PROVE  \E f : /\ f[0] = 0
                /\ \A k \in 1..size :
                     f[k] = Base * f[k - 1] +
                              ((n \div Place[(size - k) + 1]) % Base)
                /\ Number(FlipEndian(LittleEndian(n, size), ~little), little) =
                     f[size]
<1> DEFINE s == LittleEndian(n, size)
           r == Reverse(s)
<1>1. s \in Seq(Byte) /\ Len(s) = size
  BY LittleEndianType
<1> HIDE DEF s
<1>2. /\ r \in Seq(Byte) /\ Len(r) = size
      /\ \A k \in 1..size : r[k] = s[(size - k) + 1]
  BY <1>1, ReverseIs
<1>3. Number(FlipEndian(s, ~little), little) = FoldLeft(AddDigit, 0, r)
  BY <1>1, NumberIsFold
<1> HIDE DEF r
<1>4. PICK f : /\ Digits!Trace(f, 0, r)
               /\ FoldLeft(AddDigit, 0, r) = f[size]
  BY <1>2, DigitFolds, Digits!FoldTrace
<1>5. ASSUME NEW k \in 1..size
      PROVE  f[k] = Base * f[k - 1] + ((n \div Place[(size - k) + 1]) % Base)
  <2>1. f[k] = Base * f[k - 1] + r[k]
    BY <1>2, <1>4 DEF Digits!Trace, AddDigit
  <2>2. (size - k) + 1 \in 1..size
    OBVIOUS
  <2>3. r[k] = ((n \div Place[(size - k) + 1]) % Base)
    BY <1>2, <2>2 DEF s, LittleEndian
  <2> QED
    BY <2>1, <2>3
<1>6. f[0] = 0
  BY <1>4 DEF Digits!Trace
<1> QED
  BY <1>3, <1>4, <1>5, <1>6 DEF s

LEMMA SmallDigit ==
  ASSUME NEW n \in Nat, n < Base
  PROVE  n % Base = n /\ Base * 0 + n = n
  BY Places

LEMMA ReadTwoBytes ==
  ASSUME NEW n \in Nat, n < Base * Base, NEW little \in BOOLEAN
  PROVE  Number(FlipEndian(LittleEndian(n, 2), ~little), little) = n
<1>1. PICK f : /\ f[0] = 0
               /\ \A k \in 1..2 : f[k] = Base * f[k - 1] +
                                    ((n \div Place[(2 - k) + 1]) % Base)
               /\ Number(FlipEndian(LittleEndian(n, 2), ~little), little) = f[2]
  BY NumberTrace
<1> DEFINE q == n \div Base
           r == n % Base
<1>2. q \in Nat /\ r \in Nat /\ r < Base /\ n = Base * q + r
  BY Places, Division
<1>3. q < Base
  BY Places, QuotientBound
<1>4. n \div Place[1] = n /\ n \div Place[2] = q
  BY Places
<1>5. f[1] = Base * f[0] + ((n \div Place[2]) % Base)
  <2>1. 1 \in 1..2 /\ 1 - 1 = 0 /\ (2 - 1) + 1 = 2
    OBVIOUS
  <2> QED
    BY <1>1, <2>1
<1>6. f[2] = Base * f[1] + ((n \div Place[1]) % Base)
  <2>1. 2 \in 1..2 /\ 2 - 1 = 1 /\ (2 - 2) + 1 = 1
    OBVIOUS
  <2> QED
    BY <1>1, <2>1
<1>7. f[1] = Base * 0 + (q % Base)
  BY <1>1, <1>4, <1>5
<1>8. f[2] = Base * f[1] + r
  BY <1>4, <1>6
<1> HIDE DEF q, r
<1>9. f[1] = q
  BY <1>2, <1>3, <1>7, SmallDigit
<1> QED
  BY <1>1, <1>2, <1>8, <1>9

LEMMA ReadFourBytes ==
  ASSUME NEW n \in Nat, n < Base * Place[4], NEW little \in BOOLEAN
  PROVE  Number(FlipEndian(LittleEndian(n, 4), ~little), little) = n
<1>1. PICK f : /\ f[0] = 0
               /\ \A k \in 1..4 : f[k] = Base * f[k - 1] +
                                    ((n \div Place[(4 - k) + 1]) % Base)
               /\ Number(FlipEndian(LittleEndian(n, 4), ~little), little) = f[4]
  BY NumberTrace
<1> DEFINE q == n \div Base
           r == n % Base
           q2 == q \div Base
           r2 == q % Base
           q3 == q2 \div Base
           r3 == q2 % Base
<1>2. q \in Nat /\ r \in Nat /\ r < Base /\ n = Base * q + r
  BY Places, Division
<1>3. q2 \in Nat /\ r2 \in Nat /\ r2 < Base /\ q = Base * q2 + r2
  BY <1>2, Places, Division
<1>4. q3 \in Nat /\ r3 \in Nat /\ r3 < Base /\ q2 = Base * q3 + r3
  BY <1>3, Places, Division
<1>5. /\ Base * Base \in Nat /\ Base * Base > 0
      /\ Base * Base * Base \in Nat /\ Base * Base * Base > 0
  BY Places, Product
<1>6. n \div Place[1] = n /\ n \div Place[2] = q
  BY Places
<1>7. n \div Place[3] = q2
  BY Places, QuotientOfQuotient
<1>8. n \div Place[4] = q3
  <2>1. (n \div (Base * Base)) \div Base = n \div (Base * Base * Base)
    BY <1>5, Places, QuotientOfQuotient
  <2> QED
    BY <1>7, <2>1, Places
<1>9. n \div Place[4] < Base
  BY <1>5, Places, QuotientBound
<1>10. f[1] = Base * f[0] + ((n \div Place[4]) % Base)
  <2>1. 1 \in 1..4 /\ 1 - 1 = 0 /\ (4 - 1) + 1 = 4
    OBVIOUS
  <2> QED
    BY <1>1, <2>1
<1>11. f[2] = Base * f[1] + ((n \div Place[3]) % Base)
  <2>1. 2 \in 1..4 /\ 2 - 1 = 1 /\ (4 - 2) + 1 = 3
    OBVIOUS
  <2> QED
    BY <1>1, <2>1
<1>12. f[3] = Base * f[2] + ((n \div Place[2]) % Base)
  <2>1. 3 \in 1..4 /\ 3 - 1 = 2 /\ (4 - 3) + 1 = 2
    OBVIOUS
  <2> QED
    BY <1>1, <2>1
<1>13. f[4] = Base * f[3] + ((n \div Place[1]) % Base)
  <2>1. 4 \in 1..4 /\ 4 - 1 = 3 /\ (4 - 4) + 1 = 1
    OBVIOUS
  <2> QED
    BY <1>1, <2>1
<1>14. f[1] = Base * 0 + (q3 % Base) /\ q3 < Base
  BY <1>1, <1>8, <1>9, <1>10
<1>15. f[2] = Base * f[1] + r3 /\ f[3] = Base * f[2] + r2
  BY <1>6, <1>7, <1>11, <1>12
<1>16. f[4] = Base * f[3] + r
  BY <1>6, <1>13
<1> HIDE DEF q, r, q2, r2, q3, r3
<1>17. f[1] = q3
  BY <1>4, <1>14, SmallDigit
<1>18. f[2] = q2
  BY <1>4, <1>15, <1>17
<1>19. f[3] = q
  BY <1>3, <1>15, <1>18
<1> QED
  BY <1>1, <1>2, <1>16, <1>19
-----------------------------------------------------------------------------
(***************************************************************************)
(* Writing behind all that a buffer holds.                                 *)
(***************************************************************************)
After(s) == [bytes |-> s, at |-> Len(s)]

LEMMA ConcatAppend ==
  ASSUME NEW X, NEW s \in Seq(X), NEW t \in Seq(X), NEW x \in X
  PROVE  s \o Append(t, x) = Append(s \o t, x)
<1>1. Append(t, x) = t \o <<x>> /\ <<x>> \in Seq(X)
  BY AppendIsConcat
<1>2. s \o t \in Seq(X)
  OBVIOUS
<1>3. Append(s \o t, x) = (s \o t) \o <<x>>
  BY <1>2, AppendIsConcat
<1> QED
  BY <1>1, <1>3, ConcatAssociative

LEMMA Prefix ==
  ASSUME NEW X, NEW s \in Seq(X), NEW t \in Seq(X), NEW k \in 1..Len(t)
  PROVE  s \o SubSeq(t, 1, k) = Append(s \o SubSeq(t, 1, k - 1), t[k])
<1>1. /\ SubSeq(t, 1, k) \in Seq(X) /\ Len(SubSeq(t, 1, k)) = k
      /\ \A i \in 1..k : SubSeq(t, 1, k)[i] = t[i]
  OBVIOUS
<1>2. /\ SubSeq(t, 1, k - 1) \in Seq(X) /\ Len(SubSeq(t, 1, k - 1)) = k - 1
      /\ \A i \in 1..(k - 1) : SubSeq(t, 1, k - 1)[i] = t[i]
  OBVIOUS
<1> DEFINE a == SubSeq(t, 1, k)
           b == SubSeq(t, 1, k - 1)
<1>3. t[k] \in X /\ k \in Nat
  OBVIOUS
<1> HIDE DEF a, b
<1>4. a = Append(b, t[k])
  <2>1. Append(b, t[k]) \in Seq(X) /\ Len(Append(b, t[k])) = k
    BY <1>2, <1>3 DEF b
  <2>2. ASSUME NEW i \in 1..k PROVE a[i] = Append(b, t[k])[i]
    BY <1>1, <1>2, <1>3 DEF a, b
  <2> QED
    BY <1>1, <1>3, <2>1, <2>2, SeqEqual DEF a
<1>5. s \o Append(b, t[k]) = Append(s \o b, t[k])
  <2>1. b \in Seq(X) /\ t[k] \in X
    BY <1>2, <1>3 DEF b
  <2> QED
    BY <2>1, ConcatAppend
<1> QED
  BY <1>4, <1>5 DEF a, b

LEMMA PutAfter ==
  ASSUME NEW s \in Seq(Byte), NEW byte \in Byte, NEW index \in Nat
  PROVE  Put(After(s), [byte |-> byte, index |-> index]) =
           After(Append(s, byte))
<1>1. Len(s) \in Nat /\ Len(s) + index >= Len(s)
  OBVIOUS
<1>2. Len(Append(s, byte)) = Len(s) + 1
  OBVIOUS
<1> QED
  BY <1>1, <1>2 DEF Put, After

LEMMA WriteAfter ==
  ASSUME NEW s \in Seq(Byte), NEW value \in Seq(Byte), NEW flip \in BOOLEAN
  PROVE  Write(After(s), value, flip) = After(s \o FlipEndian(value, flip))
<1> DEFINE data == FlipEndian(value, flip)
           n == Len(data)
           e == [i \in 1..n |-> [byte |-> data[i], index |-> i - 1]]
           f == [k \in 0..n |-> After(s \o SubSeq(data, 1, k))]
<1>1. data \in Seq(Byte)
  BY FlipType
<1>2. Write(After(s), value, flip) = FoldLeft(Put, After(s), e)
  BY DEF Write
<1> HIDE DEF data
<1>3. n \in Nat /\ e \in Seq([byte : Byte, index : Nat]) /\ Len(e) = n
  BY <1>1
<1>4. f[0] = After(s)
  <2>1. SubSeq(data, 1, 0) = <<>> /\ s \o <<>> = s
    BY <1>1
  <2>2. f[0] = After(s \o SubSeq(data, 1, 0))
    BY <1>3
  <2> QED
    BY <2>1, <2>2
<1>5. ASSUME NEW k \in 1..n PROVE f[k] = Put(f[k - 1], e[k])
  <2>1. k \in 0..n /\ k - 1 \in 0..n /\ k - 1 \in Nat
    BY <1>3
  <2>2. s \o SubSeq(data, 1, k - 1) \in Seq(Byte) /\ data[k] \in Byte
    BY <1>1
  <2>3. s \o SubSeq(data, 1, k) = Append(s \o SubSeq(data, 1, k - 1), data[k])
    BY <1>1, Prefix
  <2>4. e[k] = [byte |-> data[k], index |-> k - 1]
    OBVIOUS
  <2>5. f[k - 1] = After(s \o SubSeq(data, 1, k - 1))
    BY <2>1
  <2>6. f[k] = After(s \o SubSeq(data, 1, k))
    BY <2>1
  <2> HIDE DEF e, f, n
  <2> QED
    BY <2>1, <2>2, <2>3, <2>4, <2>5, <2>6, PutAfter
<1>6. f[n] = After(s \o data)
  <2>1. SubSeq(data, 1, n) = data
    BY <1>1
  <2>2. f[n] = After(s \o SubSeq(data, 1, n))
    BY <1>3
  <2> QED
    BY <2>1, <2>2
<1> HIDE DEF e, f
<1>7. Puts!Trace(f, After(s), e)
  BY <1>3, <1>4, <1>5 DEF Puts!Trace
<1>8. FoldLeft(Put, After(s), e) = f[n]
  BY <1>3, <1>7, PutFolds, Puts!TraceFold
<1> QED
  BY <1>2, <1>6, <1>8 DEF data

LEMMA WriteArrayAfter ==
  ASSUME NEW s \in Seq(Byte), NEW bytes \in Seq(Byte)
  PROVE  WriteArray(After(s), bytes) = After(s \o bytes)
<1> DEFINE n == Len(bytes)
           f == [k \in 0..n |-> After(s \o SubSeq(bytes, 1, k))]
<1>1. n \in Nat
  OBVIOUS
<1>2. f[0] = After(s)
  OBVIOUS
<1>3. ASSUME NEW k \in 1..n PROVE f[k] = WriteByte(f[k - 1], bytes[k])
  <2>1. k \in 0..n /\ k - 1 \in 0..n
    OBVIOUS
  <2> DEFINE t == s \o SubSeq(bytes, 1, k - 1)
  <2>2. t \in Seq(Byte) /\ bytes[k] \in Byte /\ <<bytes[k]>> \in Seq(Byte)
    OBVIOUS
  <2>3. s \o SubSeq(bytes, 1, k) = Append(t, bytes[k])
    BY Prefix
  <2>4. f[k - 1] = After(t) /\ f[k] = After(Append(t, bytes[k]))
    BY <2>1, <2>3
  <2> HIDE DEF t, f, n
  <2>5. WriteByte(After(t), bytes[k]) = After(t \o <<bytes[k]>>)
    BY <2>2, WriteAfter DEF WriteByte, FlipEndian
  <2>6. t \o <<bytes[k]>> = Append(t, bytes[k])
    BY <2>2
  <2> QED
    BY <2>4, <2>5, <2>6
<1>4. f[n] = After(s \o bytes)
  OBVIOUS
<1> HIDE DEF f
<1>5. Writes!Trace(f, After(s), bytes)
  BY <1>2, <1>3 DEF Writes!Trace
<1> QED
  BY <1>4, <1>5, WriteFolds, Writes!TraceFold DEF WriteArray
-----------------------------------------------------------------------------
(***************************************************************************)
(* The bytes of a packet, which are the same on hosts of either order.     *)
(***************************************************************************)
BodyBytes(p) ==
  (((<<UInt16Tag>> \o LittleEndian(p.result, 2)) \o <<StringTag>>)
    \o LittleEndian(Len(p.text), 4)) \o p.text

PacketBytes(p) ==
  ((<<p.component>> \o LittleEndian(p.type, 2))
    \o LittleEndian(Len(BodyBytes(p)), 4)) \o BodyBytes(p)

LEMMA PacketType ==
  ASSUME NEW p \in Packet
  PROVE  /\ p \in [component : 0..2, type : Byte, result : Byte, text : Seq(Byte)]
         /\ p.component \in Byte /\ p.component \in 0..2
         /\ p.type \in Byte /\ p.type \in Nat /\ p.type < Base * Base
         /\ p.result \in Byte /\ p.result \in Nat /\ p.result < Base * Base
         /\ p.text \in Seq(Byte) /\ Len(p.text) \in Nat
<1>1. p \in [component : 0..2, type : Byte, result : Byte, text : Seq(Byte)]
  BY StreamAssumption
<1>2. \A n \in Byte : n \in Nat /\ n < Base * Base
  <2> SUFFICES ASSUME NEW n \in 0..(Base - 1) PROVE n \in Nat /\ n < Base * Base
    BY DEF Byte
  <2>1. Base * (Base - 1) >= 0 /\ Base * (Base - 1) = Base * Base - Base
    BY Places
  <2> QED
    BY <2>1, Places
<1>3. 0..2 \subseteq Byte
  BY Places DEF Byte
<1>4. p.component \in 0..2 /\ p.type \in Byte /\ p.result \in Byte
  BY <1>1
<1>5. p.text \in Seq(Byte) /\ Len(p.text) \in Nat
  BY <1>1
<1> QED
  BY <1>1, <1>2, <1>3, <1>4, <1>5

LEMMA Tags ==
  UInt16Tag \in Byte /\ StringTag \in Byte /\ 2 \in 0..4 /\ 4 \in 0..4
  BY Places DEF UInt16Tag, StringTag, Byte

LEMMA WriteNumberAfter ==
  ASSUME NEW s \in Seq(Byte), NEW n \in Nat, NEW size \in 0..4,
         NEW little \in BOOLEAN
  PROVE  /\ Write(After(s), InMemory(n, size, little), ~little) =
              After(s \o LittleEndian(n, size))
         /\ s \o LittleEndian(n, size) \in Seq(Byte)
<1>1. /\ InMemory(n, size, little) \in Seq(Byte)
      /\ LittleEndian(n, size) \in Seq(Byte)
      /\ FlipEndian(InMemory(n, size, little), ~little) = LittleEndian(n, size)
  BY MemoryType, LittleEndianType, FlippedMemory
<1>2. (~little) \in BOOLEAN
  OBVIOUS
<1>3. Write(After(s), InMemory(n, size, little), ~little) =
        After(s \o LittleEndian(n, size))
  BY <1>1, <1>2, WriteAfter
<1> QED
  BY <1>1, <1>3

LEMMA FlipOne ==
  ASSUME NEW byte \in Byte, NEW flip \in BOOLEAN
  PROVE  FlipEndian(<<byte>>, flip) = <<byte>>
<1>1. <<byte>> \in Seq(Byte) /\ Len(<<byte>>) = 1
  OBVIOUS
<1>2. 1 \in 1..Len(<<byte>>) /\ (Len(<<byte>>) - 1) + 1 = 1
  BY <1>1
<1>3. /\ Reverse(<<byte>>) \in Seq(Byte) /\ Len(Reverse(<<byte>>)) = 1
      /\ Reverse(<<byte>>)[1] = <<byte>>[1]
  BY <1>1, <1>2, ReverseIs
<1>4. Reverse(<<byte>>) = <<byte>>
  BY <1>1, <1>3, SeqEqual
<1> QED
  BY <1>4 DEF FlipEndian

LEMMA WriteOneAfter ==
  ASSUME NEW s \in Seq(Byte), NEW byte \in Byte, NEW flip \in BOOLEAN
  PROVE  /\ Write(After(s), <<byte>>, flip) = After(s \o <<byte>>)
         /\ s \o <<byte>> \in Seq(Byte)
<1>1. <<byte>> \in Seq(Byte)
  OBVIOUS
<1>2. Write(After(s), <<byte>>, flip) = After(s \o FlipEndian(<<byte>>, flip))
  BY <1>1, WriteAfter
<1> QED
  BY <1>1, <1>2, FlipOne

LEMMA WriteScalarAfter ==
  ASSUME NEW s \in Seq(Byte), NEW tag \in Byte, NEW n \in Nat,
         NEW size \in 0..4, NEW little \in BOOLEAN
  PROVE  /\ WriteScalar(After(s), tag, InMemory(n, size, little), ~little) =
              After((s \o <<tag>>) \o LittleEndian(n, size))
         /\ (s \o <<tag>>) \o LittleEndian(n, size) \in Seq(Byte)
<1>1. (~little) \in BOOLEAN
  OBVIOUS
<1>2. /\ Write(After(s), <<tag>>, ~little) = After(s \o <<tag>>)
      /\ s \o <<tag>> \in Seq(Byte)
  BY <1>1, WriteOneAfter
<1> DEFINE t == s \o <<tag>>
<1>3. t \in Seq(Byte)
  BY <1>2
<1> HIDE DEF t
<1>4. /\ Write(After(t), InMemory(n, size, little), ~little) =
            After(t \o LittleEndian(n, size))
      /\ t \o LittleEndian(n, size) \in Seq(Byte)
  BY <1>3, WriteNumberAfter
<1> QED
  BY <1>2, <1>4 DEF WriteScalar, t

LEMMA BodyIs ==
  ASSUME NEW p \in Packet, NEW little \in BOOLEAN
  PROVE  /\ Body(p, little) = After(BodyBytes(p))
         /\ BodyBytes(p) \in Seq(Byte)
<1> DEFINE a == <<UInt16Tag>> \o LittleEndian(p.result, 2)
           b == (a \o <<StringTag>>) \o LittleEndian(Len(p.text), 4)
<1>1. EmptyBuffer = After(<<>>) /\ <<>> \in Seq(Byte)
  BY DEF EmptyBuffer, After
<1>2. <<>> \o <<UInt16Tag>> = <<UInt16Tag>>
  BY Tags
<1>3. /\ WriteScalar(EmptyBuffer, UInt16Tag, InMemory(p.result, 2, little),
                     ~little) = After(a)
      /\ a \in Seq(Byte)
  <2>1. /\ WriteScalar(After(<<>>), UInt16Tag, InMemory(p.result, 2, little),
                        ~little) =
             After((<<>> \o <<UInt16Tag>>) \o LittleEndian(p.result, 2))
        /\ (<<>> \o <<UInt16Tag>>) \o LittleEndian(p.result, 2) \in Seq(Byte)
    <3> DEFINE n == p.result
               e == <<>>
    <3>1. n \in Nat /\ UInt16Tag \in Byte /\ 2 \in 0..4
      BY Tags, PacketType
    <3>2. e \in Seq(Byte)
      BY <1>1
    <3> HIDE DEF n, e
    <3>3. /\ WriteScalar(After(e), UInt16Tag, InMemory(n, 2, little), ~little) =
               After((e \o <<UInt16Tag>>) \o LittleEndian(n, 2))
          /\ (e \o <<UInt16Tag>>) \o LittleEndian(n, 2) \in Seq(Byte)
      BY <3>1, <3>2, WriteScalarAfter
    <3> QED
      BY <3>3 DEF n, e
  <2> QED
    BY <1>1, <1>2, <2>1
<1> HIDE DEF a
<1>4. /\ WriteScalar(After(a), StringTag, InMemory(Len(p.text), 4, little),
                     ~little) = After(b)
      /\ b \in Seq(Byte)
  <2> DEFINE n == Len(p.text)
  <2>1. n \in Nat /\ StringTag \in Byte /\ 4 \in 0..4
    BY Tags, PacketType
  <2> HIDE DEF n
  <2>2. /\ WriteScalar(After(a), StringTag, InMemory(n, 4, little), ~little) =
             After((a \o <<StringTag>>) \o LittleEndian(n, 4))
        /\ (a \o <<StringTag>>) \o LittleEndian(n, 4) \in Seq(Byte)
    BY <1>3, <2>1, WriteScalarAfter
  <2> QED
    BY <2>2 DEF n, b
<1> HIDE DEF b
<1>5. WriteArray(After(b), p.text) = After(b \o p.text)
  BY <1>4, PacketType, WriteArrayAfter
<1>6. b \o p.text \in Seq(Byte)
  BY <1>4, PacketType
<1>7. b \o p.text = BodyBytes(p)
  BY DEF a, b, BodyBytes
<1> QED
  BY <1>3, <1>4, <1>5, <1>6, <1>7 DEF Body, WriteString

LEMMA EncodeIs ==
  ASSUME NEW p \in Packet, NEW little \in BOOLEAN
  PROVE  /\ Encode(p, little) = PacketBytes(p)
         /\ Encoded[p][little] = PacketBytes(p)
         /\ PacketBytes(p) \in Seq(Byte)
<1> DEFINE body == BodyBytes(p)
           c == <<p.component>>
           d == c \o LittleEndian(p.type, 2)
           e == d \o LittleEndian(Len(body), 4)
<1>1. Body(p, little).bytes = body /\ body \in Seq(Byte) /\ Len(body) \in Nat
  BY BodyIs DEF After
<1>2. EmptyBuffer = After(<<>>) /\ <<>> \in Seq(Byte) /\ (~little) \in BOOLEAN
  BY DEF EmptyBuffer, After
<1>3. <<>> \o c = c /\ c \in Seq(Byte)
  BY PacketType
<1>4. Write(EmptyBuffer, c, ~little) = After(c)
  BY <1>2, <1>3, PacketType, WriteOneAfter
<1> HIDE DEF body, c
<1>5. /\ Write(After(c), InMemory(p.type, 2, little), ~little) = After(d)
      /\ d \in Seq(Byte)
  BY <1>3, PacketType, Tags, WriteNumberAfter
<1> HIDE DEF d
<1>6. /\ Write(After(d), InMemory(Len(body), 4, little), ~little) = After(e)
      /\ e \in Seq(Byte)
  BY <1>1, <1>5, Tags, WriteNumberAfter
<1> HIDE DEF e
<1>7. WriteArray(After(e), body) = After(e \o body) /\ e \o body \in Seq(Byte)
  BY <1>1, <1>6, WriteArrayAfter
<1>8. e \o body = PacketBytes(p)
  BY DEF e, d, c, body, PacketBytes
<1>9. Encode(p, little) = (e \o body)
  <2>1. Encode(p, little) =
          WriteArray(Write(Write(Write(EmptyBuffer, c, ~little),
                                 InMemory(p.type, 2, little), ~little),
                           InMemory(Len(body), 4, little), ~little), body).bytes
    BY <1>1 DEF Encode, c
  <2>2. After(e \o body).bytes = (e \o body)
    BY DEF After
  <2> QED
    BY <1>4, <1>5, <1>6, <1>7, <2>1, <2>2
<1>10. Encoded[p][little] = Encode(p, little)
  BY DEF Encoded
<1> QED
  BY <1>7, <1>8, <1>9, <1>10
-----------------------------------------------------------------------------
(***************************************************************************)
(* Where the parts of a packet are.                                        *)
(***************************************************************************)
Holds(s, a, t) == a + Len(t) <= Len(s) /\ SubSeq(s, a + 1, a + Len(t)) = t

LEMMA HoldsParts ==
  ASSUME NEW X, NEW s \in Seq(X), NEW t \in Seq(X), NEW a \in Nat, Holds(s, a, t),
         NEW u \in Seq(X), NEW b \in Nat, Holds(t, b, u)
  PROVE  Holds(s, a + b, u)
<1> DEFINE n == Len(s)
           m == Len(t)
           k == Len(u)
           v == SubSeq(s, (a + b) + 1, (a + b) + k)
<1>1. n \in Nat /\ m \in Nat /\ k \in Nat /\ a + m <= n /\ b + k <= m
  BY DEF Holds
<1>2. \A i \in 1..m : s[a + i] = t[i]
  <2> SUFFICES ASSUME NEW i \in 1..m PROVE s[a + i] = t[i]
    OBVIOUS
  <2>1. t = SubSeq(s, a + 1, a + m)
    BY DEF Holds
  <2>2. \A j \in (a + 1)..(a + m) : s[j] \in X
    BY <1>1
  <2>3. \A j \in 1..((a + m) - (a + 1) + 1) :
          SubSeq(s, a + 1, a + m)[j] = s[(a + 1) + j - 1]
    BY <1>1, <2>2, SubSeqProperties
  <2>4. i \in 1..((a + m) - (a + 1) + 1) /\ (a + 1) + i - 1 = a + i
    BY <1>1
  <2> QED
    BY <2>1, <2>3, <2>4
<1>3. \A i \in 1..k : t[b + i] = u[i]
  <2> SUFFICES ASSUME NEW i \in 1..k PROVE t[b + i] = u[i]
    OBVIOUS
  <2>1. u = SubSeq(t, b + 1, b + k)
    BY DEF Holds
  <2>2. \A j \in (b + 1)..(b + k) : t[j] \in X
    BY <1>1
  <2>3. \A j \in 1..((b + k) - (b + 1) + 1) :
          SubSeq(t, b + 1, b + k)[j] = t[(b + 1) + j - 1]
    BY <1>1, <2>2, SubSeqProperties
  <2>4. i \in 1..((b + k) - (b + 1) + 1) /\ (b + 1) + i - 1 = b + i
    BY <1>1
  <2> QED
    BY <2>1, <2>3, <2>4
<1>4. \A j \in ((a + b) + 1)..((a + b) + k) : s[j] \in X
  BY <1>1
<1>5. /\ v \in Seq(X)
      /\ Len(v) = IF (a + b) + 1 <= (a + b) + k
                  THEN ((a + b) + k) - ((a + b) + 1) + 1 ELSE 0
      /\ \A i \in 1..(((a + b) + k) - ((a + b) + 1) + 1) :
           v[i] = s[((a + b) + 1) + i - 1]
  BY <1>1, <1>4, SubSeqProperties
<1>6. Len(v) = k
  BY <1>1, <1>5
<1>7. ASSUME NEW i \in 1..k PROVE v[i] = u[i]
  <2>1. i \in 1..(((a + b) + k) - ((a + b) + 1) + 1)
    BY <1>1
  <2>2. ((a + b) + 1) + i - 1 = a + (b + i) /\ b + i \in 1..m
    BY <1>1
  <2> QED
    BY <1>2, <1>3, <1>5, <2>1, <2>2
<1>8. v = u
  BY <1>5, <1>6, <1>7, SeqEqual
<1> QED
  BY <1>1, <1>8 DEF Holds

LEMMA HoldsMiddle ==
  ASSUME NEW X, NEW s \in Seq(X), NEW t \in Seq(X), NEW u \in Seq(X)
  PROVE  Holds((s \o t) \o u, Len(s), t)
<1> DEFINE w == (s \o t) \o u
           n == Len(s)
           m == Len(t)
           v == SubSeq(w, n + 1, n + m)
<1>1. n \in Nat /\ m \in Nat /\ Len(u) \in Nat
  OBVIOUS
<1>2. /\ s \o t \in Seq(X) /\ Len(s \o t) = n + m
      /\ \A i \in 1..(n + m) : (s \o t)[i] = IF i <= n THEN s[i] ELSE t[i - n]
  BY ConcatProperties
<1>3. /\ w \in Seq(X) /\ Len(w) = (n + m) + Len(u)
      /\ \A i \in 1..((n + m) + Len(u)) :
           w[i] = IF i <= n + m THEN (s \o t)[i] ELSE u[i - (n + m)]
  BY <1>2, ConcatProperties
<1> HIDE DEF w
<1>4. \A i \in (n + 1)..(n + m) : w[i] \in X
  BY <1>1, <1>3
<1>5. /\ v \in Seq(X)
      /\ Len(v) = IF n + 1 <= n + m THEN (n + m) - (n + 1) + 1 ELSE 0
      /\ \A i \in 1..((n + m) - (n + 1) + 1) : v[i] = w[(n + 1) + i - 1]
  BY <1>1, <1>4, SubSeqProperties
<1>6. Len(v) = m
  BY <1>1, <1>5
<1>7. ASSUME NEW i \in 1..m PROVE v[i] = t[i]
  <2>1. /\ i \in 1..((n + m) - (n + 1) + 1) /\ (n + 1) + i - 1 = n + i
        /\ n + i \in 1..(n + m) /\ n + i \in 1..((n + m) + Len(u))
        /\ ~(n + i <= n) /\ (n + i) - n = i /\ n + i <= n + m
    BY <1>1
  <2> QED
    BY <1>2, <1>3, <1>5, <2>1
<1>8. v = t
  BY <1>5, <1>6, <1>7, SeqEqual
<1>9. n + m <= Len(w)
  BY <1>1, <1>3
<1> QED
  BY <1>8, <1>9 DEF Holds, w

LEMMA HoldsEnds ==
  ASSUME NEW X, NEW s \in Seq(X), NEW t \in Seq(X)
  PROVE  Holds(s \o t, 0, s) /\ Holds(s \o t, Len(s), t)
<1>1. <<>> \in Seq(X) /\ Len(<<>>) = 0 /\ <<>> \o s = s
  OBVIOUS
<1>2. s \o t \in Seq(X) /\ (s \o t) \o <<>> = s \o t
  OBVIOUS
<1>3. Holds((<<>> \o s) \o t, Len(<<>>), s)
  BY <1>1, HoldsMiddle
<1>4. Holds((s \o t) \o <<>>, Len(s), t)
  BY <1>1, HoldsMiddle
<1> QED
  BY <1>1, <1>2, <1>3, <1>4

LEMMA Joined ==
  ASSUME NEW s \in Seq(Byte), NEW t \in Seq(Byte)
  PROVE  /\ s \o t \in Seq(Byte) /\ Len(s \o t) = Len(s) + Len(t)
         /\ Holds(s \o t, 0, s) /\ Holds(s \o t, Len(s), t)
  BY HoldsEnds

LEMMA HoldsLonger ==
  ASSUME NEW X, NEW s \in Seq(X), NEW t \in Seq(X), NEW a \in Nat, Holds(s, a, t),
         NEW u \in Seq(X)
  PROVE  Holds(s \o u, a, t)
<1>1. Holds(s \o u, 0, s) /\ s \o u \in Seq(X) /\ 0 \in Nat /\ 0 + a = a
  BY HoldsEnds
<1>2. Holds(s \o u, 0 + a, t)
  BY <1>1, HoldsParts
<1> QED
  BY <1>1, <1>2

LEMMA BodyLayout ==
  ASSUME NEW p \in Packet
  PROVE  /\ Len(BodyBytes(p)) = 8 + Len(p.text)
         /\ Holds(BodyBytes(p), 0, <<UInt16Tag>>)
         /\ Holds(BodyBytes(p), 1, LittleEndian(p.result, 2))
         /\ Holds(BodyBytes(p), 3, <<StringTag>>)
         /\ Holds(BodyBytes(p), 4, LittleEndian(Len(p.text), 4))
         /\ Holds(BodyBytes(p), 8, p.text)
<1> DEFINE t == <<UInt16Tag>>
           r == LittleEndian(p.result, 2)
           g == <<StringTag>>
           n == LittleEndian(Len(p.text), 4)
           x == p.text
           c1 == t \o r
           c2 == c1 \o g
           c3 == c2 \o n
           c4 == c3 \o x
<1>1. /\ t \in Seq(Byte) /\ g \in Seq(Byte) /\ r \in Seq(Byte)
      /\ n \in Seq(Byte) /\ x \in Seq(Byte)
  BY PacketType, Tags, LittleEndianType
<1>2. Len(t) = 1 /\ Len(r) = 2 /\ Len(g) = 1 /\ Len(n) = 4 /\ Len(x) \in Nat
  BY PacketType, Tags, LittleEndianType
<1>3. c4 = BodyBytes(p)
  BY DEF BodyBytes
<1> HIDE DEF t, r, g, n, x
<1>4. /\ c1 \in Seq(Byte) /\ Len(c1) = Len(t) + Len(r)
      /\ Holds(c1, 0, t) /\ Holds(c1, Len(t), r)
  BY <1>1, Joined
<1> HIDE DEF c1
<1>5. c2 \in Seq(Byte) /\ Len(c2) = Len(c1) + Len(g) /\ Holds(c2, Len(c1), g)
  BY <1>1, <1>4, Joined
<1>6. Holds(c2, 0, t) /\ Holds(c2, Len(t), r)
  BY <1>1, <1>4, HoldsLonger
<1> HIDE DEF c2
<1>7. c3 \in Seq(Byte) /\ Len(c3) = Len(c2) + Len(n) /\ Holds(c3, Len(c2), n)
  BY <1>1, <1>5, Joined
<1>8. Holds(c3, 0, t) /\ Holds(c3, Len(t), r) /\ Holds(c3, Len(c1), g)
  BY <1>1, <1>4, <1>5, <1>6, HoldsLonger
<1> HIDE DEF c3
<1>9. Len(c4) = Len(c3) + Len(x) /\ Holds(c4, Len(c3), x)
  BY <1>1, <1>7, Joined
<1>10. /\ Holds(c4, 0, t) /\ Holds(c4, Len(t), r) /\ Holds(c4, Len(c1), g)
       /\ Holds(c4, Len(c2), n)
  BY <1>1, <1>4, <1>5, <1>7, <1>8, HoldsLonger
<1>11. Len(c1) = 3 /\ Len(c2) = 4 /\ Len(c3) = 8
  BY <1>2, <1>4, <1>5, <1>7
<1> QED
  BY <1>2, <1>3, <1>9, <1>10, <1>11 DEF t, r, g, n, x

LEMMA PacketLayout ==
  ASSUME NEW p \in Packet
  PROVE  /\ Len(PacketBytes(p)) = 7 + Len(BodyBytes(p))
         /\ Holds(PacketBytes(p), 0, <<p.component>>)
         /\ Holds(PacketBytes(p), 1, LittleEndian(p.type, 2))
         /\ Holds(PacketBytes(p), 3, LittleEndian(Len(BodyBytes(p)), 4))
         /\ Holds(PacketBytes(p), 7, BodyBytes(p))
<1> DEFINE c == <<p.component>>
           t == LittleEndian(p.type, 2)
           x == BodyBytes(p)
           n == LittleEndian(Len(x), 4)
           c1 == c \o t
           c2 == c1 \o n
           c3 == c2 \o x
<1>1. x \in Seq(Byte) /\ Len(x) \in Nat
  <2>1. TRUE \in BOOLEAN
    OBVIOUS
  <2>2. x \in Seq(Byte)
    BY <2>1, BodyIs
  <2> HIDE DEF x
  <2> QED
    BY <2>2
<1> HIDE DEF x
<1>2. c \in Seq(Byte) /\ t \in Seq(Byte) /\ n \in Seq(Byte)
  BY <1>1, PacketType, Tags, LittleEndianType
<1>3. Len(c) = 1 /\ Len(t) = 2 /\ Len(n) = 4
  BY <1>1, PacketType, Tags, LittleEndianType
<1>4. c3 = PacketBytes(p)
  BY DEF PacketBytes, x
<1> HIDE DEF c, t, n
<1>5. /\ c1 \in Seq(Byte) /\ Len(c1) = Len(c) + Len(t)
      /\ Holds(c1, 0, c) /\ Holds(c1, Len(c), t)
  BY <1>2, Joined
<1> HIDE DEF c1
<1>6. c2 \in Seq(Byte) /\ Len(c2) = Len(c1) + Len(n) /\ Holds(c2, Len(c1), n)
  BY <1>2, <1>5, Joined
<1>7. Holds(c2, 0, c) /\ Holds(c2, Len(c), t)
  BY <1>2, <1>5, HoldsLonger
<1> HIDE DEF c2
<1>8. Len(c3) = Len(c2) + Len(x) /\ Holds(c3, Len(c2), x)
  BY <1>1, <1>6, Joined
<1>9. Holds(c3, 0, c) /\ Holds(c3, Len(c), t) /\ Holds(c3, Len(c1), n)
  BY <1>1, <1>2, <1>5, <1>6, <1>7, HoldsLonger
<1>10. Len(c1) = 3 /\ Len(c2) = 7
  BY <1>3, <1>5, <1>6
<1> QED
  BY <1>3, <1>4, <1>8, <1>9, <1>10 DEF c, t, x, n
-----------------------------------------------------------------------------
(***************************************************************************)
(* Reading what a buffer holds at its position.                            *)
(***************************************************************************)
At(s, a) == [bytes |-> s, at |-> a]

Success(value, buffer) == [ok |-> TRUE, value |-> value, buffer |-> buffer]

LEMMA ReadHeld ==
  ASSUME NEW s \in Seq(Byte), NEW a \in Nat, NEW t \in Seq(Byte), Holds(s, a, t),
         NEW flip \in BOOLEAN
  PROVE  Read(At(s, a), Len(t), flip) =
           Success(FlipEndian(t, flip), At(s, a + Len(t)))
<1> DEFINE size == Len(t)
<1>1. a + size <= Len(s) /\ SubSeq(s, a + 1, a + size) = t
  BY DEF Holds
<1>2. Len(s) \in Nat /\ size \in Nat /\ ~(a + size > Len(s))
  BY <1>1
<1>3. At(s, a).bytes = s /\ At(s, a).at = a
  BY DEF At
<1>4. [At(s, a) EXCEPT !.at = @ + size] = At(s, a + size)
  BY DEF At
<1> QED
  BY <1>1, <1>2, <1>3, <1>4 DEF Read, Success

LEMMA HeldByte ==
  ASSUME NEW s \in Seq(Byte), NEW a \in Nat, NEW byte \in Byte,
         Holds(s, a, <<byte>>)
  PROVE  a + 1 <= Len(s) /\ s[a + 1] = byte /\ a # Len(s)
<1>1. Len(<<byte>>) = 1 /\ Len(s) \in Nat
  OBVIOUS
<1>2. a + 1 <= Len(s) /\ SubSeq(s, a + 1, a + 1) = <<byte>>
  BY <1>1 DEF Holds
<1>3. \A j \in (a + 1)..(a + 1) : s[j] \in Byte
  BY <1>1, <1>2
<1>4. \A j \in 1..((a + 1) - (a + 1) + 1) :
        SubSeq(s, a + 1, a + 1)[j] = s[(a + 1) + j - 1]
  BY <1>3, SubSeqProperties
<1>5. 1 \in 1..((a + 1) - (a + 1) + 1) /\ (a + 1) + 1 - 1 = a + 1
  OBVIOUS
<1>6. SubSeq(s, a + 1, a + 1)[1] = s[a + 1]
  BY <1>4, <1>5
<1>7. <<byte>>[1] = byte
  OBVIOUS
<1>8. s[a + 1] = byte
  BY <1>2, <1>6, <1>7
<1> QED
  BY <1>1, <1>2, <1>8

LEMMA ReadScalarHeld ==
  ASSUME NEW s \in Seq(Byte), NEW a \in Nat, NEW tag \in Byte,
         Holds(s, a, <<tag>>), NEW t \in Seq(Byte),
         NEW b \in Nat, b = a + 1, Holds(s, b, t),
         NEW flip \in BOOLEAN
  PROVE  ReadScalar(At(s, a), tag, Len(t), flip) =
           Success(FlipEndian(t, flip), At(s, b + Len(t)))
<1>1. s[a + 1] = tag /\ a # Len(s)
  BY HeldByte
<1>2. VerifyDataType(At(s, a), tag) = Success(<<>>, At(s, b))
  BY <1>1 DEF VerifyDataType, At, Success
<1>3. Read(At(s, b), Len(t), flip) =
        Success(FlipEndian(t, flip), At(s, b + Len(t)))
  BY ReadHeld
<1> QED
  BY <1>2, <1>3 DEF ReadScalar, Success

LEMMA ReadArrayHeld ==
  ASSUME NEW s \in Seq(Byte), NEW a \in Nat, a > 0, NEW t \in Seq(Byte),
         Holds(s, a, t)
  PROVE  ReadArray(At(s, a), Len(t)) = Success(t, At(s, a + Len(t)))
<1> DEFINE size == Len(t)
<1>1. a + size <= Len(s) /\ Len(s) \in Nat /\ size \in Nat
  BY DEF Holds
<1>2. a + size \in 1..(Len(s) + 1) /\ ~(a + size > Len(s))
  BY <1>1
<1>3. ReadArray(At(s, a), size) = Read(At(s, a), size, FALSE)
  BY <1>2 DEF ReadArray, At
<1>4. Read(At(s, a), size, FALSE) =
        Success(FlipEndian(t, FALSE), At(s, a + size))
  BY ReadHeld
<1> QED
  BY <1>3, <1>4 DEF FlipEndian

\* A component reads the packet whose body it gets.
LEMMA HandleBody ==
  ASSUME NEW p \in Packet, NEW little \in BOOLEAN,
         Len(p.text) < Base * Place[4]
  PROVE  Handle(p.component, p.type, BodyBytes(p), little) =
           IF p.type \in KnownType THEN <<p>> ELSE <<>>
<1> DEFINE s == BodyBytes(p)
           r == LittleEndian(p.result, 2)
           n == LittleEndian(Len(p.text), 4)
           flip == ~little
           result == Success(FlipEndian(r, flip), At(s, 3))
           length == Success(FlipEndian(n, flip), At(s, 8))
           text == Success(p.text, At(s, 8 + Len(p.text)))
<1>1. s \in Seq(Byte)
  BY BodyIs
<1>2. /\ r \in Seq(Byte) /\ n \in Seq(Byte) /\ p.text \in Seq(Byte)
      /\ Len(p.text) \in Nat
  BY PacketType, Tags, LittleEndianType
<1>3. Len(r) = 2 /\ Len(n) = 4
  BY PacketType, Tags, LittleEndianType
<1>4. /\ Holds(s, 0, <<UInt16Tag>>) /\ Holds(s, 1, r)
      /\ Holds(s, 3, <<StringTag>>) /\ Holds(s, 4, n) /\ Holds(s, 8, p.text)
  BY BodyLayout
<1>5. BufferOf(s) = At(s, 0)
  BY DEF BufferOf, At
<1>6. Number(FlipEndian(r, flip), little) = p.result
  BY PacketType, ReadTwoBytes
<1>7. Number(FlipEndian(n, flip), little) = Len(p.text)
  BY <1>2, ReadFourBytes
<1>f. flip \in BOOLEAN
  OBVIOUS
<1> HIDE DEF s, r, n, flip
<1>8. ReadScalar(At(s, 0), UInt16Tag, 2, flip) = result
  <2>1. 0 \in Nat /\ 1 \in Nat /\ 1 = 0 + 1
    OBVIOUS
  <2>2. ReadScalar(At(s, 0), UInt16Tag, Len(r), flip) =
          Success(FlipEndian(r, flip), At(s, 1 + Len(r)))
    BY <1>1, <1>2, <1>4, <1>f, <2>1, Tags, ReadScalarHeld
  <2>3. 1 + Len(r) = 3
    BY <1>3
  <2> QED
    BY <1>3, <2>2, <2>3
<1>9. ReadScalar(At(s, 3), StringTag, 4, flip) = length
  <2>1. 3 \in Nat /\ 4 \in Nat /\ 4 = 3 + 1
    OBVIOUS
  <2>2. ReadScalar(At(s, 3), StringTag, Len(n), flip) =
          Success(FlipEndian(n, flip), At(s, 4 + Len(n)))
    BY <1>1, <1>2, <1>4, <1>f, <2>1, Tags, ReadScalarHeld
  <2>3. 4 + Len(n) = 8
    BY <1>3
  <2> QED
    BY <1>3, <2>2, <2>3
<1>10. ReadArray(At(s, 8), Len(p.text)) = text
  <2>1. 8 \in Nat /\ 8 > 0
    OBVIOUS
  <2> QED
    BY <1>1, <1>2, <1>4, <2>1, ReadArrayHeld, Zenon
<1>11. ReadString(At(s, 3), little) = text
  <2>1. length.ok /\ length.value = FlipEndian(n, flip) /\ length.buffer = At(s, 8)
    BY DEF Success
  <2> QED
    BY <1>7, <1>9, <1>10, <2>1 DEF ReadString, flip
<1>12. /\ result.ok /\ result.value = FlipEndian(r, flip)
       /\ result.buffer = At(s, 3) /\ text.ok /\ text.value = p.text
  BY DEF Success
<1>13. p = [component |-> p.component, type |-> p.type,
            result |-> p.result, text |-> p.text]
  BY PacketType
<1> HIDE DEF result, text
<1>14. Handle(p.component, p.type, s, little) =
         IF p.type \in KnownType
         THEN <<[component |-> p.component, type |-> p.type,
                 result |-> p.result, text |-> p.text]>> ELSE <<>>
  BY <1>5, <1>6, <1>8, <1>11, <1>12 DEF Handle, flip
<1> QED
  BY <1>13, <1>14 DEF s

\* The state of the loop of onDataReceived that stands at a of the chunk s.
Progress(s, a, packets, little) ==
  [buffer |-> At(s, a), packets |-> packets, valid |-> TRUE, little |-> little]

LEMMA TakePacketHeld ==
  ASSUME NEW p \in Packet, NEW s \in Seq(Byte), NEW a \in Nat,
         Holds(s, a, PacketBytes(p)), Len(PacketBytes(p)) < Base * Place[4],
         NEW packets \in Seq(Packet), NEW little \in BOOLEAN
  PROVE  TakePacket(Progress(s, a, packets, little)) =
           Progress(s, a + Len(PacketBytes(p)), AddKnown(packets, p), little)
<1> DEFINE body == BodyBytes(p)
           c == <<p.component>>
           t == LittleEndian(p.type, 2)
           n == LittleEndian(Len(body), 4)
           flip == ~little
           state == Progress(s, a, packets, little)
           component == Success(c, At(s, a + 1))
           type == Success(FlipEndian(t, flip), At(s, a + 3))
           size == Success(FlipEndian(n, flip), At(s, a + 7))
<1>1. body \in Seq(Byte) /\ PacketBytes(p) \in Seq(Byte) /\ flip \in BOOLEAN
  BY BodyIs, EncodeIs
<1>2. Len(body) = 8 + Len(p.text) /\ Len(PacketBytes(p)) = 7 + Len(body)
  BY BodyLayout, PacketLayout
<1>3. Len(p.text) \in Nat /\ Len(body) \in Nat
  BY <1>2, PacketType
<1>4. Base * Place[4] \in Nat
  BY Places
<1>5. Len(p.text) < Base * Place[4] /\ Len(body) < Base * Place[4]
  BY <1>2, <1>3, <1>4
<1>6. Handle(p.component, p.type, body, little) =
        IF p.type \in KnownType THEN <<p>> ELSE <<>>
  BY <1>5, HandleBody
<1>7. /\ Holds(PacketBytes(p), 0, c) /\ Holds(PacketBytes(p), 1, t)
      /\ Holds(PacketBytes(p), 3, n) /\ Holds(PacketBytes(p), 7, body)
  BY PacketLayout
<1>8. c \in Seq(Byte) /\ t \in Seq(Byte) /\ n \in Seq(Byte)
  BY <1>3, PacketType, Tags, LittleEndianType
<1>9. Len(c) = 1 /\ Len(t) = 2 /\ Len(n) = 4
  BY <1>3, PacketType, Tags, LittleEndianType
<1>10. FlipEndian(c, flip) = c
  BY <1>1, PacketType, FlipOne
<1>11. Number(FlipEndian(t, flip), little) = p.type
  BY PacketType, ReadTwoBytes
<1>12. Number(FlipEndian(n, flip), little) = Len(body)
  BY <1>3, <1>5, ReadFourBytes
<1>13. c[1] = p.component /\ ~(p.component >= ComponentMax)
  <2>1. \A k \in 0..2 : ~(k >= ComponentMax)
    BY DEF ComponentMax
  <2>2. c[1] = p.component
    OBVIOUS
  <2> QED
    BY <2>1, <2>2, PacketType
<1> HIDE DEF body, c, t, n, flip
<1>14. /\ Holds(s, a + 0, c) /\ Holds(s, a + 1, t)
       /\ Holds(s, a + 3, n) /\ Holds(s, a + 7, body)
  BY <1>1, <1>7, <1>8, HoldsParts
<1>15. Read(At(s, a), 1, flip) = component
  <2>1. Read(At(s, a), Len(c), flip) =
          Success(FlipEndian(c, flip), At(s, a + Len(c)))
    <3>1. a + 0 = a
      OBVIOUS
    <3> QED
      BY <1>1, <1>8, <1>14, <3>1, ReadHeld
  <2> QED
    BY <1>9, <1>10, <2>1
<1>16. Read(At(s, a + 1), 2, flip) = type
  <2>1. a + 1 \in Nat /\ (a + 1) + Len(t) = a + 3
    BY <1>9
  <2>2. Read(At(s, a + 1), Len(t), flip) =
          Success(FlipEndian(t, flip), At(s, (a + 1) + Len(t)))
    BY <1>1, <1>8, <1>14, <2>1, ReadHeld
  <2> QED
    BY <1>9, <2>1, <2>2
<1>17. Read(At(s, a + 3), 4, flip) = size
  <2>1. a + 3 \in Nat /\ (a + 3) + Len(n) = a + 7
    BY <1>9
  <2>2. Read(At(s, a + 3), Len(n), flip) =
          Success(FlipEndian(n, flip), At(s, (a + 3) + Len(n)))
    BY <1>1, <1>8, <1>14, <2>1, ReadHeld
  <2> QED
    BY <1>9, <2>1, <2>2
<1>18. /\ state.buffer = At(s, a) /\ state.little = little
       /\ component.value = c /\ component.buffer = At(s, a + 1)
       /\ type.value = FlipEndian(t, flip) /\ type.buffer = At(s, a + 3)
       /\ size.value = FlipEndian(n, flip) /\ size.buffer = At(s, a + 7)
       /\ At(s, a + 7).at = a + 7 /\ At(s, a + 7).bytes = s
  BY DEF Progress, Success, At
<1>19. /\ ~(Len(s) - (a + 7) < Len(body))
       /\ SubSeq(s, (a + 7) + 1, (a + 7) + Len(body)) = body
       /\ ~((a + 7) + Len(body) > Len(s))
  <2>1. (a + 7) + Len(body) <= Len(s) /\ Len(s) \in Nat
    BY <1>14 DEF Holds
  <2> QED
    BY <1>3, <1>14, <2>1 DEF Holds
<1>20. SetPosition(At(s, a + 7), (a + 7) + Len(body)) =
         At(s, a + Len(PacketBytes(p)))
  <2>1. (a + 7) + Len(body) = a + Len(PacketBytes(p))
    <3> DEFINE m == Len(body)
               k == Len(PacketBytes(p))
    <3>1. m \in Nat /\ k = 7 + m
      BY <1>2, <1>3
    <3> HIDE DEF m, k
    <3>2. (a + 7) + m = a + k
      BY <3>1
    <3> QED
      BY <3>2 DEF m, k
  <2> QED
    BY <1>19, <2>1 DEF SetPosition, At
<1>21. packets \o (IF p.type \in KnownType THEN <<p>> ELSE <<>>) =
         AddKnown(packets, p)
  BY AppendIsConcat DEF AddKnown
<1> HIDE DEF component, type, size, state
<1> DEFINE aa == Read(state.buffer, 1, ~state.little)
           bb == Read(aa.buffer, 2, ~state.little)
           dd == Read(bb.buffer, 4, ~state.little)
           at == dd.buffer.at
           k == Number(dd.value, state.little)
           bytes == dd.buffer.bytes
<1>22. aa = component /\ bb = type /\ dd = size
  BY <1>15, <1>16, <1>17, <1>18 DEF flip
<1>23. TakePacket(state) =
         IF Len(bytes) - at < k \/ aa.value[1] >= ComponentMax
         THEN [state EXCEPT !.valid = FALSE]
         ELSE [state EXCEPT
                 !.buffer = SetPosition(dd.buffer, at + k),
                 !.packets = @ \o Handle(aa.value[1], Number(bb.value, state.little),
                                         SubSeq(bytes, at + 1, at + k),
                                         state.little)]
  BY DEF TakePacket
<1>24. /\ at = a + 7 /\ bytes = s /\ k = Len(body)
       /\ aa.value[1] = p.component /\ Number(bb.value, state.little) = p.type
       /\ dd.buffer = At(s, a + 7) /\ state.little = little
  BY <1>11, <1>12, <1>13, <1>18, <1>22
<1> HIDE DEF aa, bb, dd, at, k, bytes
<1>25. TakePacket(state) =
         [state EXCEPT
            !.buffer = At(s, a + Len(PacketBytes(p))),
            !.packets = @ \o (IF p.type \in KnownType THEN <<p>> ELSE <<>>)]
  BY <1>6, <1>13, <1>19, <1>20, <1>23, <1>24
<1> QED
  BY <1>21, <1>25 DEF state, Progress
-----------------------------------------------------------------------------
(***************************************************************************)
(* The bytes of packets in a row, and those among them that are known.     *)
(***************************************************************************)
Bytes(q) == FoldLeft(\o, <<>>, [i \in 1..Len(q) |-> PacketBytes(q[i])])

LEMMA InBytesIs ==
  ASSUME NEW little \in BOOLEAN, NEW q \in Seq(Packet)
  PROVE  InBytes(q, little) = Bytes(q)
<1>1. \A i \in 1..Len(q) : Encoded[q[i]][little] = PacketBytes(q[i])
  BY EncodeIs
<1>2. [i \in 1..Len(q) |-> Encoded[q[i]][little]] =
        [i \in 1..Len(q) |-> PacketBytes(q[i])]
  BY <1>1
<1> QED
  BY <1>2 DEF InBytes, Bytes

LEMMA PacketBytesType ==
  ASSUME NEW p \in Packet
  PROVE  /\ PacketBytes(p) \in Seq(Byte) /\ Len(PacketBytes(p)) \in Nat
         /\ Len(PacketBytes(p)) >= 15
<1>1. TRUE \in BOOLEAN
  OBVIOUS
<1>2. PacketBytes(p) \in Seq(Byte)
  BY <1>1, EncodeIs
<1>3. Len(PacketBytes(p)) = 7 + (8 + Len(p.text)) /\ Len(p.text) \in Nat
  BY BodyLayout, PacketLayout, PacketType
<1> QED
  BY <1>2, <1>3

LEMMA BytesEmpty == Bytes(<<>>) = <<>>
<1>1. [i \in 1..Len(<<>>) |-> PacketBytes(<<>>[i])] = <<>>
  OBVIOUS
<1> QED
  BY <1>1, JoinFolds, Joins!FoldEmpty DEF Bytes

LEMMA BytesAppend ==
  ASSUME NEW q \in Seq(Packet), NEW p \in Packet
  PROVE  Bytes(Append(q, p)) = Bytes(q) \o PacketBytes(p)
<1> DEFINE r == Append(q, p)
           n == Len(q)
           s == [i \in 1..n |-> PacketBytes(q[i])]
           t == [i \in 1..Len(r) |-> PacketBytes(r[i])]
<1>1. /\ n \in Nat /\ r \in Seq(Packet) /\ Len(r) = n + 1 /\ r[n + 1] = p
      /\ \A i \in 1..n : r[i] = q[i]
  OBVIOUS
<1>2. /\ s \in Seq(Seq(Byte)) /\ Len(s) = n
      /\ \A i \in 1..n : s[i] = PacketBytes(q[i])
  <2>1. \A i \in 1..n : PacketBytes(q[i]) \in Seq(Byte)
    BY PacketBytesType
  <2>2. s \in [1..n -> Seq(Byte)]
    BY <2>1
  <2> QED
    BY <1>1, <2>2
<1>3. PacketBytes(p) \in Seq(Byte)
  BY PacketBytesType
<1>4. t = [i \in 1..(n + 1) |-> PacketBytes(r[i])]
  BY <1>1
<1> HIDE DEF r, s
<1>5. Append(s, PacketBytes(p)) = t
  <2> DEFINE u == Append(s, PacketBytes(p))
  <2>1. /\ u \in Seq(Seq(Byte)) /\ Len(u) = n + 1 /\ u[n + 1] = PacketBytes(p)
        /\ \A i \in 1..n : u[i] = s[i]
    BY <1>2, <1>3, AppendProperties
  <2> HIDE DEF u
  <2>2. u \in [1..(n + 1) -> Seq(Byte)]
    BY <1>1, <2>1
  <2>3. ASSUME NEW i \in 1..(n + 1) PROVE u[i] = PacketBytes(r[i])
    <3>1. CASE i = n + 1
      BY <1>1, <2>1, <3>1
    <3>2. CASE i \in 1..n
      BY <1>1, <1>2, <2>1, <3>2
    <3> HIDE DEF n
    <3> QED
      BY <1>1, <3>1, <3>2
  <2> QED
    BY <1>4, <2>2, <2>3 DEF u
<1>6. Bytes(r) = FoldLeft(\o, <<>>, t) /\ Bytes(q) = FoldLeft(\o, <<>>, s)
  BY DEF Bytes, s
<1> HIDE DEF t
<1>7. Joins!Folded(<<>>, Append(s, PacketBytes(p))) =
        Joins!Folded(<<>>, s) \o PacketBytes(p)
  BY <1>2, <1>3, Joins!FoldAppend
<1> QED
  BY <1>5, <1>6, <1>7, JoinFolds DEF r

LEMMA LastPacket ==
  ASSUME NEW n \in Nat, NEW q \in Seq(Packet), Len(q) = n + 1
  PROVE  \E r \in Seq(Packet), p \in Packet : q = Append(r, p) /\ Len(r) = n
<1>1. q # <<>>
  OBVIOUS
<1>2. PICK r \in Seq(Packet), p \in Packet : q = Append(r, p)
  BY <1>1, SequenceEmptyOrAppend
<1>3. Len(q) = Len(r) + 1 /\ Len(r) \in Nat
  BY <1>2
<1> QED
  BY <1>2, <1>3

LEMMA BytesType ==
  ASSUME NEW q \in Seq(Packet)
  PROVE  /\ Bytes(q) \in Seq(Byte) /\ Len(Bytes(q)) \in Nat
         /\ Len(Bytes(q)) >= 7 * Len(q)
<1> DEFINE Good(r) == /\ Bytes(r) \in Seq(Byte) /\ Len(Bytes(r)) \in Nat
                      /\ Len(Bytes(r)) >= 7 * Len(r)
           S == {n \in Nat : \A r \in Seq(Packet) : Len(r) = n => Good(r)}
<1>1. 0 \in S
  <2> SUFFICES ASSUME NEW r \in Seq(Packet), Len(r) = 0 PROVE Good(r)
    OBVIOUS
  <2>1. r = <<>> /\ <<>> \in Seq(Byte) /\ Len(<<>>) = 0
    OBVIOUS
  <2>2. Bytes(r) = <<>> /\ 0 \in Nat /\ 0 >= 7 * 0
    BY <2>1, BytesEmpty
  <2>3. Bytes(r) \in Seq(Byte) /\ Len(Bytes(r)) = 0
    BY <2>1, <2>2
  <2> QED
    BY <2>2, <2>3, Zenon
<1>2. ASSUME NEW n \in Nat, n \in S PROVE n + 1 \in S
  <2> SUFFICES ASSUME NEW r \in Seq(Packet), Len(r) = n + 1 PROVE Good(r)
    OBVIOUS
  <2>1. PICK u \in Seq(Packet), p \in Packet : r = Append(u, p) /\ Len(u) = n
    BY LastPacket
  <2>2. Good(u)
    BY <1>2, <2>1
  <2>3. Bytes(r) = Bytes(u) \o PacketBytes(p)
    BY <2>1, BytesAppend
  <2>4. /\ PacketBytes(p) \in Seq(Byte) /\ Len(PacketBytes(p)) \in Nat
        /\ Len(PacketBytes(p)) >= 15
    BY PacketBytesType
  <2> DEFINE x == Bytes(u)
             y == PacketBytes(p)
  <2>5. x \in Seq(Byte) /\ y \in Seq(Byte)
    BY <2>2, <2>4
  <2>6. x \o y \in Seq(Byte) /\ Len(x \o y) = Len(x) + Len(y)
    BY <2>5, ConcatProperties
  <2> DEFINE k == Len(x)
             m == Len(y)
  <2>7. k \in Nat /\ m \in Nat /\ k >= 7 * n /\ m >= 15
    BY <2>1, <2>2, <2>4
  <2> HIDE DEF x, y, k, m
  <2>8. k + m \in Nat /\ k + m >= 7 * (n + 1)
    BY <2>7
  <2> QED
    BY <2>3, <2>6, <2>8 DEF x, y, k, m
<1>3. Len(q) \in Nat
  OBVIOUS
<1> HIDE DEF S
<1>4. Len(q) \in S
  BY <1>1, <1>2, <1>3, Joins!SetInduction
<1> QED
  BY <1>4 DEF S

LEMMA BytesConcat ==
  ASSUME NEW q \in Seq(Packet), NEW r \in Seq(Packet)
  PROVE  Bytes(q \o r) = Bytes(q) \o Bytes(r)
<1> DEFINE Good(u) == Bytes(q \o u) = Bytes(q) \o Bytes(u)
           S == {n \in Nat : \A u \in Seq(Packet) : Len(u) = n => Good(u)}
<1>1. 0 \in S
  <2> SUFFICES ASSUME NEW u \in Seq(Packet), Len(u) = 0 PROVE Good(u)
    OBVIOUS
  <2>1. u = <<>> /\ q \o <<>> = q
    OBVIOUS
  <2>2. Bytes(q) \o <<>> = Bytes(q)
    BY BytesType, ConcatEmptySeq
  <2> QED
    BY <2>1, <2>2, BytesEmpty
<1>2. ASSUME NEW n \in Nat, n \in S PROVE n + 1 \in S
  <2> SUFFICES ASSUME NEW u \in Seq(Packet), Len(u) = n + 1 PROVE Good(u)
    OBVIOUS
  <2>1. PICK v \in Seq(Packet), p \in Packet : u = Append(v, p) /\ Len(v) = n
    BY LastPacket
  <2>2. Bytes(q \o v) = Bytes(q) \o Bytes(v)
    BY <1>2, <2>1
  <2>3. q \o u = Append(q \o v, p) /\ q \o v \in Seq(Packet)
    BY <2>1, ConcatAppend
  <2>4. Bytes(q \o u) = (Bytes(q) \o Bytes(v)) \o PacketBytes(p)
    BY <2>2, <2>3, BytesAppend
  <2>5. Bytes(u) = Bytes(v) \o PacketBytes(p)
    BY <2>1, BytesAppend
  <2>6. /\ Bytes(q) \in Seq(Byte) /\ Bytes(v) \in Seq(Byte)
        /\ PacketBytes(p) \in Seq(Byte)
    BY BytesType, PacketBytesType
  <2>7. (Bytes(q) \o Bytes(v)) \o PacketBytes(p) =
          Bytes(q) \o (Bytes(v) \o PacketBytes(p))
    BY <2>6, ConcatAssociative, SMTT(60)
  <2> QED
    BY <2>4, <2>5, <2>7
<1>3. Len(r) \in Nat
  OBVIOUS
<1> HIDE DEF S
<1>4. Len(r) \in S
  BY <1>1, <1>2, <1>3, Joins!SetInduction
<1> QED
  BY <1>4 DEF S

LEMMA KnownEmpty == Known(<<>>) = <<>>
  BY KnownFolds, Knowing!FoldEmpty DEF Known

LEMMA KnownAppend ==
  ASSUME NEW q \in Seq(Packet), NEW p \in Packet
  PROVE  Known(Append(q, p)) = AddKnown(Known(q), p)
<1>1. Knowing!Folded(<<>>, Append(q, p)) =
        AddKnown(Knowing!Folded(<<>>, q), p)
  BY Knowing!FoldAppend
<1> QED
  BY <1>1, KnownFolds DEF Known

LEMMA KnownConcat ==
  ASSUME NEW q \in Seq(Packet), NEW r \in Seq(Packet)
  PROVE  Known(q) \in Seq(Packet) /\ Known(q \o r) = Known(q) \o Known(r)
<1> DEFINE Typed(u) == Known(u) \in Seq(Packet)
           T == {n \in Nat : \A u \in Seq(Packet) : Len(u) = n => Typed(u)}
           Good(u) == Known(q \o u) = Known(q) \o Known(u)
           S == {n \in Nat : \A u \in Seq(Packet) : Len(u) = n => Good(u)}
<1>1. 0 \in T
  <2> SUFFICES ASSUME NEW u \in Seq(Packet), Len(u) = 0 PROVE Typed(u)
    OBVIOUS
  <2>1. u = <<>> /\ <<>> \in Seq(Packet)
    OBVIOUS
  <2> QED
    BY <2>1, KnownEmpty
<1>2. ASSUME NEW n \in Nat, n \in T PROVE n + 1 \in T
  <2> SUFFICES ASSUME NEW u \in Seq(Packet), Len(u) = n + 1 PROVE Typed(u)
    OBVIOUS
  <2>1. PICK v \in Seq(Packet), p \in Packet : u = Append(v, p) /\ Len(v) = n
    BY LastPacket
  <2>2. Known(v) \in Seq(Packet)
    BY <1>2, <2>1
  <2>3. AddKnown(Known(v), p) \in Seq(Packet)
    BY <2>2 DEF AddKnown
  <2> QED
    BY <2>1, <2>3, KnownAppend
<1> HIDE DEF T
<1>3. \A n \in Nat : n \in T
  BY <1>1, <1>2, Joins!SetInduction
<1>4. \A u \in Seq(Packet) : Known(u) \in Seq(Packet)
  <2> SUFFICES ASSUME NEW u \in Seq(Packet) PROVE Known(u) \in Seq(Packet)
    OBVIOUS
  <2>1. Len(u) \in T
    BY <1>3
  <2> QED
    BY <2>1 DEF T
<1>5. 0 \in S
  <2> SUFFICES ASSUME NEW u \in Seq(Packet), Len(u) = 0 PROVE Good(u)
    OBVIOUS
  <2>1. u = <<>> /\ q \o <<>> = q
    OBVIOUS
  <2>2. Known(q) \o <<>> = Known(q)
    BY <1>4, ConcatEmptySeq
  <2> QED
    BY <2>1, <2>2, KnownEmpty
<1>6. ASSUME NEW n \in Nat, n \in S PROVE n + 1 \in S
  <2> SUFFICES ASSUME NEW u \in Seq(Packet), Len(u) = n + 1 PROVE Good(u)
    OBVIOUS
  <2>1. PICK v \in Seq(Packet), p \in Packet : u = Append(v, p) /\ Len(v) = n
    BY LastPacket
  <2>2. Known(q \o v) = Known(q) \o Known(v)
    BY <1>6, <2>1
  <2>3. q \o u = Append(q \o v, p) /\ q \o v \in Seq(Packet)
    BY <2>1, ConcatAppend
  <2>4. Known(q \o u) = AddKnown(Known(q) \o Known(v), p)
    BY <2>2, <2>3, KnownAppend
  <2>5. Known(u) = AddKnown(Known(v), p)
    BY <2>1, KnownAppend
  <2>6. Known(q) \in Seq(Packet) /\ Known(v) \in Seq(Packet)
    BY <1>4
  <2>7. Known(q) \o Append(Known(v), p) = Append(Known(q) \o Known(v), p)
    BY <2>6, ConcatAppend
  <2> QED
    BY <2>4, <2>5, <2>7 DEF AddKnown
<1>7. Len(r) \in Nat
  OBVIOUS
<1> HIDE DEF S
<1>8. Len(r) \in S
  BY <1>5, <1>6, <1>7, Joins!SetInduction
<1> QED
  BY <1>4, <1>8 DEF S
-----------------------------------------------------------------------------
(***************************************************************************)
(* onDataReceived takes the packets of a chunk one by one.                 *)
(***************************************************************************)
LEMMA PrefixOf ==
  ASSUME NEW q \in Seq(Packet), NEW k \in 1..Len(q)
  PROVE  /\ SubSeq(q, 1, k - 1) \in Seq(Packet) /\ q[k] \in Packet
         /\ SubSeq(q, k + 1, Len(q)) \in Seq(Packet)
         /\ SubSeq(q, 1, k) = Append(SubSeq(q, 1, k - 1), q[k])
         /\ q = Append(SubSeq(q, 1, k - 1), q[k]) \o SubSeq(q, k + 1, Len(q))
<1>1. /\ SubSeq(q, 1, k - 1) \in Seq(Packet) /\ q[k] \in Packet
      /\ SubSeq(q, k + 1, Len(q)) \in Seq(Packet)
      /\ SubSeq(q, 1, k) \in Seq(Packet)
  OBVIOUS
<1>2. <<>> \in Seq(Packet) /\ <<>> \o SubSeq(q, 1, k) = SubSeq(q, 1, k)
      /\ <<>> \o SubSeq(q, 1, k - 1) = SubSeq(q, 1, k - 1)
  BY <1>1, ConcatEmptySeq
<1>3. SubSeq(q, 1, k) = Append(SubSeq(q, 1, k - 1), q[k])
  BY <1>2, Prefix
<1>4. 1 \in 1..(Len(q) + 1) /\ k \in 0..Len(q) /\ Len(q) \in k..Len(q)
  OBVIOUS
<1>5. SubSeq(q, 1, k) \o SubSeq(q, k + 1, Len(q)) = SubSeq(q, 1, Len(q))
  BY <1>4, ConcatAdjacentSubSeq
<1>6. SubSeq(q, 1, Len(q)) = q
  OBVIOUS
<1> QED
  BY <1>1, <1>3, <1>5, <1>6

LEMMA PacketHeld ==
  ASSUME NEW q \in Seq(Packet), NEW k \in 1..Len(q)
  PROVE  LET a == Len(Bytes(SubSeq(q, 1, k - 1)))
         IN  /\ a \in Nat
             /\ Holds(Bytes(q), a, PacketBytes(q[k]))
             /\ Len(Bytes(SubSeq(q, 1, k))) = a + Len(PacketBytes(q[k]))
<1> DEFINE u == SubSeq(q, 1, k - 1)
           p == q[k]
           v == SubSeq(q, k + 1, Len(q))
<1>1. /\ u \in Seq(Packet) /\ p \in Packet /\ v \in Seq(Packet)
      /\ SubSeq(q, 1, k) = Append(u, p) /\ q = Append(u, p) \o v
  BY PrefixOf
<1> HIDE DEF u, p, v
<1>2. Append(u, p) \in Seq(Packet)
  BY <1>1
<1>3. Bytes(Append(u, p)) = Bytes(u) \o PacketBytes(p)
  BY <1>1, BytesAppend
<1>4. Bytes(q) = (Bytes(u) \o PacketBytes(p)) \o Bytes(v)
  BY <1>1, <1>2, <1>3, BytesConcat
<1>5. /\ Bytes(u) \in Seq(Byte) /\ PacketBytes(p) \in Seq(Byte)
      /\ Bytes(v) \in Seq(Byte) /\ Len(Bytes(u)) \in Nat
  BY <1>1, BytesType, PacketBytesType
<1>6. Holds(Bytes(q), Len(Bytes(u)), PacketBytes(p))
  BY <1>4, <1>5, HoldsMiddle
<1>7. Len(Bytes(u) \o PacketBytes(p)) = Len(Bytes(u)) + Len(PacketBytes(p))
  BY <1>5, ConcatProperties
<1> QED
  BY <1>1, <1>3, <1>5, <1>6, <1>7 DEF u, p

LEMMA TurnTakes ==
  ASSUME NEW q \in Seq(Packet), Len(Bytes(q)) < Base * Place[4],
         NEW k \in 1..Len(q), NEW little \in BOOLEAN, NEW i
  PROVE  Turn(Progress(Bytes(q), Len(Bytes(SubSeq(q, 1, k - 1))),
                       Known(SubSeq(q, 1, k - 1)), little), i) =
           Progress(Bytes(q), Len(Bytes(SubSeq(q, 1, k))),
                    Known(SubSeq(q, 1, k)), little)
<1> DEFINE u == SubSeq(q, 1, k - 1)
           p == q[k]
           s == Bytes(q)
           a == Len(Bytes(u))
           m == Len(PacketBytes(p))
           state == Progress(s, a, Known(u), little)
<1>1. /\ u \in Seq(Packet) /\ p \in Packet
      /\ SubSeq(q, 1, k) = Append(u, p)
  BY PrefixOf
<1>2. /\ a \in Nat /\ Holds(s, a, PacketBytes(p))
      /\ Len(Bytes(SubSeq(q, 1, k))) = a + m
  BY PacketHeld
<1>3. s \in Seq(Byte) /\ Len(s) \in Nat
  BY BytesType
<1>4. m \in Nat /\ m >= 15
  BY <1>1, PacketBytesType
<1>5. a + m <= Len(s)
  BY <1>2 DEF Holds
<1>6. Base * Place[4] \in Nat /\ Len(s) < Base * Place[4]
  BY Places
<1> HIDE DEF u, p, s, a, m
<1>7. m < Base * Place[4] /\ Len(s) - a >= HeaderSize
  <2> DEFINE n == Len(s)
             b == Base * Place[4]
  <2>1. n \in Nat /\ b \in Nat /\ n < b /\ a + m <= n
    BY <1>3, <1>5, <1>6
  <2> HIDE DEF n, b
  <2>2. m < b /\ n - a >= 7
    BY <1>2, <1>4, <2>1
  <2> QED
    BY <2>2 DEF n, b, HeaderSize
<1>8. Known(u) \in Seq(Packet)
  BY <1>1, KnownConcat
<1>9. TakePacket(state) = Progress(s, a + m, AddKnown(Known(u), p), little)
  BY <1>1, <1>2, <1>3, <1>7, <1>8, TakePacketHeld DEF m
<1>10. state.valid = TRUE /\ Remaining(state.buffer) = Len(s) - a
  BY DEF Progress, Remaining, At
<1> HIDE DEF state
<1>11. Turn(state, i) = TakePacket(state)
  BY <1>7, <1>10 DEF Turn
<1>12. AddKnown(Known(u), p) = Known(SubSeq(q, 1, k))
  BY <1>1, KnownAppend
<1> QED
  BY <1>2, <1>9, <1>11, <1>12 DEF state, s, a, u

LEMMA TurnEnds ==
  ASSUME NEW s \in Seq(Byte), NEW packets, NEW little, NEW i
  PROVE  Turn(Progress(s, Len(s), packets, little), i) =
           Progress(s, Len(s), packets, little)
<1> DEFINE state == Progress(s, Len(s), packets, little)
<1>1. Remaining(state.buffer) = Len(s) - Len(s)
  BY DEF Progress, Remaining, At
<1>2. Len(s) \in Nat
  OBVIOUS
<1> DEFINE n == Len(s)
<1> HIDE DEF state, n
<1>3. ~(n - n >= HeaderSize)
  BY <1>2 DEF n, HeaderSize
<1> QED
  BY <1>1, <1>3 DEF Turn, state, n

\* A chunk of whole packets is read to its end, and every packet of a known
\* type is handled: the chunk is shorter than a number of four bytes can say.
LEMMA ChunkTaken ==
  ASSUME NEW q \in Seq(Packet), Len(Bytes(q)) < Base * Place[4],
         NEW little \in BOOLEAN
  PROVE  OnDataReceived(Bytes(q), little) =
           Progress(Bytes(q), Len(Bytes(q)), Known(q), little)
<1> DEFINE s == Bytes(q)
           m == Len(q)
           N == Len(s) \div HeaderSize
           e == [i \in 1..N |-> i]
           To(k) == IF k <= m THEN k ELSE m
           Before(j) == SubSeq(q, 1, j)
           State(j) == Progress(s, Len(Bytes(Before(j))), Known(Before(j)), little)
           f == [k \in 0..N |-> State(To(k))]
<1>1. s \in Seq(Byte) /\ Len(s) \in Nat /\ Len(s) >= 7 * m /\ m \in Nat
  BY BytesType
<1>2. N \in Nat /\ N >= m
  <2>1. /\ N \in Nat /\ Len(s) % 7 \in Nat /\ Len(s) % 7 < 7
        /\ Len(s) = 7 * N + (Len(s) % 7)
    <3> HIDE DEF s
    <3> QED
      BY <1>1, Division DEF HeaderSize
  <2> DEFINE r == Len(s) % 7
             l == Len(s)
  <2> HIDE DEF N, r, s, m, l
  <2>2. /\ l >= 7 * m /\ l = 7 * N + r /\ r < 7
        /\ r \in Nat /\ l \in Nat /\ m \in Nat
    BY <1>1, <2>1 DEF r, l
  <2> QED
    BY <2>1, <2>2
<1>3. e \in Seq(1..N) /\ Len(e) = N /\ \A i \in 1..N : e[i] = i
  <2> HIDE DEF N
  <2> QED
    BY <1>2
<1>4. Before(m) = q /\ Before(0) = <<>>
  OBVIOUS
<1>5. f[0] = Untouched(s, little)
  <2> HIDE DEF s, Before, N, m
  <2>1. Bytes(Before(0)) = <<>> /\ Known(Before(0)) = <<>>
    BY <1>4, BytesEmpty, KnownEmpty
  <2>2. Len(Bytes(Before(0))) = 0
    BY <2>1
  <2>3. f[0] = State(0)
    BY <1>1, <1>2
  <2> QED
    BY <2>1, <2>2, <2>3 DEF Progress, Untouched, BufferOf, At
<1>6. ASSUME NEW k \in 1..N PROVE f[k] = Turn(f[k - 1], e[k])
  <2>1. k - 1 \in 0..N /\ k \in 0..N /\ k \in Nat
    <3> HIDE DEF N
    <3> QED
      BY <1>2
  <2>2. f[k] = State(To(k)) /\ f[k - 1] = State(To(k - 1))
    <3> HIDE DEF State, To, N
    <3> QED
      BY <2>1
  <2>3. CASE k <= m
    <3>1. k \in 1..m /\ To(k) = k /\ To(k - 1) = k - 1
      <4> HIDE DEF m
      <4> QED
        BY <1>1, <2>1, <2>3
    <3>2. Turn(State(k - 1), e[k]) = State(k)
      BY <3>1, TurnTakes
    <3> HIDE DEF f, State, To, e
    <3> QED
      BY <2>2, <3>1, <3>2
  <2>4. CASE k > m
    <3>1. To(k) = m /\ To(k - 1) = m
      <4> HIDE DEF m
      <4> QED
        BY <1>1, <2>1, <2>4
    <3>2. State(m) = Progress(s, Len(s), Known(q), little)
      BY <1>4
    <3>3. Turn(State(m), e[k]) = State(m)
      <4> HIDE DEF State, s, e
      <4> QED
        BY <1>1, <3>2, TurnEnds
    <3> HIDE DEF f, State, To, e
    <3> QED
      BY <2>2, <3>1, <3>3
  <2> HIDE DEF f, e, m
  <2> QED
    BY <1>1, <2>1, <2>3, <2>4
<1>7. f[N] = Progress(s, Len(s), Known(q), little)
  <2>1. To(N) = m /\ N \in 0..N
    <3> HIDE DEF m, N
    <3> QED
      BY <1>1, <1>2
  <2>2. f[N] = State(To(N))
    <3> HIDE DEF State, To, N
    <3> QED
      BY <2>1
  <2> HIDE DEF f, To
  <2> QED
    BY <1>4, <2>1, <2>2
<1>8. OnDataReceived(s, little) = FoldLeft(Turn, Untouched(s, little), e)
  BY DEF OnDataReceived
<1> HIDE DEF f, e, N, s
<1>9. Turns!Trace(f, Untouched(s, little), e)
  BY <1>3, <1>5, <1>6 DEF Turns!Trace
<1>10. Turns!Folded(Untouched(s, little), e) = f[Len(e)]
  BY <1>3, <1>9, Turns!TraceFold
<1> QED
  BY <1>3, <1>7, <1>8, <1>10, TurnFolds DEF s
-----------------------------------------------------------------------------
(***************************************************************************)
(* The invariant.                                                          *)
(***************************************************************************)
StreamType ==
  /\ littleFrom \in BOOLEAN /\ littleTo \in BOOLEAN /\ connected \in BOOLEAN
  /\ torn \in {"no", "cut", "full", "unhandled"}
  /\ written \in Seq(Packet) /\ taken \in 0..Len(written)

StreamInv == StreamType /\ PacketsExact

LEMMA PendingIs ==
  ASSUME StreamType
  PROVE  /\ Pending \in Seq(Packet) /\ Len(Pending) = Len(written) - taken
         /\ Len(Pending) \in Nat /\ Len(written) \in Nat /\ taken \in Nat
         /\ SubSeq(written, 1, taken) \in Seq(Packet)
<1>1. written \in Seq(Packet) /\ taken \in 0..Len(written)
  BY DEF StreamType
<1> QED
  BY <1>1 DEF Pending

\* The first k elements, and what is behind them.
Upto(s, k) == SubSeq(s, 1, k)
Rest(s, k) == SubSeq(s, k + 1, Len(s))

\* Appending to a sequence leaves its beginning and adds to its end.
LEMMA AppendParts ==
  ASSUME NEW X, NEW s \in Seq(X), NEW x \in X, NEW k \in 0..Len(s)
  PROVE  /\ Append(s, x) \in Seq(X) /\ k \in 0..Len(Append(s, x))
         /\ SubSeq(Append(s, x), 1, k) = SubSeq(s, 1, k)
         /\ Rest(Append(s, x), k) = Append(Rest(s, k), x)
<1> DEFINE t == Append(s, x)
           n == Len(s)
<1>1. /\ t \in Seq(X) /\ Len(t) = n + 1 /\ t[n + 1] = x /\ n \in Nat
      /\ \A i \in 1..n : t[i] = s[i]
  BY AppendProperties
<1>2. k \in Nat /\ k <= n
  BY <1>1
<1> HIDE DEF t
<1>3. SubSeq(t, 1, k) = SubSeq(s, 1, k)
  <2>1. \A i \in 1..k : i \in 1..n
    BY <1>1, <1>2
  <2>2. \A i \in 1..k : t[i] = s[i]
    BY <1>1, <2>1
  <2>3. /\ SubSeq(t, 1, k) = [i \in 1..k |-> t[i]]
        /\ SubSeq(s, 1, k) = [i \in 1..k |-> s[i]]
    BY <1>1, <1>2
  <2> QED
    BY <2>2, <2>3
<1> DEFINE u == SubSeq(t, k + 1, n + 1)
           v == SubSeq(s, k + 1, n)
           w == Append(v, x)
<1>4. /\ u \in Seq(X) /\ Len(u) = (n - k) + 1
      /\ \A i \in 1..((n - k) + 1) : u[i] = t[k + i]
  BY <1>1, <1>2
<1>5. /\ v \in Seq(X) /\ Len(v) = n - k
      /\ \A i \in 1..(n - k) : v[i] = s[k + i]
  BY <1>1, <1>2
<1> HIDE DEF u, v
<1>6. /\ w \in Seq(X) /\ Len(w) = (n - k) + 1 /\ w[(n - k) + 1] = x
      /\ \A i \in 1..(n - k) : w[i] = v[i]
  BY <1>5, AppendProperties
<1> HIDE DEF w, n
<1>7. ASSUME NEW i \in 1..((n - k) + 1) PROVE u[i] = w[i]
  <2>1. CASE i = (n - k) + 1
    <3>1. k + i = n + 1
      BY <1>1, <1>2, <2>1
    <3> QED
      BY <1>1, <1>4, <1>6, <2>1, <3>1
  <2>2. CASE i # (n - k) + 1
    <3>1. i \in 1..(n - k) /\ k + i \in 1..n
      BY <1>1, <1>2, <2>2
    <3> QED
      BY <1>1, <1>4, <1>5, <1>6, <3>1
  <2> QED
    BY <2>1, <2>2
<1>8. u = w
  BY <1>4, <1>6, <1>7, SeqEqual
<1>9. k \in 0..Len(t)
  BY <1>1, <1>2
<1> QED
  BY <1>1, <1>3, <1>8, <1>9 DEF t, u, v, w, n, Rest

LEMMA SendKeeps ==
  ASSUME StreamInv, SendSome
  PROVE  StreamInv'
<1> USE DEF StreamInv
<1>1. PICK p \in Packet, n \in 0..BufferSize : Send(p, n)
  BY DEF SendSome
<1> DEFINE bytes == Encoded[p][littleFrom]
           l == Len(bytes)
<1>2. littleFrom \in BOOLEAN
  BY DEF StreamType
<1>3. bytes = PacketBytes(p)
  BY <1>2, EncodeIs
<1>4. bytes \in Seq(Byte) /\ l \in Nat /\ l >= 15
  BY <1>3, PacketBytesType
<1>5. /\ connected /\ n \in (Cut \cap 0..l) \cup {l}
      /\ wire' = wire \o SubSeq(bytes, 1, n)
      /\ written' = IF n = l THEN Append(written, p) ELSE written
      /\ torn' = IF n \in {0, l} THEN torn ELSE "cut"
      /\ UNCHANGED <<littleFrom, littleTo, taken, handled, connected>>
  BY <1>1 DEF Send
<1>6. /\ Pending \in Seq(Packet) /\ written \in Seq(Packet)
      /\ taken \in 0..Len(written) /\ taken \in Nat
  BY PendingIs DEF StreamType
<1>7. /\ Append(written, p) \in Seq(Packet)
      /\ taken \in 0..Len(Append(written, p))
      /\ SubSeq(Append(written, p), 1, taken) = SubSeq(written, 1, taken)
      /\ Rest(Append(written, p), taken) = Append(Rest(written, taken), p)
  BY <1>6, AppendParts
<1> HIDE DEF bytes, l
<1>8. StreamType'
  <2>1. written' \in Seq(Packet) /\ taken' \in 0..Len(written')
    BY <1>5, <1>6, <1>7
  <2>2. torn' \in {"no", "cut", "full", "unhandled"}
    BY <1>5 DEF StreamType
  <2> QED
    BY <1>5, <2>1, <2>2 DEF StreamType
<1>9. littleFrom' \in BOOLEAN /\ Stream(Pending) = Bytes(Pending)
  BY <1>2, <1>5, <1>6, InBytesIs DEF Stream
<1>10. SubSeq(written', 1, taken') = SubSeq(written, 1, taken)
  BY <1>5, <1>7
<1>11. torn # "cut" => handled = Known(SubSeq(written, 1, taken))
  BY DEF PacketsExact
<1>12. torn' # "cut" => torn # "cut"
  BY <1>5
<1>13. (torn # "cut" => handled = Known(SubSeq(written, 1, taken)))'
  BY <1>5, <1>10, <1>11, <1>12 DEF Known
<1>14. ~(torn' \in {"full", "unhandled"})
  <2>1. ~(torn \in {"full", "unhandled"})
    BY <1>5 DEF PacketsExact
  <2> QED
    BY <1>5, <2>1
<1>15. ASSUME torn' = "no" PROVE wire' = Stream(Pending)'
  <2>1. torn = "no" /\ n \in {0, l}
    BY <1>5, <1>15
  <2>2. wire = Bytes(Pending)
    BY <1>9, <2>1 DEF PacketsExact
  <2>3. Bytes(Pending) \in Seq(Byte)
    BY <1>6, BytesType
  <2>4. CASE n = l
    <3>1. SubSeq(bytes, 1, l) = bytes
      BY <1>4 DEF l
    <3>2. Append(Pending, p) \in Seq(Packet)
      BY <1>6, AppendProperties
    <3>3. Pending' = Append(Pending, p)
      BY <1>5, <1>7, <2>4 DEF Pending, Rest
    <3>4. wire' = Bytes(Append(Pending, p))
      BY <1>3, <1>5, <1>6, <2>2, <2>4, <3>1, BytesAppend
    <3>5. Stream(Pending)' = Bytes(Append(Pending, p))
      BY <1>9, <3>2, <3>3, InBytesIs DEF Stream
    <3> QED
      BY <3>4, <3>5
  <2>5. CASE n = 0
    <3>1. n # l /\ SubSeq(bytes, 1, 0) = <<>>
      BY <1>4, <2>5 DEF l
    <3>2. wire' = wire
      BY <1>5, <2>2, <2>3, <2>5, <3>1, ConcatEmptySeq
    <3>3. Pending' = Pending
      BY <1>5, <3>1 DEF Pending
    <3>4. Stream(Pending)' = Bytes(Pending)
      BY <1>6, <1>9, <3>3, InBytesIs DEF Stream
    <3> QED
      BY <2>2, <3>2, <3>4
  <2> QED
    BY <2>1, <2>4, <2>5
<1> QED
  BY <1>5, <1>8, <1>13, <1>14, <1>15 DEF PacketsExact

\* A sequence cut at k.
LEMMA CutAt ==
  ASSUME NEW X, NEW s \in Seq(X), NEW k \in 1..Len(s)
  PROVE  /\ Upto(s, k) \in Seq(X) /\ Rest(s, k) \in Seq(X)
         /\ Upto(s, k) \o Rest(s, k) = s
<1>1. Upto(s, k) \in Seq(X) /\ Rest(s, k) \in Seq(X)
  BY DEF Upto, Rest
<1>2. 1 \in 1..(Len(s) + 1) /\ k \in 0..Len(s) /\ Len(s) \in k..Len(s)
  OBVIOUS
<1>3. SubSeq(s, 1, k) \o SubSeq(s, k + 1, Len(s)) = SubSeq(s, 1, Len(s))
  BY <1>2, ConcatAdjacentSubSeq
<1>4. SubSeq(s, 1, Len(s)) = s
  OBVIOUS
<1> QED
  BY <1>1, <1>3, <1>4 DEF Upto, Rest

\* A sequence cut at a, and what is behind it cut at k.
LEMMA UptoSum ==
  ASSUME NEW X, NEW s \in Seq(X), NEW a \in 0..Len(s),
         NEW k \in 1..(Len(s) - a), NEW j, j = a + k
  PROVE  Upto(s, j) = Upto(s, a) \o Upto(Rest(s, a), k)
<1> DEFINE n == Len(s)
           r == SubSeq(s, a + 1, n)
           b == SubSeq(r, 1, k)
<1>1. n \in Nat /\ a \in Nat /\ k \in Nat /\ a + k <= n /\ k >= 1
  OBVIOUS
<1>2. /\ r \in Seq(X) /\ Len(r) = n - a
      /\ \A i \in 1..(n - a) : r[i] = s[a + i]
  BY <1>1
<1> HIDE DEF r
<1>3. /\ b \in Seq(X) /\ Len(b) = k
      /\ \A i \in 1..k : b[i] = r[i]
  BY <1>1, <1>2
<1>4. b = SubSeq(s, a + 1, a + k)
  <2> DEFINE t == SubSeq(s, a + 1, a + k)
  <2>1. t \in Seq(X) /\ Len(t) = k /\ \A i \in 1..k : t[i] = s[a + i]
    <3>1. a + 1 \in 1..(n + 1) /\ a + k \in a..n /\ (a + k) - (a + 1) + 1 = k
      BY <1>1
    <3> HIDE DEF n
    <3>2. t \in Seq(X) /\ Len(t) = k
      BY <1>1, <3>1 DEF n
    <3>3. ASSUME NEW i \in 1..k PROVE t[i] = s[a + i]
      BY <1>1, <3>1, <3>3 DEF n
    <3> QED
      BY <3>2, <3>3
  <2> HIDE DEF t, b, n
  <2>2. \A i \in 1..k : i \in 1..(n - a)
    BY <1>1
  <2>3. \A i \in 1..k : b[i] = t[i]
    BY <1>2, <1>3, <2>1, <2>2
  <2>4. b = t
    BY <1>3, <2>1, <2>3, SeqEqual
  <2> QED
    BY <2>4 DEF t
<1>5. SubSeq(s, 1, a + k) = SubSeq(s, 1, a) \o b
  <2>1. 1 \in 1..(n + 1) /\ a \in 0..n /\ a + k \in a..n
    BY <1>1
  <2>2. SubSeq(s, 1, a) \o SubSeq(s, a + 1, a + k) = SubSeq(s, 1, a + k)
    BY <2>1, ConcatAdjacentSubSeq
  <2> QED
    BY <1>4, <2>2
<1> QED
  BY <1>5 DEF r, b, n, Rest, Upto

LEMMA RestSum ==
  ASSUME NEW X, NEW s \in Seq(X), NEW a \in 0..Len(s),
         NEW k \in 1..(Len(s) - a), NEW j, j = a + k
  PROVE  Rest(s, j) = Rest(Rest(s, a), k)
<1> DEFINE n == Len(s)
           r == SubSeq(s, a + 1, n)
           c == SubSeq(r, k + 1, Len(r))
<1>1. n \in Nat /\ a \in Nat /\ k \in Nat /\ a + k <= n /\ k >= 1
  OBVIOUS
<1>2. /\ r \in Seq(X) /\ Len(r) = n - a
      /\ \A i \in 1..(n - a) : r[i] = s[a + i]
  BY <1>1
<1> HIDE DEF r
<1>3. /\ c \in Seq(X) /\ Len(c) = (n - a) - k
      /\ \A i \in 1..((n - a) - k) : c[i] = r[k + i]
  <2> DEFINE d == Len(r)
  <2> HIDE DEF n
  <2>1. d = n - a /\ d \in Nat /\ k \in 0..d
    BY <1>1, <1>2
  <2> HIDE DEF d
  <2>2. /\ SubSeq(r, k + 1, d) \in Seq(X)
        /\ Len(SubSeq(r, k + 1, d)) = d - k
        /\ \A i \in 1..(d - k) : SubSeq(r, k + 1, d)[i] = r[k + i]
    BY <1>1, <1>2, <2>1 DEF d
  <2> QED
    BY <2>1, <2>2 DEF d
<1>4. SubSeq(s, (a + k) + 1, n) = c
  <2> DEFINE t == SubSeq(s, (a + k) + 1, n)
  <2>1. /\ t \in Seq(X) /\ Len(t) = (n - a) - k
        /\ \A i \in 1..((n - a) - k) : t[i] = s[(a + k) + i]
    <3>1. /\ t \in Seq(X)
          /\ Len(t) = (n - a) - k
      BY <1>1
    <3>2. ASSUME NEW i \in 1..((n - a) - k) PROVE t[i] = s[(a + k) + i]
      <4> DEFINE m == a + k
      <4>1. m \in Nat /\ i \in 1..(n - m)
        BY <1>1
      <4> HIDE DEF m
      <4>2. SubSeq(s, m + 1, n)[i] = s[m + i]
        BY <1>1, <4>1
      <4> QED
        BY <4>2 DEF m
    <3> QED
      BY <3>1, <3>2
  <2> HIDE DEF t, c, n
  <2>2. \A i \in 1..((n - a) - k) :
          k + i \in 1..(n - a) /\ (a + k) + i = a + (k + i)
    BY <1>1
  <2>3. \A i \in 1..((n - a) - k) : c[i] = t[i]
    BY <1>2, <1>3, <2>1, <2>2
  <2>4. c = t
    BY <1>3, <2>1, <2>3, SeqEqual
  <2> QED
    BY <2>4 DEF t
<1> QED
  BY <1>4 DEF r, c, n, Rest

LEMMA SuffixIs ==
  ASSUME NEW X, NEW u \in Seq(X), NEW v \in Seq(X)
  PROVE  SubSeq(u \o v, Len(u) + 1, Len(u \o v)) = v
<1> DEFINE t == u \o v
           m == Len(u)
           w == SubSeq(t, m + 1, Len(t))
<1>1. /\ t \in Seq(X) /\ Len(t) = m + Len(v) /\ m \in Nat /\ Len(v) \in Nat
      /\ \A i \in 1..Len(v) : t[m + i] = v[i]
  BY ConcatProperties
<1> HIDE DEF t, m
<1>2. /\ w \in Seq(X) /\ Len(w) = Len(v)
      /\ \A i \in 1..Len(v) : w[i] = t[m + i]
  BY <1>1
<1> HIDE DEF w
<1>3. \A i \in 1..Len(v) : w[i] = v[i]
  BY <1>1, <1>2
<1>4. w = v
  BY <1>2, <1>3, SeqEqual
<1> QED
  BY <1>4 DEF t, m, w

\* What is on its way when a chunk was of the first k packets.
LEMMA ChunkIs ==
  ASSUME StreamInv, torn = "no", NEW k \in 1..Len(Pending),
         NEW n \in 1..Len(wire), n < BufferSize,
         SubSeq(wire, 1, n) = Stream(SubSeq(Pending, 1, k))
  PROVE  LET b == SubSeq(Pending, 1, k)
         IN  /\ OnDataReceived(SubSeq(wire, 1, n), littleTo)
                  = Progress(Bytes(b), Len(Bytes(b)), Known(b), littleTo)
             /\ Len(SubSeq(wire, 1, n)) = n
             /\ b \in Seq(Packet)
             /\ SubSeq(wire, n + 1, Len(wire)) = Bytes(Rest(Pending, k))
<1> DEFINE q == Pending
           b == SubSeq(q, 1, k)
           c == Rest(q, k)
           s == SubSeq(wire, 1, n)
<1>1. /\ littleFrom \in BOOLEAN /\ littleTo \in BOOLEAN
      /\ q \in Seq(Packet) /\ wire = Stream(q) /\ k \in 1..Len(q)
  BY PendingIs DEF StreamInv, StreamType, PacketsExact
<1> HIDE DEF q
<1>2. b \in Seq(Packet) /\ c \in Seq(Packet) /\ q = b \o c
  <2>1. /\ Upto(q, k) \in Seq(Packet) /\ Rest(q, k) \in Seq(Packet)
        /\ Upto(q, k) \o Rest(q, k) = q
    BY <1>1, CutAt
  <2> QED
    BY <2>1 DEF Upto
<1> HIDE DEF b, c
<1>3. wire = Bytes(b) \o Bytes(c) /\ s = Bytes(b)
  <2>1. wire = Bytes(q)
    BY <1>1, InBytesIs DEF Stream
  <2>2. s = Bytes(b)
    BY <1>1, <1>2, InBytesIs DEF Stream, b, q
  <2> QED
    BY <1>2, <2>1, <2>2, BytesConcat
<1>4. Bytes(b) \in Seq(Byte) /\ Bytes(c) \in Seq(Byte)
  BY <1>2, BytesType
<1>5. wire \in Seq(Byte)
  BY <1>3, <1>4
<1>6. Len(s) = n
  <2>1. Len(wire) \in Nat
    BY <1>5
  <2> QED
    BY <1>5, <2>1
<1> HIDE DEF s
<1>7. Len(Bytes(b)) < Base * Place[4]
  <2>1. Base * Place[4] \in Nat /\ BufferSize \in Nat
    BY Places, StreamAssumption
  <2>2. BufferSize <= Base * Place[4]
    BY StreamAssumption
  <2> DEFINE x == Base * Place[4]
  <2> HIDE DEF x
  <2> QED
    BY <1>3, <1>6, <2>1, <2>2 DEF x
<1>8. OnDataReceived(s, littleTo)
        = Progress(Bytes(b), Len(Bytes(b)), Known(b), littleTo)
  BY <1>1, <1>2, <1>3, <1>7, ChunkTaken
<1>9. SubSeq(wire, Len(Bytes(b)) + 1, Len(wire)) = Bytes(c)
  BY <1>3, <1>4, SuffixIs
<1> QED
  BY <1>2, <1>3, <1>6, <1>8, <1>9 DEF b, c, s, q

LEMMA ReceiveKeeps ==
  ASSUME StreamInv, ReceiveSome
  PROVE  StreamInv'
<1>1. PICK n \in 1..BufferSize : Receive(n)
  BY DEF ReceiveSome
<1> DEFINE s == SubSeq(wire, 1, n)
           state == OnDataReceived(s, littleTo)
           whole == {k \in 1..Len(Pending) : s = Stream(SubSeq(Pending, 1, k))}
<1>2. /\ connected /\ n \in 1..Len(wire) /\ n <= BufferSize
      /\ wire' = SubSeq(wire, n + 1, Len(wire))
      /\ handled' = IF n = BufferSize THEN handled ELSE handled \o state.packets
      /\ connected' = ~Drops(s, state)
      /\ UNCHANGED <<littleFrom, littleTo, sends, written>>
  BY <1>1 DEF Receive
<1>3. Record(n)
  BY <1>1 DEF Receive
<1>4. \/ /\ torn # "no" \/ n = BufferSize \/ whole = {}
         /\ torn' = IF torn # "no" THEN torn
                    ELSE IF n = BufferSize THEN "full" ELSE "cut"
         /\ UNCHANGED taken
      \/ /\ torn = "no" /\ n # BufferSize
         /\ \E k \in whole :
              /\ taken' = taken + k
              /\ torn' = IF Known(SubSeq(Pending, 1, k)) = <<>>
                         THEN "unhandled" ELSE "no"
  BY <1>3 DEF Record
<1>5. StreamType /\ PacketsExact
  BY DEF StreamInv
<1>6. /\ littleFrom \in BOOLEAN /\ littleTo \in BOOLEAN
      /\ torn \in {"no", "cut"} /\ written \in Seq(Packet)
      /\ taken \in 0..Len(written)
  BY <1>2, <1>5 DEF StreamType, PacketsExact
<1>7. connected' \in BOOLEAN
  BY <1>2 DEF Drops
<1> HIDE DEF whole, state
<1>8. CASE torn = "cut"
  <2>1. torn # "no"
    BY <1>8
  <2>2. torn' = torn /\ taken' = taken
    BY <2>1, <1>3 DEF Record
  <2>3. torn' = "cut"
    BY <1>8, <2>2
  <2> QED
    BY <1>2, <1>6, <1>7, <2>2, <2>3 DEF StreamInv, StreamType, PacketsExact
<1>9. CASE torn = "no" /\ n = BufferSize
  <2>1. torn' = "full" /\ taken' = taken
    BY <1>4, <1>9
  <2>2. handled' = handled
    BY <1>2, <1>9
  <2>3. ~connected'
    <3>1. wire \in Seq(Byte)
      BY <1>5, <1>6, <1>9, PendingIs, InBytesIs, BytesType
      DEF PacketsExact, Stream
    <3>2. Len(wire) \in Nat /\ Len(s) = n
      BY <1>2, <3>1
    <3> HIDE DEF s
    <3> QED
      BY <1>2, <1>9, <3>2 DEF Drops
  <2>4. handled = Known(SubSeq(written, 1, taken))
    BY <1>5, <1>9 DEF PacketsExact
  <2>5. SubSeq(written', 1, taken') = SubSeq(written, 1, taken)
    BY <1>2, <2>1
  <2>6. handled' = Known(SubSeq(written', 1, taken'))
    BY <2>2, <2>4, <2>5
  <2> QED
    BY <1>2, <1>6, <1>7, <2>1, <2>3, <2>6 DEF StreamInv, StreamType, PacketsExact
<1>10. CASE torn = "no" /\ n # BufferSize /\ whole = {}
  <2>1. torn' = "cut" /\ taken' = taken
    BY <1>4, <1>10
  <2> QED
    BY <1>2, <1>6, <1>7, <2>1 DEF StreamInv, StreamType, PacketsExact
<1>11. CASE torn = "no" /\ n # BufferSize /\ whole # {}
  <2>1. PICK k \in whole :
          /\ taken' = taken + k
          /\ torn' = IF Known(SubSeq(Pending, 1, k)) = <<>>
                     THEN "unhandled" ELSE "no"
    BY <1>4, <1>11
  <2> DEFINE b == SubSeq(Pending, 1, k)
             done == SubSeq(written, 1, taken)
  <2>2. k \in 1..Len(Pending) /\ s = Stream(b)
    BY DEF whole
  <2>3. n < BufferSize
    BY <1>2, <1>11, StreamAssumption
  <2>4. /\ state = Progress(Bytes(b), Len(Bytes(b)), Known(b), littleTo)
        /\ Len(s) = n /\ b \in Seq(Packet)
        /\ wire' = Bytes(Rest(Pending, k))
    BY <1>2, <1>11, <2>2, <2>3, ChunkIs DEF state
  <2>5. /\ Pending = Rest(written, taken) /\ Pending \in Seq(Packet)
        /\ done \in Seq(Packet)
        /\ Len(Pending) = Len(written) - taken
    BY <1>5, PendingIs DEF Rest, Pending
  <2>6. /\ Rest(Pending, k) \in Seq(Packet)
        /\ taken' \in 0..Len(written)
        /\ SubSeq(written, 1, taken') = done \o b
        /\ Rest(written, taken') = Rest(Pending, k)
    <3>1. k \in 1..(Len(written) - taken) /\ taken' = taken + k
      BY <2>1, <2>2, <2>5
    <3>2. Upto(written, taken')
            = Upto(written, taken) \o Upto(Rest(written, taken), k)
      BY <1>6, <3>1, UptoSum
    <3>3. Rest(written, taken') = Rest(Rest(written, taken), k)
      BY <1>6, <3>1, RestSum
    <3>4. taken' \in 0..Len(written) /\ Rest(Pending, k) \in Seq(Packet)
      BY <1>6, <2>2, <2>5, <3>1, CutAt
    <3> QED
      BY <2>5, <3>2, <3>3, <3>4 DEF Upto
  <2> HIDE DEF b, done
  <2>7. /\ state.packets = Known(b) /\ state.valid = TRUE
    BY <2>4 DEF Progress
  <2>8. handled' = Known(done) \o Known(b)
    BY <1>2, <1>5, <1>11, <2>7 DEF PacketsExact, done
  <2>9. Known(SubSeq(written', 1, taken')) = Known(done) \o Known(b)
    BY <1>2, <2>1, <2>4, <2>5, <2>6, KnownConcat
  <2>10. connected' = (Known(b) # <<>>)
    BY <1>2, <1>11, <2>4, <2>7 DEF Drops
  <2>11. Stream(Pending)' = Bytes(Rest(Pending, k))
    <3>1. Pending' = Rest(Pending, k)
      BY <1>2, <2>1, <2>6 DEF Pending, Rest
    <3>2. littleFrom' \in BOOLEAN
      BY <1>2, <1>6
    <3> QED
      BY <2>6, <3>1, <3>2, InBytesIs DEF Stream
  <2>12. torn' = IF Known(b) = <<>> THEN "unhandled" ELSE "no"
    BY <2>1 DEF b
  <2>13. StreamType'
    BY <1>2, <1>6, <1>7, <2>1, <2>6, <2>12 DEF StreamType
  <2>14. PacketsExact'
    BY <2>4, <2>8, <2>9, <2>10, <2>11, <2>12 DEF PacketsExact
  <2> QED
    BY <2>13, <2>14 DEF StreamInv
<1> QED
  BY <1>6, <1>8, <1>9, <1>10, <1>11

(***************************************************************************)
(* Between hosts of any order of bytes, for bytes of any size, packets of  *)
(* any texts and a buffer of any size that four bytes can say: what Send   *)
(* wrote and onDataReceived took is exactly what the components handled,   *)
(* as long as nothing was cut, and the rest is on its way.                 *)
(***************************************************************************)
THEOREM PacketsAlwaysExact == StreamSpec => []PacketsExact
<1>1. StreamInit => StreamInv
  <2> SUFFICES ASSUME StreamInit PROVE StreamInv
    OBVIOUS
  <2>1. StreamType
    BY DEF StreamInit, StreamType
  <2>2. SubSeq(written, 1, taken) = <<>> /\ Pending = <<>>
    BY DEF StreamInit, Pending
  <2>3. <<>> \in Seq(Packet)
    OBVIOUS
  <2>4. Stream(Pending) = <<>>
    BY <2>1, <2>2, <2>3, InBytesIs, BytesEmpty DEF Stream, StreamType
  <2>5. PacketsExact
    BY <2>2, <2>4, KnownEmpty DEF StreamInit, PacketsExact
  <2> QED
    BY <2>1, <2>5 DEF StreamInv
<1>2. StreamInv /\ [StreamNext]_streamVars => StreamInv'
  <2> SUFFICES ASSUME StreamInv, [StreamNext]_streamVars PROVE StreamInv'
    OBVIOUS
  <2>1. CASE SendSome
    BY <2>1, SendKeeps
  <2>2. CASE ReceiveSome
    BY <2>2, ReceiveKeeps
  <2>3. CASE UNCHANGED streamVars
    BY <2>3 DEF streamVars, StreamInv, StreamType, PacketsExact, Pending, Stream
  <2> QED
    BY <2>1, <2>2, <2>3 DEF StreamNext
<1>3. StreamInv => PacketsExact
  BY DEF StreamInv
<1> QED
  BY <1>1, <1>2, <1>3, PTL DEF StreamSpec
=============================================================================
