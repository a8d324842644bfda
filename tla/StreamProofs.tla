------------------------------ MODULE StreamProofs ------------------------------
(***************************************************************************)
(* receiveData loses, repeats and reorders no byte until it reads over the *)
(* end of a message, and as long as messages come whole each side reads    *)
(* what the other one meant: for streams of any length, cut anywhere.      *)
(***************************************************************************)
EXTENDS PeerStream, WireProofs

-----------------------------------------------------------------------------
(* Sequences of bytes.                                                      *)

LEMMA BytesAreInts ==
  ASSUME NEW s \in Bytes
  PROVE  s \in Seq(Int) /\ s \in Seq(Nat)
<1>1. Len(s) \in Nat /\ s = [i \in 1 .. Len(s) |-> s[i]]
  BY DEF Bytes
<1>2. \A i \in 1 .. Len(s) : s[i] \in 0 .. Base - 1
  BY Elements DEF Bytes
<1>3. s \in [1 .. Len(s) -> Int] /\ s \in [1 .. Len(s) -> Nat]
  BY <1>1, <1>2
<1> QED
  BY <1>1, <1>3, FunctionIsSeq

LEMMA BytesMade ==
  ASSUME NEW n \in Nat, NEW f, f = [i \in 1 .. n |-> f[i]],
         \A i \in 1 .. n : f[i] \in 0 .. Base - 1
  PROVE  f \in Bytes /\ Len(f) = n
<1>1. f \in [1 .. n -> 0 .. Base - 1]
  OBVIOUS
<1> QED
  BY <1>1, FunctionIsSeq DEF Bytes

LEMMA SameBytes ==
  ASSUME NEW s \in Seq(Int), NEW t \in Seq(Int), Len(s) = Len(t),
         \A i \in 1 .. Len(s) : s[i] = t[i]
  PROVE  s = t
  OBVIOUS

LEMMA Joined ==
  ASSUME NEW s \in Bytes, NEW t \in Bytes
  PROVE  /\ s \o t \in Bytes /\ Len(s \o t) = Len(s) + Len(t)
         /\ \A i \in 1 .. Len(s) : (s \o t)[i] = s[i]
         /\ \A i \in 1 .. Len(t) : (s \o t)[Len(s) + i] = t[i]
<1>1. s \in Seq(Int) /\ t \in Seq(Int)
  BY BytesAreInts
<1>2. s \o t \in Bytes
  BY DEF Bytes
<1> QED
  BY <1>1, <1>2, Concatenation

LEMMA CutBytes ==
  ASSUME NEW s \in Bytes, NEW m \in 1 .. Len(s) + 1, NEW n \in m - 1 .. Len(s)
  PROVE  /\ SubSeq(s, m, n) \in Bytes /\ Len(SubSeq(s, m, n)) = n - m + 1
         /\ \A i \in 1 .. n - m + 1 : SubSeq(s, m, n)[i] = s[m - 1 + i]
<1> DEFINE t == SubSeq(s, m, n)
<1>1. s \in Seq(Int) /\ Len(s) \in Nat
  BY BytesAreInts
<1>2. /\ t \in Seq(Int) /\ Len(t) = n - m + 1
      /\ \A i \in 1 .. n - m + 1 : t[i] = s[m - 1 + i]
  BY <1>1, Cut
<1> HIDE DEF t
<1>3. t \in Bytes
  <2>1. \A i \in 1 .. n - m + 1 : t[i] \in 0 .. Base - 1
    <3> TAKE i \in 1 .. n - m + 1
    <3>1. m - 1 + i \in 1 .. Len(s)
      BY <1>1
    <3>2. s[m - 1 + i] \in 0 .. Base - 1
      BY <3>1, Elements DEF Bytes
    <3> QED
      BY <1>2, <3>2
  <2>2. t = [i \in 1 .. n - m + 1 |-> t[i]] /\ n - m + 1 \in Nat
    BY <1>1, <1>2
  <2> QED
    BY <2>1, <2>2, BytesMade
<1> QED
  BY <1>2, <1>3 DEF t
-----------------------------------------------------------------------------
(* Parts one behind the other on a tape: all is what they make together, and *)
(* start[k] where the first k of them end.                                   *)

Tape(parts, all, start) ==
    /\ parts \in Seq(Bytes) /\ all \in Bytes
    /\ start \in [0 .. Len(parts) -> 0 .. Len(all)]
    /\ start[0] = 0 /\ start[Len(parts)] = Len(all)
    /\ \A k \in 1 .. Len(parts) :
          /\ start[k] = start[k - 1] + Len(parts[k])
          /\ \A i \in 1 .. Len(parts[k]) : all[start[k - 1] + i] = parts[k][i]

WithPart(start, n, end) == [k \in 0 .. n + 1 |-> IF k = n + 1 THEN end ELSE start[k]]

LEMMA Longer ==
  ASSUME NEW parts \in Seq(Bytes), NEW part \in Bytes
  PROVE  /\ Append(parts, part) \in Seq(Bytes) /\ Len(Append(parts, part)) = Len(parts) + 1
         /\ \A k \in 1 .. Len(parts) : Append(parts, part)[k] = parts[k]
         /\ Append(parts, part)[Len(parts) + 1] = part
  OBVIOUS

LEMMA TapeGrows ==
  ASSUME NEW parts, NEW all, NEW start, Tape(parts, all, start), NEW part \in Bytes
  PROVE  Tape(Append(parts, part), all \o part,
              WithPart(start, Len(parts), Len(all) + Len(part)))
<1> DEFINE n == Len(parts)
           longer == Append(parts, part)
           more == all \o part
           places == WithPart(start, n, Len(all) + Len(part))
<1>1. parts \in Seq(Bytes) /\ all \in Bytes /\ n \in Nat
  BY DEF Tape
<1>2. /\ more \in Bytes /\ Len(more) = Len(all) + Len(part)
      /\ \A i \in 1 .. Len(all) : more[i] = all[i]
      /\ \A i \in 1 .. Len(part) : more[Len(all) + i] = part[i]
  BY <1>1, Joined
<1>3. Len(all) \in Nat /\ Len(part) \in Nat
  BY <1>1 DEF Bytes
<1>4. /\ longer \in Seq(Bytes) /\ Len(longer) = n + 1 /\ longer[n + 1] = part
      /\ \A k \in 1 .. n : longer[k] = parts[k]
  BY <1>1, Longer
<1> HIDE DEF longer, more
<1>5. \A k \in 0 .. n : start[k] \in 0 .. Len(all)
  BY DEF Tape
<1>6. /\ places = [k \in 0 .. n + 1 |-> places[k]] /\ places[n + 1] = Len(more)
      /\ \A k \in 0 .. n : places[k] = start[k]
  BY <1>1, <1>2 DEF WithPart
<1> HIDE DEF places
<1>7. places \in [0 .. n + 1 -> 0 .. Len(more)]
  <2>1. \A k \in 0 .. n + 1 : places[k] \in 0 .. Len(more)
    <3> TAKE k \in 0 .. n + 1
    <3>1. CASE k = n + 1
      BY <1>2, <1>3, <1>6, <3>1
    <3>2. CASE k # n + 1
      <4>1. k \in 0 .. n
        BY <1>1, <3>2
      <4> QED
        BY <1>2, <1>3, <1>5, <1>6, <4>1
    <3> QED
      BY <3>1, <3>2
  <2> QED
    BY <1>6, <2>1
<1>8. places[0] = 0
  <2>1. 0 \in 0 .. n
    BY <1>1
  <2> QED
    BY <1>6, <2>1 DEF Tape
<1>9. ASSUME NEW k \in 1 .. n + 1
      PROVE  /\ places[k] = places[k - 1] + Len(longer[k])
             /\ \A i \in 1 .. Len(longer[k]) : more[places[k - 1] + i] = longer[k][i]
  <2>1. CASE k = n + 1
    <3>1. places[k - 1] = Len(all) /\ longer[k] = part /\ places[k] = Len(more)
      <4>1. n \in 0 .. n /\ k - 1 = n
        BY <1>1, <2>1
      <4> QED
        BY <1>4, <1>6, <2>1, <4>1 DEF Tape
    <3> QED
      BY <1>2, <3>1
  <2>2. CASE k # n + 1
    <3>1. k \in 1 .. n /\ k \in 0 .. n /\ k - 1 \in 0 .. n
      BY <1>1, <2>2
    <3>2. places[k - 1] = start[k - 1] /\ places[k] = start[k] /\ longer[k] = parts[k]
      BY <1>4, <1>6, <3>1
    <3>3. /\ start[k] = start[k - 1] + Len(parts[k])
          /\ \A i \in 1 .. Len(parts[k]) : all[start[k - 1] + i] = parts[k][i]
      BY <3>1 DEF Tape
    <3>4. start[k - 1] \in 0 .. Len(all) /\ start[k] \in 0 .. Len(all) /\ Len(parts[k]) \in Nat
      <4>1. parts[k] \in Bytes
        BY <1>1, <3>1, Elements
      <4> QED
        BY <1>5, <3>1, <4>1 DEF Bytes
    <3>5. \A i \in 1 .. Len(parts[k]) : start[k - 1] + i \in 1 .. Len(all)
      BY <1>3, <3>3, <3>4
    <3> QED
      BY <1>2, <3>2, <3>3, <3>5
  <2> QED
    BY <2>1, <2>2
<1>10. Tape(longer, more, places)
  BY <1>2, <1>4, <1>6, <1>7, <1>8, <1>9 DEF Tape
<1> QED
  BY <1>10 DEF longer, more, places

LEMMA TapeHasParts ==
  ASSUME NEW parts, NEW all, NEW start, Tape(parts, all, start), NEW k \in 1 .. Len(parts)
  PROVE  /\ start[k - 1] \in Nat /\ start[k] \in Nat /\ start[k] <= Len(all)
         /\ start[k] = start[k - 1] + Len(parts[k])
         /\ SubSeq(all, start[k - 1] + 1, start[k]) = parts[k]
<1>1. /\ parts \in Seq(Bytes) /\ all \in Bytes /\ k \in 0 .. Len(parts) /\ k - 1 \in 0 .. Len(parts)
      /\ start \in [0 .. Len(parts) -> 0 .. Len(all)]
  BY DEF Tape
<1>2. parts[k] \in Bytes /\ Len(parts[k]) \in Nat /\ Len(all) \in Nat
  <2>1. parts[k] \in Bytes
    BY <1>1, Elements
  <2> QED
    BY <1>1, <2>1 DEF Bytes
<1>3. start[k] \in 0 .. Len(all) /\ start[k - 1] \in 0 .. Len(all)
  BY <1>1
<1>4. /\ start[k] = start[k - 1] + Len(parts[k])
      /\ \A i \in 1 .. Len(parts[k]) : all[start[k - 1] + i] = parts[k][i]
  BY DEF Tape
<1> DEFINE m == start[k - 1] + 1
           part == SubSeq(all, m, start[k])
<1>5. /\ m \in 1 .. Len(all) + 1 /\ start[k] \in m - 1 .. Len(all)
      /\ start[k] - m + 1 = Len(parts[k]) /\ m - 1 = start[k - 1]
  <2>1. PICK a, b, l, n : a = start[k - 1] /\ b = start[k] /\ l = Len(parts[k]) /\ n = Len(all)
    OBVIOUS
  <2>2. a \in 0 .. n /\ b \in 0 .. n /\ l \in Nat /\ n \in Nat /\ b = a + l
    BY <1>2, <1>3, <1>4, <2>1
  <2>3. a + 1 \in 1 .. n + 1 /\ b \in (a + 1) - 1 .. n /\ b - (a + 1) + 1 = l /\ (a + 1) - 1 = a
    BY <2>2
  <2> QED
    BY <2>1, <2>3
<1>6. /\ part \in Bytes /\ Len(part) = Len(parts[k])
      /\ \A i \in 1 .. Len(parts[k]) : part[i] = all[start[k - 1] + i]
  <2> HIDE DEF m
  <2>1. /\ part \in Bytes /\ Len(part) = start[k] - m + 1
        /\ \A i \in 1 .. start[k] - m + 1 : part[i] = all[m - 1 + i]
    BY <1>1, <1>5, CutBytes
  <2> QED
    BY <1>5, <2>1
<1> HIDE DEF part
<1>7. part = parts[k]
  <2>1. part \in Seq(Int) /\ parts[k] \in Seq(Int)
    BY <1>2, <1>6, BytesAreInts
  <2>2. \A i \in 1 .. Len(part) : part[i] = parts[k][i]
    BY <1>4, <1>6
  <2> QED
    BY <1>6, <2>1, <2>2, SameBytes
<1> QED
  BY <1>3, <1>4, <1>7 DEF part
-----------------------------------------------------------------------------
(* Messages as bytes.                                                       *)

LEMMA SmallQuotients ==
  ASSUME NEW a \in Nat, NEW b \in Nat, b > 0
  PROVE  /\ a < b => a \div b = 0 /\ a % b = a
         /\ b <= a /\ a < 2 * b => a \div b = 1 /\ a % b = a - b
<1> DEFINE q == a \div b
           r == a % b
<1>1. q \in Nat /\ r \in 0 .. b - 1 /\ q * b + r = a
  BY DivisionRest
<1> HIDE DEF q, r
<1>2. ASSUME q >= 1 PROVE b <= q * b
  <2>1. 1 * b <= q * b
    BY <1>1, <1>2, TimesGrows
  <2> QED
    BY <2>1
<1>3. ASSUME q >= 2 PROVE 2 * b <= q * b
  BY <1>1, <1>3, TimesGrows
<1>4. a < b => q = 0 /\ r = a
  <2> SUFFICES ASSUME a < b PROVE q = 0 /\ r = a
    OBVIOUS
  <2>1. q * b \in Nat
    BY <1>1
  <2>2. q = 0
    BY <1>1, <1>2, <2>1
  <2> QED
    BY <1>1, <2>2
<1>5. b <= a /\ a < 2 * b => q = 1 /\ r = a - b
  <2> SUFFICES ASSUME b <= a, a < 2 * b PROVE q = 1 /\ r = a - b
    OBVIOUS
  <2>1. q * b \in Nat
    BY <1>1
  <2>2. q # 0
    BY <1>1
  <2>3. q < 2
    BY <1>1, <1>3, <2>1
  <2>4. q = 1
    BY <1>1, <2>2, <2>3
  <2> QED
    BY <1>1, <2>4
<1> QED
  BY <1>4, <1>5 DEF q, r

LEMMA Places ==
  ASSUME NEW n \in Nat, NEW i \in 1 .. LengthSize * n
  PROVE  /\ (i - 1) \div LengthSize + 1 \in 1 .. n
         /\ ((i - 1) % LengthSize) + 1 \in 1 .. LengthSize
<1>1. LengthSize \in Nat /\ LengthSize > 0
  BY WireAssumption
<1>2. LengthSize * n \in Nat
  BY <1>1
<1>3. i - 1 \in Nat /\ i - 1 < LengthSize * n
  BY <1>2
<1> DEFINE a == i - 1
<1> HIDE DEF a
<1>4. a \in Nat /\ a < LengthSize * n
  BY <1>3 DEF a
<1>5. a \div LengthSize < n /\ a \div LengthSize \in Nat /\ a % LengthSize \in 0 .. LengthSize - 1
  BY <1>1, <1>4, DivisionBelow, DivisionRest
<1> QED
  BY <1>1, <1>5 DEF a

LEMMA NumberBytes ==
  ASSUME NEW n \in 0 .. IntLimit - 1
  PROVE  IntBytes(n) \in Bytes /\ Len(IntBytes(n)) = LengthSize /\ BytesToInt(IntBytes(n)) = n
<1>1. n \in Nat /\ n < IntLimit
  BY WireAssumption
<1> QED
  BY <1>1, NumberRoundTrip DEF Bytes

LEMMA FieldBytesTyped ==
  ASSUME NEW fields \in Seq(0 .. IntLimit - 1)
  PROVE  FieldBytes(fields) \in Bytes /\ Len(FieldBytes(fields)) = LengthSize * Len(fields)
<1> DEFINE n == LengthSize * Len(fields)
           f == FieldBytes(fields)
           Place(i) == ((i - 1) % LengthSize) + 1
           Field(i) == fields[(i - 1) \div LengthSize + 1]
<1>1. n \in Nat
  BY WireAssumption
<1>2. f = [i \in 1 .. n |-> IntBytes(Field(i))[Place(i)]]
  BY DEF FieldBytes
<1>3. ASSUME NEW i \in 1 .. n
      PROVE  IntBytes(Field(i))[Place(i)] \in 0 .. Base - 1
  <2>1. (i - 1) \div LengthSize + 1 \in 1 .. Len(fields) /\ Place(i) \in 1 .. LengthSize
    BY Places
  <2>2. Field(i) \in 0 .. IntLimit - 1
    BY <2>1, Elements
  <2> HIDE DEF Field, Place
  <2>3. IntBytes(Field(i)) \in Seq(0 .. Base - 1) /\ Len(IntBytes(Field(i))) = LengthSize
    BY <2>2, NumberBytes DEF Bytes
  <2> QED
    BY <2>1, <2>3, Elements
<1> HIDE DEF f, n, Place, Field
<1>4. f \in [1 .. n -> 0 .. Base - 1]
  BY <1>2, <1>3
<1> QED
  BY <1>1, <1>4, FunctionIsSeq DEF f, n, Bytes

LEMMA NoFieldBytes == FieldBytes(<<>>) = <<>>
<1>1. LengthSize * Len(<<>>) = 0
  BY WireAssumption
<1> QED
  BY <1>1 DEF FieldBytes

LEMMA OneField ==
  ASSUME NEW f \in 0 .. IntLimit - 1
  PROVE  FieldBytes(<<f>>) = IntBytes(f)
<1>1. LengthSize \in Nat /\ LengthSize > 0 /\ LengthSize * Len(<<f>>) = LengthSize
  BY WireAssumption
<1>2. IntBytes(f) \in Seq(Int) /\ Len(IntBytes(f)) = LengthSize
  BY NumberBytes, BytesAreInts
<1>3. FieldBytes(<<f>>) = [i \in 1 .. LengthSize |-> IntBytes(f)[i]]
  <2>1. ASSUME NEW i \in 1 .. LengthSize
        PROVE  (i - 1) \div LengthSize + 1 = 1 /\ ((i - 1) % LengthSize) + 1 = i
    <3>1. i - 1 \in Nat /\ i - 1 < LengthSize
      BY <1>1
    <3>2. (i - 1) \div LengthSize = 0 /\ (i - 1) % LengthSize = i - 1
      BY <1>1, <3>1, SmallQuotients
    <3> QED
      BY <3>2
  <2> DEFINE fields == <<f>>
             Bytewise(i) == IntBytes(fields[(i - 1) \div LengthSize + 1])[((i - 1) % LengthSize) + 1]
  <2>2. FieldBytes(fields) = [i \in 1 .. LengthSize |-> Bytewise(i)]
    BY <1>1 DEF FieldBytes
  <2>3. fields[1] = f
    OBVIOUS
  <2> HIDE DEF fields
  <2>4. \A i \in 1 .. LengthSize : Bytewise(i) = IntBytes(f)[i]
    BY <2>1, <2>3
  <2> HIDE DEF Bytewise
  <2>5. FieldBytes(fields) = [i \in 1 .. LengthSize |-> IntBytes(f)[i]]
    BY <2>2, <2>4
  <2> QED
    BY <2>5 DEF fields
<1> QED
  BY <1>2, <1>3

LEMMA TwoFields ==
  ASSUME NEW f \in 0 .. IntLimit - 1, NEW g \in 0 .. IntLimit - 1
  PROVE  FieldBytes(<<f, g>>) = IntBytes(f) \o IntBytes(g)
<1> DEFINE both == IntBytes(f) \o IntBytes(g)
           fields == <<f, g>>
<1>1. LengthSize \in Nat /\ LengthSize > 0 /\ LengthSize * Len(fields) = 2 * LengthSize
  BY WireAssumption
<1>2. /\ IntBytes(f) \in Bytes /\ Len(IntBytes(f)) = LengthSize
      /\ IntBytes(g) \in Bytes /\ Len(IntBytes(g)) = LengthSize
  BY NumberBytes
<1>3. /\ both \in Bytes /\ Len(both) = LengthSize + LengthSize
      /\ \A i \in 1 .. LengthSize : both[i] = IntBytes(f)[i]
      /\ \A i \in 1 .. LengthSize : both[LengthSize + i] = IntBytes(g)[i]
  <2> DEFINE s == IntBytes(f)
             t == IntBytes(g)
  <2> HIDE DEF s, t
  <2>1. s \in Bytes /\ Len(s) = LengthSize /\ t \in Bytes /\ Len(t) = LengthSize
    BY <1>2 DEF s, t
  <2>2. /\ s \o t \in Bytes /\ Len(s \o t) = Len(s) + Len(t)
        /\ \A i \in 1 .. Len(s) : (s \o t)[i] = s[i]
        /\ \A i \in 1 .. Len(t) : (s \o t)[Len(s) + i] = t[i]
    BY <2>1, Joined
  <2> QED
    BY <2>1, <2>2 DEF s, t
<1> HIDE DEF both
<1>4. fields \in Seq(0 .. IntLimit - 1) /\ fields[1] = f /\ fields[2] = g
  OBVIOUS
<1> HIDE DEF fields
<1>5. FieldBytes(fields) \in Bytes /\ Len(FieldBytes(fields)) = 2 * LengthSize
  BY <1>1, <1>4, FieldBytesTyped
<1>6. ASSUME NEW i \in 1 .. 2 * LengthSize
      PROVE  FieldBytes(fields)[i] = both[i]
  <2>0. i - 1 \in Nat
    OBVIOUS
  <2>1. FieldBytes(fields)[i] =
          IntBytes(fields[(i - 1) \div LengthSize + 1])[((i - 1) % LengthSize) + 1]
    BY <1>1 DEF FieldBytes
  <2>2. CASE i <= LengthSize
    <3>1. (i - 1) \div LengthSize = 0 /\ (i - 1) % LengthSize = i - 1
      BY <1>1, <2>0, <2>2, SmallQuotients
    <3>2. 0 + 1 = 1 /\ i - 1 + 1 = i /\ i \in 1 .. LengthSize
      BY <1>1, <2>2
    <3> QED
      BY <1>3, <1>4, <2>1, <3>1, <3>2
  <2>3. CASE i > LengthSize
    <3>1. (i - 1) \div LengthSize = 1 /\ (i - 1) % LengthSize = i - 1 - LengthSize
      <4>1. LengthSize <= i - 1 /\ i - 1 < 2 * LengthSize
        BY <1>1, <2>3
      <4> QED
        BY <1>1, <2>0, <4>1, SmallQuotients
    <3>2. /\ 1 + 1 = 2 /\ i - 1 - LengthSize + 1 = i - LengthSize
          /\ i - LengthSize \in 1 .. LengthSize /\ LengthSize + (i - LengthSize) = i
      BY <1>1, <2>3
    <3>3. FieldBytes(fields)[i] = IntBytes(g)[i - LengthSize]
      BY <1>4, <2>1, <3>1, <3>2
    <3>4. both[LengthSize + (i - LengthSize)] = IntBytes(g)[i - LengthSize]
      BY <1>3, <3>2
    <3> QED
      BY <3>2, <3>3, <3>4
  <2> QED
    BY <1>1, <2>2, <2>3
<1>7. FieldBytes(fields) = both
  <2>1. FieldBytes(fields) \in Seq(Int) /\ both \in Seq(Int)
    BY <1>3, <1>5, BytesAreInts
  <2>2. Len(FieldBytes(fields)) = Len(both)
    BY <1>1, <1>3, <1>5
  <2> QED
    BY <1>5, <1>6, <2>1, <2>2, SameBytes
<1> QED
  BY <1>7 DEF both, fields
LEMMA Single ==
  ASSUME NEW b \in 0 .. Base - 1
  PROVE  <<b>> \in Bytes /\ Len(<<b>>) = 1 /\ <<b>>[1] = b
  BY DEF Bytes

LEMMA NoBytes == <<>> \in Bytes /\ Len(<<>>) = 0
  BY DEF Bytes

\* The identifier and the rest of a message.
LEMMA BodyOfMessage ==
  ASSUME NEW m \in PeerMessages
  PROVE  /\ Body(m) \in Bytes
         /\ m.id = -1 => Body(m) = <<>>
         /\ m.id # -1 => /\ Len(Body(m)) > 0 /\ Id(Body(m)) = m.id
                         /\ Payload(Body(m)) = FieldBytes(m.fields) \o m.data
<1> DEFINE payload == FieldBytes(m.fields) \o m.data
<1>1. /\ m.id \in -1 .. (Base - 1) \div 2 /\ m.fields \in Seq(0 .. IntLimit - 1)
      /\ m.data \in Bytes
  BY DEF PeerMessages
<1>2. payload \in Bytes
  BY <1>1, FieldBytesTyped, Joined
<1>3. CASE m.id = -1
  BY <1>3, NoBytes DEF Body
<1>4. CASE m.id # -1
  <2>1. Base \in Nat /\ Base > 1
    BY WireAssumption
  <2>2. m.id \in 0 .. Base - 1 /\ 2 * m.id < Base
    <3>1. (Base - 1) \div 2 \in Nat /\ 2 * ((Base - 1) \div 2) <= Base - 1
      BY <2>1
    <3> QED
      BY <1>1, <1>4, <2>1, <3>1
  <2> DEFINE head == <<m.id>>
             body == head \o payload
  <2>3. head \in Bytes /\ Len(head) = 1 /\ head[1] = m.id
    BY <2>2, Single
  <2>4. Body(m) = body
    <3>1. FieldBytes(m.fields) \in Bytes
      BY <1>1, FieldBytesTyped
    <3>2. \A a, b, c \in Seq(0 .. Base - 1) : (a \o b) \o c = a \o (b \o c)
      OBVIOUS
    <3>3. (head \o FieldBytes(m.fields)) \o m.data = head \o (FieldBytes(m.fields) \o m.data)
      <4> HIDE DEF head
      <4> QED
        BY <1>1, <2>3, <3>1, <3>2 DEF Bytes
    <3>4. Body(m) = (head \o FieldBytes(m.fields)) \o m.data
      BY <1>4 DEF Body
    <3> QED
      BY <3>3, <3>4
  <2> HIDE DEF head, payload
  <2>5. /\ body \in Bytes /\ Len(body) = 1 + Len(payload) /\ body[1] = m.id
        /\ \A i \in 1 .. Len(payload) : body[1 + i] = payload[i]
    <3>1. /\ head \o payload \in Bytes /\ Len(head \o payload) = Len(head) + Len(payload)
          /\ \A i \in 1 .. Len(head) : (head \o payload)[i] = head[i]
          /\ \A i \in 1 .. Len(payload) : (head \o payload)[Len(head) + i] = payload[i]
      BY <1>2, <2>3, Joined
    <3> QED
      BY <2>3, <3>1
  <2>6. Len(payload) \in Nat
    BY <1>2 DEF Bytes
  <2> HIDE DEF body
  <2>7. SubSeq(body, 2, Len(body)) = payload
    <3> DEFINE rest == SubSeq(body, 2, Len(body))
    <3>1. /\ 2 \in 1 .. Len(body) + 1 /\ Len(body) \in 2 - 1 .. Len(body)
          /\ Len(body) - 2 + 1 = Len(payload) /\ 2 - 1 = 1
      BY <2>5, <2>6
    <3>2. /\ rest \in Bytes /\ Len(rest) = Len(payload)
          /\ \A i \in 1 .. Len(payload) : rest[i] = body[1 + i]
      <4>1. /\ rest \in Bytes /\ Len(rest) = Len(body) - 2 + 1
            /\ \A i \in 1 .. Len(body) - 2 + 1 : rest[i] = body[2 - 1 + i]
        BY <2>5, <3>1, CutBytes
      <4> QED
        BY <3>1, <4>1
    <3> HIDE DEF rest
    <3>3. rest = payload
      <4>1. rest \in Seq(Int) /\ payload \in Seq(Int)
        BY <1>2, <3>2, BytesAreInts
      <4>2. Len(rest) = Len(payload) /\ \A i \in 1 .. Len(rest) : rest[i] = payload[i]
        BY <2>5, <3>2
      <4> QED
        BY <4>1, <4>2, SameBytes
    <3> QED
      BY <3>3 DEF rest
  <2>8. Id(body) = m.id /\ Payload(body) = payload /\ Len(body) > 0
    <3>1. ~(2 * body[1] >= Base)
      BY <2>1, <2>2, <2>5
    <3> QED
      BY <2>5, <2>6, <2>7, <3>1 DEF Id, Payload
  <2> QED
    BY <1>4, <2>4, <2>5, <2>8 DEF payload
<1> QED
  BY <1>3, <1>4

LEMMA Framed ==
  ASSUME NEW body \in Bytes, Len(body) < IntLimit
  PROVE  /\ Frame(body) \in Bytes /\ Len(Frame(body)) = LengthSize + Len(body)
         /\ \A i \in 1 .. LengthSize : Frame(body)[i] = IntBytes(Len(body))[i]
         /\ \A i \in 1 .. Len(body) : Frame(body)[LengthSize + i] = body[i]
<1> DEFINE length == IntBytes(Len(body))
<1>1. Len(body) \in Nat
  BY DEF Bytes
<1>2. Len(body) \in 0 .. IntLimit - 1
  BY <1>1, WireAssumption
<1>3. length \in Bytes /\ Len(length) = LengthSize
  BY <1>2, NumberBytes
<1> HIDE DEF length
<1>4. /\ length \o body \in Bytes /\ Len(length \o body) = Len(length) + Len(body)
      /\ \A i \in 1 .. Len(length) : (length \o body)[i] = length[i]
      /\ \A i \in 1 .. Len(body) : (length \o body)[Len(length) + i] = body[i]
  BY <1>3, Joined
<1> QED
  BY <1>3, <1>4 DEF Frame, length

LEMMA DigestIsBytes == Digest \in Bytes
<1>1. Base \in Nat /\ Base >= 256
  BY WireAssumption, StreamAssumption
<1>2. Digest \in Seq(0 .. 255) /\ Len(Digest) \in Nat /\ Digest = [i \in 1 .. Len(Digest) |-> Digest[i]]
  BY StreamAssumption
<1>3. \A i \in 1 .. Len(Digest) : Digest[i] \in 0 .. Base - 1
  <2>1. \A i \in 1 .. Len(Digest) : Digest[i] \in 0 .. 255
    BY <1>2, Elements
  <2> TAKE i \in 1 .. Len(Digest)
  <2>2. Digest[i] \in 0 .. 255
    BY <2>1
  <2>3. \A v \in 0 .. 255 : v \in 0 .. Base - 1
    BY <1>1
  <2> QED
    BY <2>2, <2>3
<1> QED
  BY <1>2, <1>3, BytesMade

\* The hash in the handshake has its place, whatever is around it.
LEMMA HandshakeHasHash ==
  LET start == 1 + Len(Protocol) + Reserved
  IN  /\ HandshakeMessage \in Bytes /\ HandshakeSize \in Nat /\ HandshakeSize > 0
      /\ start \in Nat /\ Len(Digest) \in Nat /\ start + Len(Digest) <= HandshakeSize
      /\ \A i \in 1 .. Len(Digest) : HandshakeMessage[start + i] = Digest[i]
<1> DEFINE length == <<Len(Protocol)>>
           zeros == [k \in 1 .. Reserved |-> 0]
           start == 1 + Len(Protocol) + Reserved
           s2 == length \o Protocol
           s3 == s2 \o zeros
           s4 == s3 \o Digest
           s5 == s4 \o PeerId
<1>1. Base \in Nat /\ Base >= 256 /\ Reserved \in Nat /\ Protocol \in Bytes /\ PeerId \in Bytes
  BY WireAssumption, StreamAssumption
<1>2. Len(Protocol) \in Nat /\ Len(PeerId) \in Nat
  BY <1>1 DEF Bytes
<1>3. length \in Bytes /\ Len(length) = 1
  <2>1. Len(Protocol) \in 0 .. Base - 1
    BY <1>1, <1>2, StreamAssumption
  <2> QED
    BY <2>1, Single
<1>4. zeros \in Bytes /\ Len(zeros) = Reserved
  <2>1. 0 \in 0 .. Base - 1
    BY <1>1
  <2>2. zeros \in [1 .. Reserved -> 0 .. Base - 1]
    BY <2>1
  <2> HIDE DEF zeros
  <2> QED
    BY <1>1, <2>2, FunctionIsSeq DEF Bytes
<1>5. Digest \in Bytes /\ Len(Digest) \in Nat
  BY DigestIsBytes DEF Bytes
<1> HIDE DEF length, zeros
<1>6. s2 \in Bytes /\ Len(s2) = 1 + Len(Protocol)
  <2>1. s2 \in Bytes /\ Len(s2) = Len(length) + Len(Protocol)
    BY <1>1, <1>3, Joined
  <2> QED
    BY <1>3, <2>1
<1> HIDE DEF s2
<1>7. s3 \in Bytes /\ Len(s3) = start
  BY <1>4, <1>6, Joined
<1> HIDE DEF s3
<1>8. /\ s4 \in Bytes /\ Len(s4) = start + Len(Digest)
      /\ \A i \in 1 .. Len(Digest) : s4[start + i] = Digest[i]
  <2>1. /\ s4 \in Bytes /\ Len(s4) = Len(s3) + Len(Digest)
        /\ \A i \in 1 .. Len(Digest) : s4[Len(s3) + i] = Digest[i]
    BY <1>5, <1>7, Joined
  <2> HIDE DEF s4, start
  <2> QED
    BY <1>7, <2>1
<1> HIDE DEF s4
<1>9. /\ s5 \in Bytes /\ Len(s5) = Len(s4) + Len(PeerId)
      /\ \A i \in 1 .. Len(s4) : s5[i] = s4[i]
  BY <1>1, <1>8, Joined
<1>10. HandshakeMessage = s5
  <2>1. HexDecode(InfoHash) = Digest
    BY StreamAssumption, HexRoundTrip DEF InfoHash
  <2> QED
    BY <2>1 DEF HandshakeMessage, CreateHandshake, s2, s3, s4, length, zeros
<1> HIDE DEF s5
<1>11. start \in Nat /\ start > 0
  BY <1>1, <1>2
<1>12. \A i \in 1 .. Len(Digest) : start + i \in 1 .. Len(s4)
  BY <1>5, <1>8, <1>11
<1> QED
  BY <1>2, <1>5, <1>8, <1>9, <1>10, <1>11, <1>12 DEF HandshakeSize
\* What BitTorrentMessage::toString makes of a message of the client.
LEMMA MessageBytes ==
  ASSUME NEW id \in 0 .. 7, NEW payload \in Bytes, Len(payload) + 1 < IntLimit
  PROVE  LET m == MessageString(id, payload)
         IN  /\ m \in Bytes /\ Len(m) = LengthSize + (1 + Len(payload))
             /\ \A i \in 1 .. LengthSize : m[i] = IntBytes(1 + Len(payload))[i]
             /\ m[LengthSize + 1] = id
             /\ \A i \in 1 .. Len(payload) : m[LengthSize + 1 + i] = payload[i]
<1> DEFINE length == IntBytes(Len(payload) + 1)
           head == <<id>>
           s == length \o head
           m == s \o payload
<1>1. Len(payload) \in Nat /\ LengthSize \in Nat /\ Base >= 256 /\ Base \in Nat
  BY WireAssumption, StreamAssumption DEF Bytes
<1>2. length \in Bytes /\ Len(length) = LengthSize
  <2>1. Len(payload) + 1 \in 0 .. IntLimit - 1
    BY <1>1, WireAssumption
  <2> QED
    BY <2>1, NumberBytes
<1>3. head \in Bytes /\ Len(head) = 1 /\ head[1] = id
  <2>1. id \in 0 .. Base - 1
    BY <1>1
  <2> QED
    BY <2>1, Single
<1>4. Len(payload) + 1 = 1 + Len(payload)
  BY <1>1
<1> HIDE DEF length, head
<1>5. /\ s \in Bytes /\ Len(s) = LengthSize + 1 /\ s[LengthSize + 1] = id
      /\ \A i \in 1 .. LengthSize : s[i] = length[i]
  <2>1. /\ s \in Bytes /\ Len(s) = Len(length) + Len(head)
        /\ \A i \in 1 .. Len(length) : s[i] = length[i]
        /\ \A i \in 1 .. Len(head) : s[Len(length) + i] = head[i]
    BY <1>2, <1>3, Joined
  <2> HIDE DEF s
  <2> QED
    BY <1>2, <1>3, <2>1
<1> HIDE DEF s
<1>6. /\ m \in Bytes /\ Len(m) = LengthSize + 1 + Len(payload)
      /\ \A i \in 1 .. LengthSize + 1 : m[i] = s[i]
      /\ \A i \in 1 .. Len(payload) : m[LengthSize + 1 + i] = payload[i]
  <2>1. /\ m \in Bytes /\ Len(m) = Len(s) + Len(payload)
        /\ \A i \in 1 .. Len(s) : m[i] = s[i]
        /\ \A i \in 1 .. Len(payload) : m[Len(s) + i] = payload[i]
    BY <1>5, Joined
  <2> HIDE DEF m
  <2> QED
    BY <1>5, <2>1
<1>7. MessageString(id, payload) = m
  BY DEF MessageString, m, s, length, head
<1> HIDE DEF m
<1>8. LengthSize + 1 \in 1 .. LengthSize + 1 /\ \A i \in 1 .. LengthSize : i \in 1 .. LengthSize + 1
  BY <1>1
<1>9. m[LengthSize + 1] = id /\ \A i \in 1 .. LengthSize : m[i] = IntBytes(1 + Len(payload))[i]
  BY <1>4, <1>5, <1>6, <1>8 DEF length
<1>10. Len(m) = LengthSize + (1 + Len(payload))
  BY <1>1, <1>6
<1> QED
  BY <1>6, <1>7, <1>9, <1>10

LEMMA InterestedBytes ==
  /\ CreateInterested \in Bytes /\ Len(CreateInterested) = LengthSize + 1
  /\ \A i \in 1 .. LengthSize : CreateInterested[i] = IntBytes(1)[i]
  /\ CreateInterested[LengthSize + 1] = Interested
<1>1. Len(<<>>) + 1 < IntLimit /\ Len(<<>>) = 0 /\ 1 + 0 = 1 /\ Interested \in 0 .. 7
  BY WireAssumption, StreamAssumption DEF Interested
<1>2. <<>> \in Bytes
  BY NoBytes
<1> DEFINE m == MessageString(Interested, <<>>)
           none == Len(<<>>)
<1>3. /\ m \in Bytes /\ Len(m) = LengthSize + (1 + none)
      /\ \A i \in 1 .. LengthSize : m[i] = IntBytes(1 + none)[i]
      /\ m[LengthSize + 1] = Interested
  BY <1>1, <1>2, MessageBytes
<1>4. none = 0 /\ 1 + none = 1
  BY <1>1
<1> HIDE DEF m, none
<1> QED
  BY <1>3, <1>4 DEF CreateInterested, m

LEMMA RequestBytes ==
  ASSUME NEW r \in [1 .. 3 -> 0 .. IntLimit - 1]
  PROVE  LET m == CreateRequest(r[1], r[2], r[3])
         IN  /\ m \in Bytes /\ Len(m) = LengthSize + (1 + 3 * LengthSize)
             /\ \A i \in 1 .. LengthSize : m[i] = IntBytes(1 + 3 * LengthSize)[i]
             /\ m[LengthSize + 1] = Request
             /\ \A i \in 1 .. LengthSize :
                  /\ m[LengthSize + 1 + i] = IntBytes(r[1])[i]
                  /\ m[LengthSize + 1 + LengthSize + i] = IntBytes(r[2])[i]
                  /\ m[LengthSize + 1 + 2 * LengthSize + i] = IntBytes(r[3])[i]
<1> DEFINE a == IntBytes(r[1])
           b == IntBytes(r[2])
           c == IntBytes(r[3])
           ab == a \o b
           payload == ab \o c
           m == MessageString(Request, payload)
<1>1. LengthSize \in Nat
  BY WireAssumption
<1>2. /\ a \in Bytes /\ Len(a) = LengthSize
      /\ b \in Bytes /\ Len(b) = LengthSize
      /\ c \in Bytes /\ Len(c) = LengthSize
  <2>1. r[1] \in 0 .. IntLimit - 1 /\ r[2] \in 0 .. IntLimit - 1 /\ r[3] \in 0 .. IntLimit - 1
    OBVIOUS
  <2> QED
    BY <2>1, NumberBytes
<1> HIDE DEF a, b, c
<1>3. /\ ab \in Bytes /\ Len(ab) = 2 * LengthSize
      /\ \A i \in 1 .. LengthSize : ab[i] = a[i]
      /\ \A i \in 1 .. LengthSize : ab[LengthSize + i] = b[i]
  <2>1. /\ ab \in Bytes /\ Len(ab) = Len(a) + Len(b)
        /\ \A i \in 1 .. Len(a) : ab[i] = a[i]
        /\ \A i \in 1 .. Len(b) : ab[Len(a) + i] = b[i]
    BY <1>2, Joined
  <2> HIDE DEF ab
  <2> QED
    BY <1>1, <1>2, <2>1
<1> HIDE DEF ab
<1>4. /\ payload \in Bytes /\ Len(payload) = 3 * LengthSize
      /\ \A i \in 1 .. 2 * LengthSize : payload[i] = ab[i]
      /\ \A i \in 1 .. LengthSize : payload[2 * LengthSize + i] = c[i]
  <2>1. /\ payload \in Bytes /\ Len(payload) = Len(ab) + Len(c)
        /\ \A i \in 1 .. Len(ab) : payload[i] = ab[i]
        /\ \A i \in 1 .. Len(c) : payload[Len(ab) + i] = c[i]
    BY <1>2, <1>3, Joined
  <2> HIDE DEF payload
  <2> QED
    BY <1>1, <1>2, <1>3, <2>1
<1> HIDE DEF payload
<1>5. \A i \in 1 .. LengthSize :
        payload[i] = a[i] /\ payload[LengthSize + i] = b[i] /\ payload[2 * LengthSize + i] = c[i]
  <2> TAKE i \in 1 .. LengthSize
  <2>1. i \in 1 .. 2 * LengthSize /\ LengthSize + i \in 1 .. 2 * LengthSize
    BY <1>1
  <2> QED
    BY <1>3, <1>4, <2>1
<1>6. Len(payload) + 1 < IntLimit /\ Request \in 0 .. 7
  BY <1>1, <1>4, StreamAssumption, WireAssumption DEF Request
<1>7. /\ m \in Bytes /\ Len(m) = LengthSize + (1 + Len(payload))
      /\ \A i \in 1 .. LengthSize : m[i] = IntBytes(1 + Len(payload))[i]
      /\ m[LengthSize + 1] = Request
      /\ \A i \in 1 .. Len(payload) : m[LengthSize + 1 + i] = payload[i]
  BY <1>4, <1>6, MessageBytes
<1>8. CreateRequest(r[1], r[2], r[3]) = m
  BY DEF CreateRequest, m, payload, ab, a, b, c
<1> HIDE DEF m
<1>9. ASSUME NEW i \in 1 .. LengthSize
      PROVE  /\ m[LengthSize + 1 + i] = a[i]
             /\ m[LengthSize + 1 + LengthSize + i] = b[i]
             /\ m[LengthSize + 1 + 2 * LengthSize + i] = c[i]
  <2>1. /\ i \in 1 .. Len(payload) /\ LengthSize + i \in 1 .. Len(payload)
        /\ 2 * LengthSize + i \in 1 .. Len(payload)
    BY <1>1, <1>4
  <2>2. /\ LengthSize + 1 + (LengthSize + i) = LengthSize + 1 + LengthSize + i
        /\ LengthSize + 1 + (2 * LengthSize + i) = LengthSize + 1 + 2 * LengthSize + i
    BY <1>1
  <2>3. /\ m[LengthSize + 1 + i] = payload[i]
        /\ m[LengthSize + 1 + (LengthSize + i)] = payload[LengthSize + i]
        /\ m[LengthSize + 1 + (2 * LengthSize + i)] = payload[2 * LengthSize + i]
    BY <1>7, <2>1
  <2> QED
    BY <1>5, <2>2, <2>3
<1> QED
  BY <1>4, <1>7, <1>8, <1>9 DEF a, b, c
-----------------------------------------------------------------------------
(* What the peer and the client have sent, part by part.                    *)

Parts == [k \in 1 .. sent |-> IF k = 1 THEN Bodies[1] ELSE Frame(Bodies[k])]

Word(k) ==
    IF k = 1 THEN HandshakeMessage
    ELSE IF k = 2 THEN CreateInterested
    ELSE CreateRequest(Requests[k - 2][1], Requests[k - 2][2], Requests[k - 2][3])

Words == [k \in 1 .. asked + 1 |-> Word(k)]

LEMMA NextWord ==
  ASSUME asked \in 0 .. Len(Requests) + 1, ClientSends
  PROVE  asked' = asked + 1 /\ outgoing' = outgoing \o Word(asked + 2)
<1>1. /\ asked' = asked + 1
      /\ outgoing' = outgoing \o
           (IF asked = 0 THEN CreateInterested
            ELSE CreateRequest(Requests[asked][1], Requests[asked][2], Requests[asked][3]))
  BY DEF ClientSends
<1>2. asked + 2 # 1 /\ (asked + 2 = 2 <=> asked = 0) /\ asked + 2 - 2 = asked
  OBVIOUS
<1>3. Word(asked + 2) =
         IF asked = 0 THEN CreateInterested
         ELSE CreateRequest(Requests[asked][1], Requests[asked][2], Requests[asked][3])
  BY <1>2 DEF Word
<1> QED
  BY <1>1, <1>3

LEMMA BodiesTyped ==
  ASSUME messages \in Conversations
  PROVE  /\ messages \in Seq(PeerMessages) /\ Len(messages) \in Nat
         /\ Bodies \in Seq(Bytes) /\ Len(Bodies) = Len(messages) + 1 /\ Bodies[1] = Reply
         /\ \A k \in 1 .. Len(messages) :
              Bodies[k + 1] = Body(messages[k]) /\ Len(Bodies[k + 1]) < IntLimit
<1> DEFINE bodies == [k \in DOMAIN messages |-> Body(messages[k])]
<1>1. messages \in Seq(PeerMessages) /\ Len(messages) \in Nat /\ DOMAIN messages = 1 .. Len(messages)
  <2>1. messages \in Seq(PeerMessages)
    BY StreamAssumption
  <2> QED
    BY <2>1
<1>2. \A k \in 1 .. Len(messages) : Body(messages[k]) \in Bytes /\ Len(Body(messages[k])) < IntLimit
  <2> TAKE k \in 1 .. Len(messages)
  <2>1. messages[k] \in PeerMessages
    BY <1>1, Elements
  <2> QED
    BY <1>1, <2>1, BodyOfMessage, StreamAssumption
<1>3. /\ bodies \in Seq(Bytes) /\ Len(bodies) = Len(messages)
      /\ \A k \in 1 .. Len(messages) : bodies[k] = Body(messages[k])
  <2>1. bodies \in [1 .. Len(messages) -> Bytes]
    BY <1>1, <1>2
  <2>2. \A k \in 1 .. Len(messages) : bodies[k] = Body(messages[k])
    BY <1>1
  <2> HIDE DEF bodies
  <2> QED
    BY <1>1, <2>1, <2>2, FunctionIsSeq
<1> HIDE DEF bodies
<1>4. Bodies = <<Reply>> \o bodies
  BY DEF Bodies, bodies
<1>5. /\ Bodies \in Seq(Bytes) /\ Len(Bodies) = Len(messages) + 1 /\ Bodies[1] = Reply
      /\ \A k \in 1 .. Len(messages) : Bodies[k + 1] = bodies[k]
  <2>1. Reply \in Bytes
    BY StreamAssumption
  <2> HIDE DEF Bytes
  <2>2. <<Reply>> \in Seq(Bytes) /\ Len(<<Reply>>) = 1
    BY <2>1
  <2>3. Bodies \in Seq(Bytes)
    BY <1>3, <1>4, <2>2
  <2>4. Len(Bodies) = Len(messages) + 1 /\ Bodies[1] = Reply
    BY <1>1, <1>3, <1>4, <2>2
  <2>5. \A k \in 1 .. Len(messages) : Bodies[k + 1] = bodies[k]
    BY <1>1, <1>3, <1>4, <2>2
  <2> QED
    BY <2>3, <2>4, <2>5
<1> QED
  BY <1>1, <1>2, <1>3, <1>5

\* The body that the number r of results leads to, and the frame it comes in.
LEMMA NextBody ==
  ASSUME messages \in Conversations, NEW r \in Nat, r < Len(Bodies)
  PROVE  /\ Bodies[r + 1] \in Bytes /\ Len(Bodies[r + 1]) \in Nat
         /\ r = 0 => Len(Bodies[r + 1]) = HandshakeSize
         /\ r > 0 => /\ Bodies[r + 1] = Body(messages[r]) /\ messages[r] \in PeerMessages
                     /\ Len(Bodies[r + 1]) < IntLimit
<1>1. /\ messages \in Seq(PeerMessages) /\ Len(messages) \in Nat
      /\ Bodies \in Seq(Bytes) /\ Len(Bodies) = Len(messages) + 1 /\ Bodies[1] = Reply
      /\ \A k \in 1 .. Len(messages) :
           Bodies[k + 1] = Body(messages[k]) /\ Len(Bodies[k + 1]) < IntLimit
  BY BodiesTyped
<1>2. Bodies[r + 1] \in Bytes
  <2>1. r + 1 \in 1 .. Len(Bodies)
    BY <1>1
  <2> HIDE DEF Bytes
  <2> QED
    BY <1>1, <2>1, Elements
<1>3. Len(Bodies[r + 1]) \in Nat
  BY <1>2 DEF Bytes
<1>4. r = 0 => Len(Bodies[r + 1]) = HandshakeSize
  BY <1>1, StreamAssumption
<1>5. ASSUME r > 0
      PROVE  /\ Bodies[r + 1] = Body(messages[r]) /\ messages[r] \in PeerMessages
             /\ Len(Bodies[r + 1]) < IntLimit
  <2>1. r \in 1 .. Len(messages)
    BY <1>1, <1>5
  <2> QED
    BY <1>1, <2>1, Elements
<1> QED
  BY <1>2, <1>3, <1>4, <1>5

LEMMA PartsTyped ==
  ASSUME messages \in Conversations, sent \in 0 .. Len(Bodies)
  PROVE  /\ Parts \in Seq(Bytes) /\ Len(Parts) = sent
         /\ \A k \in 1 .. sent :
              Parts[k] = IF k = 1 THEN Bodies[1] ELSE Frame(Bodies[k])
<1>1. sent \in Nat
  BY BodiesTyped
<1>2. ASSUME NEW k \in 1 .. sent
      PROVE  (IF k = 1 THEN Bodies[1] ELSE Frame(Bodies[k])) \in Bytes
  <2>1. k - 1 \in Nat /\ k - 1 < Len(Bodies) /\ k - 1 + 1 = k
    BY <1>1, BodiesTyped
  <2>2. Bodies[k - 1 + 1] \in Bytes
    BY <2>1, NextBody
  <2>3. k # 1 => Len(Bodies[k - 1 + 1]) < IntLimit
    BY <2>1, NextBody
  <2> QED
    BY <2>1, <2>2, <2>3, Framed
<1>3. Parts \in [1 .. sent -> Bytes]
  BY <1>2 DEF Parts
<1>4. \A k \in 1 .. sent : Parts[k] = IF k = 1 THEN Bodies[1] ELSE Frame(Bodies[k])
  BY DEF Parts
<1> HIDE DEF Bytes
<1> QED
  BY <1>1, <1>3, <1>4, FunctionIsSeq

LEMMA WordsTyped ==
  /\ \A k \in 1 .. Len(Requests) + 2 : Word(k) \in Bytes
  /\ Requests \in Seq([1 .. 3 -> 0 .. IntLimit - 1]) /\ Len(Requests) \in Nat
<1>1. Requests \in Seq([1 .. 3 -> 0 .. IntLimit - 1]) /\ Len(Requests) \in Nat
  BY StreamAssumption
<1>2. ASSUME NEW k \in 1 .. Len(Requests) + 2
      PROVE  Word(k) \in Bytes
  <2>1. CASE k = 1
    BY <2>1, HandshakeHasHash DEF Word
  <2>2. CASE k = 2
    BY <2>2, InterestedBytes DEF Word
  <2>3. CASE k > 2
    <3>1. k - 2 \in 1 .. Len(Requests)
      BY <1>1, <2>3
    <3>2. Requests[k - 2] \in [1 .. 3 -> 0 .. IntLimit - 1]
      BY <1>1, <3>1, Elements
    <3> DEFINE r == Requests[k - 2]
    <3> HIDE DEF r
    <3>3. CreateRequest(r[1], r[2], r[3]) \in Bytes
      BY <3>2, RequestBytes DEF r
    <3> QED
      BY <2>3, <3>3 DEF Word, r
  <2> QED
    BY <1>1, <2>1, <2>2, <2>3
<1> QED
  BY <1>1, <1>2
-----------------------------------------------------------------------------
(* Types.                                                                   *)

LEMMA Taken ==
  ASSUME buffer \in Bytes, NEW n \in Nat
  PROVE  LET c == Len(Chunk(n))
         IN  /\ Chunk(n) \in Bytes /\ Rest(n) \in Bytes
             /\ c = Smaller(n, Len(buffer)) /\ c \in Nat /\ c <= n /\ c <= Len(buffer)
             /\ c < n => c = Len(buffer)
             /\ Len(Rest(n)) = Len(buffer) - c
             /\ \A i \in 1 .. c : Chunk(n)[i] = buffer[i]
             /\ \A i \in 1 .. Len(buffer) - c : Rest(n)[i] = buffer[c + i]
<1> DEFINE c == Smaller(n, Len(buffer))
<1>1. Len(buffer) \in Nat
  BY DEF Bytes
<1>2. c \in Nat /\ c <= n /\ c <= Len(buffer) /\ (c < n => c = Len(buffer))
  BY <1>1 DEF Smaller
<1>3. Chunk(n) = SubSeq(buffer, 1, c) /\ Rest(n) = SubSeq(buffer, c + 1, Len(buffer))
  BY DEF Chunk, Rest
<1> HIDE DEF c
<1>4. /\ Chunk(n) \in Bytes /\ Len(Chunk(n)) = c
      /\ \A i \in 1 .. c : Chunk(n)[i] = buffer[i]
  <2>1. 1 \in 1 .. Len(buffer) + 1 /\ c \in 1 - 1 .. Len(buffer) /\ c - 1 + 1 = c /\ 1 - 1 = 0
    BY <1>1, <1>2
  <2>2. /\ Chunk(n) \in Bytes /\ Len(Chunk(n)) = c - 1 + 1
        /\ \A i \in 1 .. c - 1 + 1 : Chunk(n)[i] = buffer[1 - 1 + i]
    BY <1>3, <2>1, CutBytes
  <2>3. \A i \in 1 .. c : 1 - 1 + i = i
    BY <1>2
  <2> QED
    BY <2>1, <2>2, <2>3
<1>5. /\ Rest(n) \in Bytes /\ Len(Rest(n)) = Len(buffer) - c
      /\ \A i \in 1 .. Len(buffer) - c : Rest(n)[i] = buffer[c + i]
  <2>1. /\ c + 1 \in 1 .. Len(buffer) + 1 /\ Len(buffer) \in (c + 1) - 1 .. Len(buffer)
        /\ Len(buffer) - (c + 1) + 1 = Len(buffer) - c /\ (c + 1) - 1 = c
    BY <1>1, <1>2
  <2>2. /\ Rest(n) \in Bytes /\ Len(Rest(n)) = Len(buffer) - (c + 1) + 1
        /\ \A i \in 1 .. Len(buffer) - (c + 1) + 1 : Rest(n)[i] = buffer[(c + 1) - 1 + i]
    BY <1>3, <2>1, CutBytes
  <2> QED
    BY <2>1, <2>2
<1> QED
  BY <1>2, <1>4, <1>5 DEF c

LEMMA ReadNumber ==
  ASSUME NEW digits \in Bytes
  PROVE  BytesToInt(digits) \in 0 .. IntLimit
<1>1. digits \in Seq(Nat) /\ Len(digits) \in Nat
  BY BytesAreInts
<1>2. PICK number \in [0 .. Len(digits) -> 0 .. IntLimit] : BytesToInt(digits) = number[Len(digits)]
  BY <1>1, BytesToIntSteps
<1> QED
  BY <1>1, <1>2

LEMMA AfterIsPlace == \A data : After(data) \subseteq {"length", "failed", "terminated"}
<1> TAKE data
<1>1. CASE Len(received) = 0
  BY <1>1 DEF After
<1>2. CASE Len(received) = 1 /\ Len(received) # 0
  BY <1>2 DEF After, AfterBitField
<1>3. CASE Len(received) # 1 /\ Len(received) # 0
  BY <1>3 DEF After, AfterMessage
<1> QED
  BY <1>1, <1>2, <1>3

LEMMA InitTypes == Init => TypeOK
<1> SUFFICES ASSUME Init PROVE TypeOK
  OBVIOUS
<1>1. /\ HandshakeMessage \in Bytes /\ HandshakeSize \in Nat /\ HandshakeSize > 0
      /\ HandshakeSize \in 0 .. HandshakeSize
  BY HandshakeHasHash
<1>2. <<>> \in Bytes /\ Len(<<>>) = 0
  BY NoBytes
<1>3. <<>> \in Seq(Bytes)
  OBVIOUS
<1>4. messages \in Conversations /\ 0 \in 0 .. Len(Bodies)
  BY BodiesTyped DEF Init
<1>5. 0 \in 0 .. Len(Requests) + 1
  BY WordsTyped
<1> QED
  BY <1>1, <1>2, <1>3, <1>4, <1>5 DEF Init, TypeOK

LEMMA NextTypes == TypeOK /\ [Next]_vars => TypeOK'
<1> SUFFICES ASSUME TypeOK, [Next]_vars PROVE TypeOK'
  OBVIOUS
<1>1. /\ pc \in {"length", "body", "failed", "terminated"} /\ size \in Nat /\ bytesToRead \in 0 .. size
      /\ reply \in Bytes /\ received \in Seq(Bytes) /\ messages \in Conversations
      /\ sent \in 0 .. Len(Bodies) /\ wire \in Bytes /\ buffer \in Bytes
      /\ asked \in 0 .. Len(Requests) + 1 /\ outgoing \in Bytes
      /\ (pc = "length" => reply = <<>>)
      /\ (pc = "body" => Len(reply) + bytesToRead = size)
      /\ (pc = "body" /\ size > 0 => bytesToRead > 0)
  BY DEF TypeOK
<1>2. Len(Bodies) \in Nat /\ \A k \in 1 .. Len(Bodies) : k - 1 \in Nat /\ k - 1 < Len(Bodies)
  BY <1>1, BodiesTyped
<1>3. CASE PeerSends
  <2>1. /\ sent < Len(Bodies) /\ sent' = sent + 1
        /\ wire' = wire \o (IF sent = 0 THEN Bodies[1] ELSE Frame(Bodies[sent + 1]))
        /\ UNCHANGED <<pc, size, bytesToRead, reply, received, buffer, messages, asked, outgoing>>
    BY <1>3 DEF PeerSends, client
  <2>2. Bodies' = Bodies
    BY <2>1 DEF Bodies
  <2>3. sent \in Nat /\ Bodies[sent + 1] \in Bytes
        /\ (sent = 0 => sent + 1 = 1) /\ (sent > 0 => Len(Bodies[sent + 1]) < IntLimit)
    BY <1>1, <1>2, <2>1, NextBody
  <2>4. (IF sent = 0 THEN Bodies[1] ELSE Frame(Bodies[sent + 1])) \in Bytes
    BY <2>3, Framed
  <2>5. wire' \in Bytes
    BY <1>1, <2>1, <2>4, Joined
  <2>6. sent' \in 0 .. Len(Bodies')
    BY <1>1, <1>2, <2>1, <2>2
  <2> QED
    BY <1>1, <2>1, <2>5, <2>6 DEF TypeOK
<1>4. CASE Arrive
  <2>1. PICK n \in 1 .. Len(wire) :
           buffer' = buffer \o SubSeq(wire, 1, n) /\ wire' = SubSeq(wire, n + 1, Len(wire))
    BY <1>4 DEF Arrive
  <2>2. UNCHANGED <<pc, size, bytesToRead, reply, received, sent, messages, asked, outgoing>>
    BY <1>4 DEF Arrive, client
  <2>3. Len(wire) \in Nat
    BY <1>1 DEF Bytes
  <2>4. SubSeq(wire, 1, n) \in Bytes /\ SubSeq(wire, n + 1, Len(wire)) \in Bytes
    <3>1. 1 \in 1 .. Len(wire) + 1 /\ n \in 1 - 1 .. Len(wire)
      BY <2>3
    <3>2. n + 1 \in 1 .. Len(wire) + 1 /\ Len(wire) \in (n + 1) - 1 .. Len(wire)
      BY <2>3
    <3> QED
      BY <1>1, <3>1, <3>2, CutBytes
  <2>5. buffer' \in Bytes /\ wire' \in Bytes
    BY <1>1, <2>1, <2>4, Joined
  <2>6. Bodies' = Bodies
    BY <2>2 DEF Bodies
  <2> QED
    BY <1>1, <2>2, <2>5, <2>6 DEF TypeOK
<1>5. CASE TimesOut
  <2>1. /\ pc' = "failed"
        /\ UNCHANGED <<size, bytesToRead, reply, received, sent, wire, buffer, messages, asked, outgoing>>
    BY <1>5 DEF TimesOut, client
  <2>2. Bodies' = Bodies
    BY <2>1 DEF Bodies
  <2> QED
    BY <1>1, <2>1, <2>2 DEF TypeOK
<1>6. CASE ReadLength
  <2> DEFINE chunk == Chunk(LengthSize)
             length == BytesToInt(chunk)
  <2>0. LengthSize \in Nat
    BY WireAssumption
  <2>1. /\ pc = "length" /\ buffer' = Rest(LengthSize)
        /\ UNCHANGED <<reply, received, sent, wire, messages, asked, outgoing>>
    BY <1>6 DEF ReadLength, client
  <2>2. chunk \in Bytes /\ buffer' \in Bytes
    BY <1>1, <2>0, <2>1, Taken
  <2> HIDE DEF chunk
  <2>3. length \in Nat
    BY <2>2, ReadNumber, WireAssumption
  <2>4. \/ pc' \in {"failed", "terminated"} /\ UNCHANGED <<size, bytesToRead>>
        \/ size' = length /\ bytesToRead' = length /\ pc' \in {"failed", "body"}
    BY <1>6 DEF ReadLength, chunk
  <2> HIDE DEF length
  <2>5. size' \in Nat /\ bytesToRead' \in 0 .. size' /\ pc' \in {"failed", "terminated", "body"}
    BY <1>1, <2>3, <2>4
  <2>6. pc' = "body" => Len(reply') + bytesToRead' = size' /\ bytesToRead' = size'
    <3>1. reply = <<>> /\ Len(<<>>) = 0
      BY <1>1, <2>1
    <3>2. pc' = "body" => size' = length /\ bytesToRead' = length
      BY <2>4
    <3>3. Len(reply') = 0
      BY <2>1, <3>1
    <3> QED
      BY <2>3, <3>2, <3>3
  <2>7. Bodies' = Bodies
    BY <2>1 DEF Bodies
  <2> QED
    BY <1>1, <2>1, <2>2, <2>5, <2>6, <2>7 DEF TypeOK
<1>7. CASE ReadNothing
  <2>1. /\ pc' = "failed"
        /\ UNCHANGED <<size, bytesToRead, reply, received, sent, wire, buffer, messages, asked, outgoing>>
    BY <1>7 DEF ReadNothing, client
  <2>2. Bodies' = Bodies
    BY <2>1 DEF Bodies
  <2> QED
    BY <1>1, <2>1, <2>2 DEF TypeOK
<1>8. CASE ReadMore
  <2> DEFINE chunk == Chunk(size)
  <2>1. /\ pc = "body" /\ size > 0 /\ Len(chunk) < bytesToRead
        /\ reply' = reply \o chunk /\ bytesToRead' = bytesToRead - Len(chunk)
        /\ buffer' = Rest(size)
        /\ UNCHANGED <<pc, size, received, sent, wire, messages, asked, outgoing>>
    BY <1>8 DEF ReadMore, client
  <2>2. chunk \in Bytes /\ buffer' \in Bytes /\ Len(chunk) \in Nat
    BY <1>1, <2>1, Taken
  <2> HIDE DEF chunk
  <2>3. reply' \in Bytes /\ Len(reply') = Len(reply) + Len(chunk) /\ Len(reply) \in Nat
    <3>1. Len(reply) \in Nat
      BY <1>1 DEF Bytes
    <3> QED
      BY <1>1, <2>1, <2>2, <3>1, Joined
  <2>4. bytesToRead' \in 0 .. size /\ bytesToRead' > 0 /\ Len(reply') + bytesToRead' = size
    <3> DEFINE c == Len(chunk)
               n == Len(reply)
    <3>1. /\ c \in Nat /\ n \in Nat /\ size \in Nat /\ bytesToRead \in Nat
          /\ bytesToRead <= size /\ c < bytesToRead /\ n + bytesToRead = size
      BY <1>1, <2>1, <2>2, <2>3
    <3>2. bytesToRead' = bytesToRead - c /\ Len(reply') = n + c
      BY <2>1, <2>3
    <3> HIDE DEF c, n
    <3> QED
      BY <3>1, <3>2
  <2>5. Bodies' = Bodies
    BY <2>1 DEF Bodies
  <2> QED
    BY <1>1, <2>1, <2>2, <2>3, <2>4, <2>5 DEF TypeOK
<1>9. CASE ReadLast
  <2> DEFINE data == reply \o Chunk(size)
  <2>1. /\ pc' \in After(data) /\ received' = Append(received, data)
        /\ reply' = <<>> /\ bytesToRead' = 0 /\ buffer' = Rest(size)
        /\ UNCHANGED <<size, sent, wire, messages, asked, outgoing>>
    BY <1>9 DEF ReadLast, client
  <2>2. data \in Bytes /\ buffer' \in Bytes
    BY <1>1, <2>1, Taken, Joined
  <2> HIDE DEF data
  <2>3. received' \in Seq(Bytes)
    BY <1>1, <2>1, <2>2, Longer
  <2>4. pc' \in {"length", "failed", "terminated"}
    BY <2>1, AfterIsPlace
  <2>5. Bodies' = Bodies
    BY <2>1 DEF Bodies
  <2>6. 0 \in 0 .. size /\ reply' \in Bytes
    BY <1>1, <2>1, NoBytes
  <2> QED
    BY <1>1, <2>1, <2>2, <2>3, <2>4, <2>5, <2>6 DEF TypeOK
<1>10. CASE ClientSends
  <2>1. /\ asked <= Len(Requests) /\ asked' = asked + 1
        /\ outgoing' = outgoing \o Word(asked + 2)
        /\ UNCHANGED <<pc, size, bytesToRead, reply, received, sent, wire, buffer, messages>>
    BY <1>1, <1>10, NextWord DEF ClientSends
  <2>2. Word(asked + 2) \in Bytes
    <3>1. asked + 2 \in 1 .. Len(Requests) + 2
      BY <1>1, <2>1, WordsTyped
    <3> QED
      BY <3>1, WordsTyped
  <2>3. outgoing' \in Bytes
    BY <1>1, <2>1, <2>2, Joined
  <2>4. asked' \in 0 .. Len(Requests) + 1
    BY <1>1, <2>1, WordsTyped
  <2>5. Bodies' = Bodies
    BY <2>1 DEF Bodies
  <2> QED
    BY <1>1, <2>1, <2>3, <2>4, <2>5 DEF TypeOK
<1>11. CASE UNCHANGED vars
  BY <1>1, <1>11 DEF TypeOK, vars, client, Bodies
<1> QED
  BY <1>3, <1>4, <1>5, <1>6, <1>7, <1>8, <1>9, <1>10, <1>11 DEF Next, ReceiveData, Stopped

(* Every variable keeps its type; while a message is read, what is missing and
   what was read are its size, and the last recv still has work to do. *)
THEOREM StreamTypeCorrect == Spec => []TypeOK
  BY InitTypes, NextTypes, PTL DEF Spec
-----------------------------------------------------------------------------
(* Where the client is in the stream.  All bytes the peer has sent are on a   *)
(* tape, of which pos have been read; what is left of it is in the buffer and *)
(* on the wire.  As long as no message was read wrongly, pos is the end of as *)
(* many messages as have been returned, and of what is read of the next one.  *)

InFlight(all, pos) ==
    /\ pos \in Nat /\ pos + Len(buffer) + Len(wire) = Len(all)
    /\ \A i \in 1 .. Len(buffer) : buffer[i] = all[pos + i]
    /\ \A i \in 1 .. Len(wire) : wire[i] = all[pos + Len(buffer) + i]

Header(r) == IF r = 0 THEN 0 ELSE LengthSize

Place(start, pos) ==
    LET r == Len(received) IN
    /\ pc = "length" => r \in 1 .. sent /\ pos = start[r]
    /\ pc = "body" =>
         /\ r \in 0 .. sent /\ r < Len(Bodies) /\ (r > 0 => r < sent)
         /\ size = Len(Bodies[r + 1])
         /\ \A i \in 1 .. Len(reply) : reply[i] = Bodies[r + 1][i]
         /\ pos = start[r] + Header(r) + Len(reply)

InPlace(all, start, pos) == Tape(Parts, all, start) /\ InFlight(all, pos) /\ Place(start, pos)

StreamInv ==
    FramingKept /\ pc \in {"length", "body"} => \E all, start, pos : InPlace(all, start, pos)

LEMMA Framing ==
  ASSUME received \in Seq(Bytes), messages \in Conversations
  PROVE  FramingKept <=> /\ Len(received) <= Len(Bodies)
                         /\ \A k \in 1 .. Len(received) : received[k] = Bodies[k]
<1>1. Bodies \in Seq(Bytes) /\ Len(Bodies) \in Nat /\ Len(received) \in Nat
  BY BodiesTyped
<1> HIDE DEF Bytes
<1> DEFINE n == Len(received)
           bodies == Bodies
<1> HIDE DEF bodies
<1>2. bodies \in Seq(Bytes)
  BY <1>1 DEF bodies
<1>3. SubSeq(received, 1, n) = received
  OBVIOUS
<1>4. ASSUME n <= Len(bodies)
      PROVE  received = SubSeq(bodies, 1, n) <=> \A k \in 1 .. n : received[k] = bodies[k]
  <2>1. SubSeq(bodies, 1, n) = [k \in 1 .. n |-> bodies[k]]
    BY <1>1, <1>2, <1>4
  <2>2. received = [k \in 1 .. n |-> received[k]]
    OBVIOUS
  <2> QED
    BY <2>1, <2>2
<1>5. FramingKept <=> n <= Len(bodies) /\ received = SubSeq(bodies, 1, n)
  BY <1>3 DEF FramingKept, IsPrefix, bodies
<1> QED
  BY <1>4, <1>5 DEF bodies

(* What one recv brings, in the middle of a message, goes on where the bytes
   read before end; only behind the message it may be of another one. *)
LEMMA WhatIsRead ==
  ASSUME TypeOK, pc = "body", size > 0, buffer # <<>>,
         NEW all, NEW start, NEW pos, InPlace(all, start, pos)
  PROVE  LET r == Len(received)
             data == reply \o Chunk(size)
         IN  /\ r \in Nat /\ r < sent /\ r < Len(Bodies) /\ size = Len(Bodies[r + 1])
             /\ Len(data) = Len(reply) + Len(Chunk(size))
             /\ \A i \in 1 .. Len(data) : i <= size => data[i] = Bodies[r + 1][i]
<1> DEFINE r == Len(received)
           chunk == Chunk(size)
           data == reply \o chunk
           n == Len(reply)
           body == Bodies[r + 1]
<1>1. /\ size \in Nat /\ reply \in Bytes /\ buffer \in Bytes /\ wire \in Bytes
      /\ messages \in Conversations /\ sent \in 0 .. Len(Bodies) /\ r \in Nat
  BY DEF TypeOK
<1>2. /\ r \in 0 .. sent /\ r < Len(Bodies) /\ (r > 0 => r < sent) /\ size = Len(body)
      /\ \A i \in 1 .. n : reply[i] = body[i]
      /\ pos = start[r] + Header(r) + n
  BY DEF InPlace, Place
<1>3. /\ chunk \in Bytes /\ Len(chunk) \in Nat /\ Len(chunk) <= Len(buffer)
      /\ \A i \in 1 .. Len(chunk) : chunk[i] = buffer[i]
  BY <1>1, Taken
<1>4. n \in Nat /\ Len(buffer) \in Nat /\ Len(wire) \in Nat /\ Len(buffer) > 0 /\ sent \in Nat
  <2>1. buffer \in Seq(0 .. Base - 1) /\ n \in Nat /\ Len(buffer) \in Nat /\ Len(wire) \in Nat
    BY <1>1 DEF Bytes
  <2>2. Len(buffer) > 0
    BY <2>1
  <2> QED
    BY <1>1, <2>1, <2>2, BodiesTyped
<1>5. /\ data \in Bytes /\ Len(data) = n + Len(chunk)
      /\ \A i \in 1 .. n : data[i] = reply[i]
      /\ \A i \in 1 .. Len(chunk) : data[n + i] = chunk[i]
  BY <1>1, <1>3, Joined
<1>6. /\ Parts \in Seq(Bytes) /\ Len(Parts) = sent
      /\ \A k \in 1 .. sent : Parts[k] = IF k = 1 THEN Bodies[1] ELSE Frame(Bodies[k])
  BY <1>1, PartsTyped
<1>7. body \in Bytes /\ (r > 0 => Len(body) < IntLimit)
  BY <1>1, <1>2, NextBody
<1>8. /\ all \in Bytes /\ start[0] = 0 /\ start[sent] = Len(all)
      /\ start \in [0 .. sent -> 0 .. Len(all)]
      /\ \A k \in 1 .. sent : \A i \in 1 .. Len(Parts[k]) : all[start[k - 1] + i] = Parts[k][i]
  BY <1>6 DEF InPlace, Tape
<1>9. /\ pos \in Nat /\ pos + Len(buffer) + Len(wire) = Len(all)
      /\ \A i \in 1 .. Len(buffer) : buffer[i] = all[pos + i]
  BY DEF InPlace, InFlight
<1>10. r < sent
  <2> SUFFICES ASSUME r = 0, sent = 0 PROVE FALSE
    BY <1>2, <1>4
  <2>1. Len(all) = 0
    BY <1>8
  <2> QED
    BY <1>4, <1>9, <2>1
<1> HIDE DEF chunk, data, n, body
<1>11. start[r] \in Nat
  <2>1. r \in 0 .. sent
    BY <1>2
  <2> QED
    BY <1>8, <2>1
<1>12. ASSUME NEW i \in 1 .. size
       PROVE  all[start[r] + Header(r) + i] = body[i]
  <2>1. r + 1 \in 1 .. sent /\ r + 1 - 1 = r
    BY <1>1, <1>4, <1>10
  <2>2. \A j \in 1 .. Len(Parts[r + 1]) : all[start[r] + j] = Parts[r + 1][j]
    BY <1>8, <2>1
  <2>3. CASE r = 0
    <3>1. Parts[r + 1] = body
      BY <1>6, <2>1, <2>3 DEF body
    <3>2. Header(r) = 0 /\ start[r] + Header(r) + i = start[r] + i
      BY <1>11, <2>3 DEF Header
    <3> QED
      BY <1>2, <2>2, <3>1, <3>2
  <2>4. CASE r > 0
    <3>1. Parts[r + 1] = Frame(body)
      <4>1. r + 1 # 1
        BY <1>1, <2>4
      <4> QED
        BY <1>6, <2>1, <4>1 DEF body
    <3>2. /\ Len(Frame(body)) = LengthSize + Len(body)
          /\ \A j \in 1 .. Len(body) : Frame(body)[LengthSize + j] = body[j]
      BY <1>7, <2>4, Framed
    <3>3. LengthSize \in Nat /\ Header(r) = LengthSize
      BY <2>4, WireAssumption DEF Header
    <3>4. LengthSize + i \in 1 .. LengthSize + Len(body) /\ i \in 1 .. Len(body)
      BY <1>2, <3>3
    <3>5. start[r] + Header(r) + i = start[r] + (LengthSize + i)
      BY <1>11, <3>3
    <3> QED
      BY <2>2, <3>1, <3>2, <3>4, <3>5
  <2> QED
    BY <1>1, <2>3, <2>4
<1>13. ASSUME NEW i \in 1 .. Len(data), i <= size
       PROVE  data[i] = body[i]
  <2>1. i \in 1 .. n + Len(chunk)
    BY <1>5
  <2>2. CASE i <= n
    <3>1. i \in 1 .. n
      BY <1>4, <2>1, <2>2
    <3> QED
      BY <1>2, <1>5, <3>1
  <2>3. CASE i > n
    <3> DEFINE j == i - n
    <3>1. j \in 1 .. Len(chunk) /\ j \in 1 .. Len(buffer) /\ n + j = i
      BY <1>3, <1>4, <2>1, <2>3
    <3> HIDE DEF j
    <3>2. data[i] = all[pos + j]
      BY <1>3, <1>5, <1>9, <3>1
    <3>3. pos + j = start[r] + Header(r) + i
      <4> DEFINE h == Header(r)
                 place == start[r]
      <4>1. h \in Nat
        BY WireAssumption DEF Header
      <4>2. place \in Nat /\ n \in Nat /\ j \in Nat /\ i = n + j /\ pos = place + h + n
        BY <1>2, <1>3, <1>4, <1>11, <3>1
      <4> HIDE DEF h, place
      <4>3. pos + j = place + h + i
        BY <4>1, <4>2
      <4> QED
        BY <4>3 DEF h, place
    <3>4. i \in 1 .. size
      BY <1>1, <1>13
    <3> QED
      BY <1>12, <3>2, <3>3, <3>4
  <2> QED
    BY <1>4, <2>1, <2>2, <2>3
<1> QED
  BY <1>1, <1>2, <1>5, <1>10, <1>13 DEF chunk, data, n, body
(* Where the whole length prefix is there, it is read as the length of the next
   message, whose body follows.                                             *)
LEMMA LengthIsRead ==
  ASSUME TypeOK, pc = "length", buffer # <<>>, Len(Chunk(LengthSize)) = LengthSize,
         NEW all, NEW start, NEW pos, InPlace(all, start, pos)
  PROVE  LET r == Len(received)
         IN  /\ r \in Nat /\ r > 0 /\ r < sent /\ r < Len(Bodies)
             /\ BytesToInt(Chunk(LengthSize)) = Len(Bodies[r + 1])
             /\ Len(Bodies[r + 1]) < IntLimit
<1> DEFINE r == Len(received)
           chunk == Chunk(LengthSize)
           body == Bodies[r + 1]
           length == IntBytes(Len(body))
<1>1. /\ buffer \in Bytes /\ wire \in Bytes /\ messages \in Conversations
      /\ sent \in 0 .. Len(Bodies) /\ r \in Nat /\ LengthSize \in Nat
  BY WireAssumption DEF TypeOK
<1>2. Len(Bodies) \in Nat /\ sent \in Nat /\ Len(buffer) \in Nat /\ Len(wire) \in Nat /\ Len(buffer) > 0
  <2>1. Len(buffer) \in Nat /\ Len(wire) \in Nat
    BY <1>1 DEF Bytes
  <2>2. Len(buffer) > 0
    BY <1>1, <2>1 DEF Bytes
  <2> QED
    BY <1>1, <2>1, <2>2, BodiesTyped
<1>3. r \in 1 .. sent /\ pos = start[r]
  BY DEF InPlace, Place
<1>4. /\ Parts \in Seq(Bytes) /\ Len(Parts) = sent
      /\ \A k \in 1 .. sent : Parts[k] = IF k = 1 THEN Bodies[1] ELSE Frame(Bodies[k])
  BY <1>1, PartsTyped
<1>5. /\ start[sent] = Len(all)
      /\ \A k \in 1 .. sent : \A i \in 1 .. Len(Parts[k]) : all[start[k - 1] + i] = Parts[k][i]
  BY <1>4 DEF InPlace, Tape
<1>6. /\ pos \in Nat /\ pos + Len(buffer) + Len(wire) = Len(all)
      /\ \A i \in 1 .. Len(buffer) : buffer[i] = all[pos + i]
  BY DEF InPlace, InFlight
<1>7. r < sent /\ r > 0 /\ r < Len(Bodies)
  <2>1. r # sent
    BY <1>2, <1>3, <1>5, <1>6
  <2> QED
    BY <1>1, <1>2, <1>3, <2>1
<1>8. body \in Bytes /\ Len(body) \in Nat /\ Len(body) < IntLimit
  BY <1>1, <1>7, NextBody
<1> HIDE DEF body
<1>9. length \in Bytes /\ Len(length) = LengthSize /\ BytesToInt(length) = Len(body)
  <2>1. Len(body) \in 0 .. IntLimit - 1
    BY <1>8, WireAssumption
  <2> QED
    BY <2>1, NumberBytes
<1>10. /\ Len(Frame(body)) = LengthSize + Len(body)
       /\ \A i \in 1 .. LengthSize : Frame(body)[i] = length[i]
  BY <1>8, Framed
<1>11. /\ chunk \in Bytes /\ Len(chunk) = LengthSize /\ LengthSize <= Len(buffer)
       /\ \A i \in 1 .. LengthSize : chunk[i] = buffer[i]
  BY <1>1, Taken
<1> HIDE DEF chunk, length
<1>12. ASSUME NEW i \in 1 .. LengthSize
       PROVE  chunk[i] = length[i]
  <2>1. r + 1 \in 1 .. sent /\ r + 1 - 1 = r /\ r + 1 # 1
    BY <1>1, <1>2, <1>7
  <2>2. Parts[r + 1] = Frame(body)
    BY <1>4, <2>1 DEF body
  <2>3. i \in 1 .. LengthSize + Len(body) /\ i \in 1 .. Len(buffer)
    BY <1>1, <1>2, <1>8, <1>11
  <2>4. all[start[r] + i] = Frame(body)[i]
    BY <1>5, <1>10, <2>1, <2>2, <2>3
  <2> QED
    BY <1>3, <1>6, <1>10, <1>11, <2>3, <2>4
<1>13. chunk = length
  <2>1. chunk \in Seq(Int) /\ length \in Seq(Int)
    BY <1>9, <1>11, BytesAreInts
  <2> QED
    BY <1>9, <1>11, <1>12, <2>1, SameBytes
<1> QED
  BY <1>1, <1>7, <1>8, <1>9, <1>13 DEF chunk, body

(* What recv takes out of the buffer is read.                               *)
LEMMA RecvAdvances ==
  ASSUME buffer \in Bytes, wire \in Bytes, NEW n \in Nat, buffer' = Rest(n), wire' = wire,
         NEW all, NEW pos, InFlight(all, pos), NEW c, c = Len(Chunk(n))
  PROVE  InFlight(all, pos + c)'
<1>1. /\ c \in Nat /\ c <= Len(buffer) /\ Len(Rest(n)) = Len(buffer) - c
      /\ \A i \in 1 .. Len(buffer) - c : Rest(n)[i] = buffer[c + i]
  BY Taken
<1>2. Len(buffer) \in Nat /\ Len(wire) \in Nat
  BY DEF Bytes
<1>3. /\ pos \in Nat /\ pos + Len(buffer) + Len(wire) = Len(all)
      /\ \A i \in 1 .. Len(buffer) : buffer[i] = all[pos + i]
      /\ \A i \in 1 .. Len(wire) : wire[i] = all[pos + Len(buffer) + i]
  BY DEF InFlight
<1>4. Len(buffer') = Len(buffer) - c /\ Len(wire') = Len(wire)
  BY <1>1
<1>5. pos + c \in Nat /\ (pos + c) + Len(buffer') + Len(wire') = Len(all)
  <2> DEFINE b == Len(buffer)
             w == Len(wire)
             l == Len(all)
  <2>1. /\ c \in Nat /\ b \in Nat /\ w \in Nat /\ pos \in Nat /\ c <= b /\ pos + b + w = l
        /\ Len(buffer') = b - c /\ Len(wire') = w
    BY <1>1, <1>2, <1>3, <1>4
  <2> HIDE DEF b, w, l
  <2>2. pos + c \in Nat /\ (pos + c) + (b - c) + w = l
    BY <2>1
  <2> QED
    BY <2>1, <2>2 DEF l
<1>6. \A i \in 1 .. Len(buffer') : buffer'[i] = all[(pos + c) + i]
  <2> TAKE i \in 1 .. Len(buffer')
  <2>1. i \in 1 .. Len(buffer) - c /\ c + i \in 1 .. Len(buffer)
    BY <1>1, <1>2, <1>4
  <2>2. buffer'[i] = buffer[c + i]
    BY <1>1, <2>1
  <2>3. pos + (c + i) = (pos + c) + i
    BY <1>1, <1>3, <2>1
  <2> QED
    BY <1>3, <2>1, <2>2, <2>3
<1>7. \A i \in 1 .. Len(wire') : wire'[i] = all[(pos + c) + Len(buffer') + i]
  <2> TAKE i \in 1 .. Len(wire')
  <2>1. i \in 1 .. Len(wire) /\ (pos + c) + Len(buffer') + i = pos + Len(buffer) + i
    BY <1>1, <1>2, <1>3, <1>4
  <2> QED
    BY <1>3, <2>1
<1> QED
  BY <1>5, <1>6, <1>7 DEF InFlight

LEMMA InitPlace == Init => StreamInv
<1> SUFFICES ASSUME Init PROVE StreamInv
  OBVIOUS
<1> DEFINE start == [k \in 0 .. 0 |-> 0]
<1>1. messages \in Conversations /\ 0 < Len(Bodies) /\ 0 \in 0 .. Len(Bodies)
  BY BodiesTyped DEF Init
<1>2. Parts \in Seq(Bytes) /\ Len(Parts) = 0
  BY <1>1, PartsTyped DEF Init
<1>3. Tape(Parts, <<>>, start)
  <2>1. <<>> \in Bytes /\ Len(<<>>) = 0
    BY NoBytes
  <2>2. start \in [0 .. 0 -> 0 .. 0] /\ start[0] = 0
    OBVIOUS
  <2> HIDE DEF start
  <2> QED
    BY <1>2, <2>1, <2>2 DEF Tape
<1>4. InFlight(<<>>, 0)
  BY DEF InFlight, Init
<1>5. Place(start, 0)
  <2>1. Len(Bodies[0 + 1]) = HandshakeSize
    BY <1>1, NextBody
  <2>2. start[0] = 0
    OBVIOUS
  <2> HIDE DEF start
  <2>3. Len(received) = 0 /\ Len(reply) = 0 /\ pc = "body" /\ sent = 0 /\ size = HandshakeSize
    BY DEF Init
  <2> QED
    BY <1>1, <2>1, <2>2, <2>3 DEF Place, Header
<1> QED
  BY <1>3, <1>4, <1>5 DEF StreamInv, InPlace
LEMMA OneMore ==
  ASSUME NEW parts \in Seq(Bytes), NEW part \in Bytes, NEW more \in Seq(Bytes),
         Len(more) = Len(parts) + 1, more[Len(parts) + 1] = part,
         \A k \in 1 .. Len(parts) : more[k] = parts[k]
  PROVE  more = Append(parts, part)
<1> HIDE DEF Bytes
<1> QED
  OBVIOUS

LEMMA SendKeepsPlace ==
  ASSUME TypeOK, TypeOK', StreamInv, PeerSends
  PROVE  StreamInv'
<1> DEFINE part == IF sent = 0 THEN Bodies[1] ELSE Frame(Bodies[sent + 1])
<1>1. /\ sent < Len(Bodies) /\ sent' = sent + 1 /\ wire' = wire \o part
      /\ UNCHANGED <<pc, size, bytesToRead, reply, received, buffer, messages, asked, outgoing>>
  BY DEF PeerSends, client
<1>2. /\ messages \in Conversations /\ sent \in 0 .. Len(Bodies) /\ sent \in Nat /\ Len(Bodies) \in Nat
      /\ buffer \in Bytes /\ wire \in Bytes /\ Len(received) \in Nat
  <2>1. messages \in Conversations /\ buffer \in Bytes /\ wire \in Bytes /\ sent \in 0 .. Len(Bodies)
        /\ received \in Seq(Bytes)
    BY DEF TypeOK
  <2> QED
    BY <2>1, BodiesTyped
<1>3. Bodies' = Bodies
  BY <1>1 DEF Bodies
<1> SUFFICES ASSUME FramingKept', pc' \in {"length", "body"}
             PROVE  \E all, start, pos : InPlace(all, start, pos)'
  BY DEF StreamInv
<1>4. PICK all, start, pos : InPlace(all, start, pos)
  <2>1. FramingKept /\ pc \in {"length", "body"}
    BY <1>1, <1>3 DEF FramingKept
  <2> QED
    BY <2>1 DEF StreamInv
<1>5. Tape(Parts, all, start) /\ InFlight(all, pos) /\ Place(start, pos)
  BY <1>4 DEF InPlace
<1>6. /\ Parts \in Seq(Bytes) /\ Len(Parts) = sent
      /\ \A k \in 1 .. sent : Parts[k] = IF k = 1 THEN Bodies[1] ELSE Frame(Bodies[k])
  BY <1>2, PartsTyped
<1>7. part \in Bytes
  <2>1. Bodies[sent + 1] \in Bytes /\ (sent > 0 => Len(Bodies[sent + 1]) < IntLimit)
        /\ (sent = 0 => sent + 1 = 1)
    BY <1>1, <1>2, NextBody
  <2> QED
    BY <1>2, <2>1, Framed
<1>8. Parts' = Append(Parts, part)
  <2> DEFINE more == Parts'
             Part(k) == IF k = 1 THEN Bodies[1] ELSE Frame(Bodies[k])
  <2>1. more = [k \in 1 .. sent + 1 |-> Part(k)]
    BY <1>1, <1>3 DEF Parts
  <2>2. \A k \in 1 .. sent + 1 : Part(k) \in Bytes
    <3> TAKE k \in 1 .. sent + 1
    <3>1. k - 1 \in Nat /\ k - 1 < Len(Bodies) /\ k - 1 + 1 = k
      BY <1>1, <1>2
    <3>2. Bodies[k - 1 + 1] \in Bytes /\ (k - 1 > 0 => Len(Bodies[k - 1 + 1]) < IntLimit)
      BY <1>2, <3>1, NextBody
    <3> QED
      BY <3>1, <3>2, Framed
  <2>3. part = Part(sent + 1) /\ \A k \in 1 .. sent : Parts[k] = Part(k)
    BY <1>2, <1>6
  <2> HIDE DEF Part, part, more
  <2>4. more \in [1 .. sent + 1 -> Bytes] /\ sent + 1 \in Nat /\ sent + 1 \in 1 .. sent + 1
        /\ \A k \in 1 .. sent : k \in 1 .. sent + 1
    BY <1>2, <2>1, <2>2
  <2>5. more \in Seq(Bytes) /\ Len(more) = sent + 1
    BY <2>4, FunctionIsSeq
  <2>6. more[sent + 1] = part /\ \A k \in 1 .. sent : more[k] = Parts[k]
    BY <2>1, <2>3, <2>4
  <2>7. more = Append(Parts, part)
    BY <1>6, <1>7, <2>5, <2>6, OneMore
  <2> QED
    BY <2>7 DEF more
<1> HIDE DEF part
<1>0. PICK all2, start2 :
           all2 = all \o part /\ start2 = WithPart(start, sent, Len(all) + Len(part))
  OBVIOUS
<1>9. Tape(Parts', all2, start2)
  <2>1. Tape(Append(Parts, part), all \o part, WithPart(start, Len(Parts), Len(all) + Len(part)))
    BY <1>5, <1>7, TapeGrows
  <2> QED
    BY <1>0, <1>6, <1>8, <2>1
<1>10. /\ all \in Bytes /\ all2 \in Bytes /\ Len(all2) = Len(all) + Len(part)
       /\ \A i \in 1 .. Len(all) : all2[i] = all[i]
       /\ \A i \in 1 .. Len(part) : all2[Len(all) + i] = part[i]
  <2>1. all \in Bytes
    BY <1>5 DEF Tape
  <2> QED
    BY <1>0, <1>7, <2>1, Joined
<1>11. /\ wire' \in Bytes /\ Len(wire') = Len(wire) + Len(part)
       /\ \A i \in 1 .. Len(wire) : wire'[i] = wire[i]
       /\ \A i \in 1 .. Len(part) : wire'[Len(wire) + i] = part[i]
  BY <1>1, <1>2, <1>7, Joined
<1>12. \A k \in 0 .. sent : start2[k] = start[k]
  BY <1>0, <1>2 DEF WithPart
<1>13. Len(all) \in Nat /\ Len(part) \in Nat /\ Len(wire) \in Nat /\ Len(buffer) \in Nat
  BY <1>2, <1>7, <1>10 DEF Bytes
<1>14. /\ pos \in Nat /\ pos + Len(buffer) + Len(wire) = Len(all)
       /\ \A i \in 1 .. Len(buffer) : buffer[i] = all[pos + i]
       /\ \A i \in 1 .. Len(wire) : wire[i] = all[pos + Len(buffer) + i]
  BY <1>5 DEF InFlight
<1>15. InFlight(all2, pos)'
  <2>1. pos + Len(buffer) + Len(wire') = Len(all2)
    <3> DEFINE b == Len(buffer)
               w == Len(wire)
               p == Len(part)
    <3>1. b \in Nat /\ w \in Nat /\ p \in Nat /\ pos \in Nat /\ pos + b + w = Len(all)
          /\ Len(wire') = w + p /\ Len(all2) = Len(all) + p
      BY <1>10, <1>11, <1>13, <1>14
    <3> HIDE DEF b, w, p
    <3>2. pos + b + (w + p) = (pos + b + w) + p
      BY <3>1
    <3> QED
      BY <3>1, <3>2 DEF b
  <2>2. \A i \in 1 .. Len(buffer) : buffer[i] = all2[pos + i]
    <3> TAKE i \in 1 .. Len(buffer)
    <3>1. pos + i \in 1 .. Len(all)
      BY <1>13, <1>14
    <3> QED
      BY <1>10, <1>14, <3>1
  <2>3. \A i \in 1 .. Len(wire') : wire'[i] = all2[pos + Len(buffer) + i]
    <3> TAKE i \in 1 .. Len(wire')
    <3>1. CASE i <= Len(wire)
      <4>1. i \in 1 .. Len(wire) /\ pos + Len(buffer) + i \in 1 .. Len(all)
        BY <1>13, <1>14, <3>1
      <4> QED
        BY <1>10, <1>11, <1>14, <4>1
    <3>2. CASE i > Len(wire)
      <4> DEFINE j == i - Len(wire)
      <4>1. i \in 1 .. Len(wire) + Len(part)
        BY <1>11
      <4>2. j \in 1 .. Len(part) /\ Len(wire) + j = i /\ pos + Len(buffer) + i = Len(all) + j
        <5> DEFINE b == Len(buffer)
                   w == Len(wire)
                   p == Len(part)
        <5>1. b \in Nat /\ w \in Nat /\ p \in Nat /\ pos \in Nat /\ pos + b + w = Len(all)
              /\ i \in 1 .. w + p /\ i > w
          BY <1>13, <1>14, <3>2, <4>1
        <5> HIDE DEF b, w, p
        <5>2. i - w \in 1 .. p /\ w + (i - w) = i /\ pos + b + i = (pos + b + w) + (i - w)
          BY <5>1
        <5> QED
          BY <5>1, <5>2 DEF b, w, p
      <4> HIDE DEF j
      <4>3. wire'[Len(wire) + j] = part[j] /\ all2[Len(all) + j] = part[j]
        BY <1>10, <1>11, <4>2
      <4> QED
        BY <4>2, <4>3
    <3> QED
      BY <1>13, <3>1, <3>2
  <2> QED
    BY <1>1, <1>14, <2>1, <2>2, <2>3 DEF InFlight
<1>16. Place(start2, pos)'
  <2> DEFINE r == Len(received)
  <2>1. pc = "length" => r \in 1 .. sent + 1 /\ pos = start2[r]
    <3> SUFFICES ASSUME pc = "length" PROVE r \in 1 .. sent + 1 /\ pos = start2[r]
      OBVIOUS
    <3>1. r \in 1 .. sent /\ pos = start[r] /\ r \in 0 .. sent
      BY <1>2, <1>5 DEF Place
    <3> QED
      BY <1>2, <1>12, <3>1
  <2>2. pc = "body" =>
          /\ r \in 0 .. sent + 1 /\ r < Len(Bodies) /\ (r > 0 => r < sent + 1)
          /\ size = Len(Bodies[r + 1])
          /\ \A i \in 1 .. Len(reply) : reply[i] = Bodies[r + 1][i]
          /\ pos = start2[r] + Header(r) + Len(reply)
    <3> SUFFICES ASSUME pc = "body" PROVE
          /\ r \in 0 .. sent + 1 /\ r < Len(Bodies) /\ (r > 0 => r < sent + 1)
          /\ size = Len(Bodies[r + 1])
          /\ \A i \in 1 .. Len(reply) : reply[i] = Bodies[r + 1][i]
          /\ pos = start2[r] + Header(r) + Len(reply)
      OBVIOUS
    <3>1. /\ r \in 0 .. sent /\ r < Len(Bodies)
          /\ size = Len(Bodies[r + 1])
          /\ \A i \in 1 .. Len(reply) : reply[i] = Bodies[r + 1][i]
          /\ pos = start[r] + Header(r) + Len(reply)
      BY <1>5 DEF Place
    <3>2. start2[r] = start[r] /\ r \in 0 .. sent + 1 /\ r < sent + 1
      BY <1>2, <1>12, <3>1
    <3> QED
      BY <3>1, <3>2
  <2> QED
    BY <1>1, <1>3, <2>1, <2>2 DEF Place
<1>17. InPlace(all2, start2, pos)'
  BY <1>9, <1>15, <1>16 DEF InPlace
<1> QED
  BY <1>17
LEMMA ArriveKeepsPlace ==
  ASSUME TypeOK, StreamInv, Arrive
  PROVE  StreamInv'
<1>1. PICK n \in 1 .. Len(wire) :
         buffer' = buffer \o SubSeq(wire, 1, n) /\ wire' = SubSeq(wire, n + 1, Len(wire))
  BY DEF Arrive
<1>2. UNCHANGED <<pc, size, bytesToRead, reply, received, sent, messages, asked, outgoing>>
  BY DEF Arrive, client
<1>3. Bodies' = Bodies /\ Parts' = Parts
  BY <1>2 DEF Bodies, Parts
<1>4. buffer \in Bytes /\ wire \in Bytes
  BY DEF TypeOK
<1> SUFFICES ASSUME FramingKept', pc' \in {"length", "body"}
             PROVE  \E all, start, pos : InPlace(all, start, pos)'
  BY DEF StreamInv
<1>5. PICK all, start, pos : InPlace(all, start, pos)
  <2>1. FramingKept /\ pc \in {"length", "body"}
    BY <1>2, <1>3 DEF FramingKept
  <2> QED
    BY <2>1 DEF StreamInv
<1>6. Tape(Parts, all, start) /\ InFlight(all, pos) /\ Place(start, pos)
  BY <1>5 DEF InPlace
<1>7. Tape(Parts', all, start) /\ Place(start, pos)'
  BY <1>2, <1>3, <1>6 DEF Place
<1> DEFINE come == SubSeq(wire, 1, n)
           b == Len(buffer)
           w == Len(wire)
<1>8. n \in Nat /\ n >= 1 /\ n <= w /\ w \in Nat /\ b \in Nat
  BY <1>4 DEF Bytes
<1>9. /\ come \in Bytes /\ Len(come) = n
      /\ \A i \in 1 .. n : come[i] = wire[i]
  <2>1. /\ 1 \in 1 .. Len(wire) + 1 /\ n \in 1 - 1 .. Len(wire) /\ n - 1 + 1 = n /\ 1 - 1 = 0
        /\ \A i \in 1 .. n : 0 + i = i
    BY <1>8
  <2>2. /\ come \in Bytes /\ Len(come) = n - 1 + 1
        /\ \A i \in 1 .. n - 1 + 1 : come[i] = wire[1 - 1 + i]
    BY <1>4, <2>1, CutBytes
  <2> QED
    BY <2>1, <2>2
<1>10. /\ wire' \in Bytes /\ Len(wire') = w - n
       /\ \A i \in 1 .. w - n : wire'[i] = wire[n + i]
  <2>1. /\ n + 1 \in 1 .. Len(wire) + 1 /\ Len(wire) \in (n + 1) - 1 .. Len(wire)
        /\ Len(wire) - (n + 1) + 1 = w - n /\ (n + 1) - 1 = n
    BY <1>8
  <2>2. /\ wire' \in Bytes /\ Len(wire') = Len(wire) - (n + 1) + 1
        /\ \A i \in 1 .. Len(wire) - (n + 1) + 1 : wire'[i] = wire[(n + 1) - 1 + i]
    BY <1>1, <1>4, <2>1, CutBytes
  <2> QED
    BY <2>1, <2>2
<1> HIDE DEF come
<1>11. /\ buffer' \in Bytes /\ Len(buffer') = b + n
       /\ \A i \in 1 .. b : buffer'[i] = buffer[i]
       /\ \A i \in 1 .. n : buffer'[b + i] = wire[i]
  <2>1. /\ buffer \o come \in Bytes /\ Len(buffer \o come) = Len(buffer) + Len(come)
        /\ \A i \in 1 .. Len(buffer) : (buffer \o come)[i] = buffer[i]
        /\ \A i \in 1 .. Len(come) : (buffer \o come)[Len(buffer) + i] = come[i]
    BY <1>4, <1>9, Joined
  <2> QED
    BY <1>1, <1>9, <2>1 DEF come
<1>12. /\ pos \in Nat /\ pos + b + w = Len(all)
       /\ \A i \in 1 .. b : buffer[i] = all[pos + i]
       /\ \A i \in 1 .. w : wire[i] = all[pos + b + i]
  BY <1>6 DEF InFlight
<1> HIDE DEF b, w
<1>13. pos + (b + n) + (w - n) = Len(all)
  <2>1. pos + (b + n) + (w - n) = pos + b + w
    BY <1>8, <1>12
  <2> QED
    BY <1>12, <2>1
<1>14. \A i \in 1 .. b + n : buffer'[i] = all[pos + i]
  <2> TAKE i \in 1 .. b + n
  <2>1. CASE i <= b
    <3>1. i \in 1 .. b
      BY <1>8, <2>1
    <3> QED
      BY <1>11, <1>12, <3>1
  <2>2. CASE i > b
    <3>1. i - b \in 1 .. n /\ i - b \in 1 .. w /\ b + (i - b) = i /\ pos + b + (i - b) = pos + i
      BY <1>8, <1>12, <2>2
    <3>2. buffer'[b + (i - b)] = wire[i - b] /\ wire[i - b] = all[pos + b + (i - b)]
      BY <1>11, <1>12, <3>1
    <3> QED
      BY <3>1, <3>2
  <2> QED
    BY <1>8, <2>1, <2>2
<1>15. \A i \in 1 .. w - n : wire'[i] = all[pos + (b + n) + i]
  <2> TAKE i \in 1 .. w - n
  <2>1. n + i \in 1 .. w /\ pos + b + (n + i) = pos + (b + n) + i
    BY <1>8, <1>12
  <2> QED
    BY <1>10, <1>12, <2>1
<1>16. InFlight(all, pos)'
  BY <1>10, <1>11, <1>12, <1>13, <1>14, <1>15 DEF InFlight
<1>17. InPlace(all, start, pos)'
  BY <1>7, <1>16 DEF InPlace
<1> QED
  BY <1>17

LEMMA ReadLengthKeepsPlace ==
  ASSUME TypeOK, StreamInv, ReadLength
  PROVE  StreamInv' /\ (FramingKept => pc' # "terminated")
<1> DEFINE chunk == Chunk(LengthSize)
           length == BytesToInt(chunk)
<1>1. /\ pc = "length" /\ buffer # <<>> /\ buffer' = Rest(LengthSize)
      /\ UNCHANGED <<reply, received, sent, wire, messages, asked, outgoing>>
  BY DEF ReadLength, client
<1>2. IF Len(chunk) # LengthSize THEN pc' = "failed"
      ELSE IF length >= IntLimit THEN pc' = "terminated"
      ELSE size' = length /\ pc' \in {"failed", "body"}
  BY DEF ReadLength
<1> HIDE DEF chunk
<1>3. Bodies' = Bodies /\ Parts' = Parts
  BY <1>1 DEF Bodies, Parts
<1>4. buffer \in Bytes /\ wire \in Bytes /\ LengthSize \in Nat /\ IntLimit \in Nat
      /\ messages \in Conversations /\ sent \in 0 .. Len(Bodies)
  BY WireAssumption DEF TypeOK
<1>5. FramingKept' <=> FramingKept
  BY <1>1, <1>3 DEF FramingKept
<1> SUFFICES ASSUME FramingKept, Len(chunk) = LengthSize
             PROVE  /\ pc' # "terminated"
                    /\ pc' \in {"length", "body"} => \E all, start, pos : InPlace(all, start, pos)'
  BY <1>2, <1>5 DEF StreamInv
<1>6. PICK all, start, pos : InPlace(all, start, pos)
  BY <1>1 DEF StreamInv
<1> DEFINE r == Len(received)
<1>7. /\ r \in Nat /\ r > 0 /\ r < sent /\ r < Len(Bodies)
      /\ length = Len(Bodies[r + 1]) /\ Len(Bodies[r + 1]) < IntLimit
  BY <1>1, <1>6, LengthIsRead DEF chunk
<1>8. Len(Bodies[r + 1]) \in Nat
  BY <1>4, <1>7, NextBody
<1> HIDE DEF length
<1>9. pc' # "terminated" /\ pc' # "length" /\ (pc' = "body" => size' = length)
  BY <1>2, <1>4, <1>7, <1>8
<1> SUFFICES ASSUME pc' = "body"
             PROVE  \E p : InPlace(all, start, p)'
  BY <1>9
<1>10. Tape(Parts', all, start) /\ InFlight(all, pos) /\ pos = start[r] /\ pos \in Nat
  BY <1>1, <1>3, <1>6 DEF InPlace, Place, InFlight
<1>11. InFlight(all, pos + LengthSize)'
  <2>1. LengthSize = Len(Chunk(LengthSize))
    BY DEF chunk
  <2> QED
    BY <1>1, <1>4, <1>10, <2>1, RecvAdvances
<1>12. Place(start, pos + LengthSize)'
  <2>1. reply' = <<>> /\ Len(reply') = 0
    <3>1. reply = <<>>
      BY <1>1 DEF TypeOK
    <3> QED
      BY <1>1, <3>1
  <2>2. size' = Len(Bodies[r + 1]) /\ r \in 0 .. sent
    BY <1>4, <1>7, <1>9, BodiesTyped
  <2>3. pos + LengthSize = start[r] + Header(r) + 0
    <3>1. Header(r) = LengthSize
      BY <1>7 DEF Header
    <3> QED
      BY <1>4, <1>10, <3>1
  <2> QED
    BY <1>1, <1>3, <1>7, <2>1, <2>2, <2>3 DEF Place
<1>13. InPlace(all, start, pos + LengthSize)'
  BY <1>10, <1>11, <1>12 DEF InPlace
<1> QED
  BY <1>13

LEMMA ReadMoreKeepsPlace ==
  ASSUME TypeOK, StreamInv, ReadMore
  PROVE  StreamInv'
<1> DEFINE chunk == Chunk(size)
           data == reply \o chunk
           r == Len(received)
           c == Len(chunk)
<1>1. /\ pc = "body" /\ size > 0 /\ buffer # <<>> /\ Len(chunk) < bytesToRead
      /\ reply' = data /\ buffer' = Rest(size)
      /\ UNCHANGED <<pc, size, received, sent, wire, messages, asked, outgoing>>
  BY DEF ReadMore, client
<1>2. Bodies' = Bodies /\ Parts' = Parts
  BY <1>1 DEF Bodies, Parts
<1>3. buffer \in Bytes /\ wire \in Bytes /\ size \in Nat /\ bytesToRead \in Nat
      /\ Len(reply) + bytesToRead = size /\ Len(reply) \in Nat
  <2>1. reply \in Bytes
    BY DEF TypeOK
  <2>2. Len(reply) \in Nat
    BY <2>1 DEF Bytes
  <2> QED
    BY <1>1, <2>2 DEF TypeOK
<1>4. c \in Nat
  BY <1>3, Taken
<1> SUFFICES ASSUME FramingKept', pc' \in {"length", "body"}
             PROVE  \E all, start, pos : InPlace(all, start, pos)'
  BY DEF StreamInv
<1>5. PICK all, start, pos : InPlace(all, start, pos)
  <2>1. FramingKept
    BY <1>1, <1>2 DEF FramingKept
  <2> QED
    BY <1>1, <2>1 DEF StreamInv
<1>6. /\ r \in Nat /\ r < sent /\ r < Len(Bodies) /\ size = Len(Bodies[r + 1])
      /\ Len(data) = Len(reply) + c
      /\ \A i \in 1 .. Len(data) : i <= size => data[i] = Bodies[r + 1][i]
  BY <1>1, <1>5, WhatIsRead
<1>7. Tape(Parts', all, start) /\ InFlight(all, pos) /\ Place(start, pos) /\ pos \in Nat
  BY <1>2, <1>5 DEF InPlace, InFlight
<1>8. PICK d : d = c
  OBVIOUS
<1>9. InFlight(all, pos + d)'
  BY <1>1, <1>3, <1>7, <1>8, RecvAdvances
<1>10. Place(start, pos + d)'
  <2>1. \A i \in 1 .. Len(data) : data[i] = Bodies[r + 1][i]
    <3>1. \A i \in 1 .. Len(data) : i <= size
      BY <1>1, <1>3, <1>4, <1>6
    <3> QED
      BY <1>6, <3>1
  <2>2. pos = start[r] + Header(r) + Len(reply)
    BY <1>1, <1>7 DEF Place
  <2>3. pos + d = start[r] + Header(r) + Len(data)
    <3> DEFINE h == Header(r)
               place == start[r]
               n == Len(reply)
    <3>1. place \in Nat
      <4>1. messages \in Conversations /\ sent \in 0 .. Len(Bodies) /\ sent \in Nat
        BY BodiesTyped DEF TypeOK
      <4>2. Len(Parts) = sent
        BY <4>1, PartsTyped
      <4>3. start \in [0 .. Len(Parts) -> 0 .. Len(all)]
        <5>1. Tape(Parts, all, start)
          BY <1>5 DEF InPlace
        <5> QED
          BY <5>1 DEF Tape
      <4>5. r \in 0 .. sent
        BY <1>2, <1>6, <4>1
      <4>4. start[r] \in 0 .. Len(all)
        BY <4>2, <4>3, <4>5
      <4> QED
        BY <4>4
    <3>2. h \in Nat
      BY WireAssumption DEF Header
    <3>3. n \in Nat /\ d \in Nat /\ Len(data) = n + d /\ pos = place + h + n
      BY <1>3, <1>4, <1>6, <1>8, <2>2
    <3> HIDE DEF h, place, n, data
    <3>4. pos + d = place + h + Len(data)
      BY <3>1, <3>2, <3>3
    <3> QED
      BY <3>4 DEF h, place
  <2>4. r \in 0 .. sent /\ (r > 0 => r < sent)
    BY <1>1, <1>7 DEF Place
  <2> QED
    BY <1>1, <1>2, <1>6, <2>1, <2>3, <2>4 DEF Place
<1>11. InPlace(all, start, pos + d)'
  BY <1>7, <1>9, <1>10 DEF InPlace
<1> QED
  BY <1>11
(* The last recv brings the rest of the message, and may bring some more.    *)
LEMMA LastRecv ==
  ASSUME TypeOK, StreamInv, ReadLast, FramingKept
  PROVE  LET r == Len(received)
             data == reply \o Chunk(size)
         IN  /\ r \in Nat /\ r < sent /\ r < Len(Bodies) /\ size = Len(Bodies[r + 1])
             /\ received' = Append(received, data) /\ data \in Bytes
             /\ size \in Nat /\ size > 0 /\ Len(data) \in Nat
             /\ size <= Len(data) /\ Len(data) < 2 * size
             /\ Len(data) > size => reply # <<>> /\ Len(buffer) > bytesToRead
             /\ \A i \in 1 .. size : data[i] = Bodies[r + 1][i]
             /\ Len(data) = size => data = Bodies[r + 1]
<1> DEFINE chunk == Chunk(size)
           data == reply \o chunk
           r == Len(received)
           c == Len(chunk)
           n == Len(reply)
<1>1. /\ pc = "body" /\ size > 0 /\ buffer # <<>> /\ c >= bytesToRead
      /\ received' = Append(received, data)
  BY DEF ReadLast
<1>2. PICK all, start, pos : InPlace(all, start, pos)
  BY <1>1 DEF StreamInv
<1>3. /\ r \in Nat /\ r < sent /\ r < Len(Bodies) /\ size = Len(Bodies[r + 1])
      /\ Len(data) = n + c
      /\ \A i \in 1 .. Len(data) : i <= size => data[i] = Bodies[r + 1][i]
  BY <1>1, <1>2, WhatIsRead
<1>4. /\ buffer \in Bytes /\ reply \in Bytes /\ size \in Nat /\ bytesToRead \in Nat /\ bytesToRead > 0
      /\ n + bytesToRead = size /\ n \in Nat /\ messages \in Conversations
  <2>1. reply \in Bytes /\ size \in Nat /\ bytesToRead \in 0 .. size
    BY DEF TypeOK
  <2>2. n \in Nat
    BY <2>1 DEF Bytes
  <2> QED
    BY <1>1, <2>1, <2>2 DEF TypeOK
<1>5. chunk \in Bytes /\ c \in Nat /\ c <= size /\ c <= Len(buffer) /\ Len(buffer) \in Nat
  <2>1. Len(buffer) \in Nat
    BY <1>4 DEF Bytes
  <2> QED
    BY <1>4, <2>1, Taken
<1>6. data \in Bytes
  BY <1>4, <1>5, Joined
<1>7. Bodies[r + 1] \in Bytes
  BY <1>3, <1>4, NextBody
<1>8. reply = <<>> => n = 0
  OBVIOUS
<1> HIDE DEF data, c, n
<1>9. Len(data) \in Nat /\ size <= Len(data) /\ Len(data) < 2 * size
  BY <1>1, <1>3, <1>4, <1>5
<1>10. Len(data) > size => reply # <<>> /\ Len(buffer) > bytesToRead
  BY <1>1, <1>3, <1>4, <1>5, <1>8
<1>11. \A i \in 1 .. size : data[i] = Bodies[r + 1][i]
  BY <1>3, <1>4, <1>9
<1>12. Len(data) = size => data = Bodies[r + 1]
  BY <1>3, <1>6, <1>7, <1>11, BytesAreInts, SameBytes
<1> QED
  BY <1>1, <1>3, <1>4, <1>6, <1>9, <1>10, <1>11, <1>12 DEF data

LEMMA FramingGoesOn ==
  ASSUME TypeOK, TypeOK', ReadLast
  PROVE  FramingKept' <=> /\ FramingKept /\ Len(received) < Len(Bodies)
                          /\ reply \o Chunk(size) = Bodies[Len(received) + 1]
<1> DEFINE data == reply \o Chunk(size)
           r == Len(received)
<1>1. received' = Append(received, data) /\ messages' = messages /\ Bodies' = Bodies
  BY DEF ReadLast, Bodies
<1>2. received \in Seq(Bytes) /\ messages \in Conversations /\ received' \in Seq(Bytes)
  BY DEF TypeOK
<1>3. Len(Bodies) \in Nat /\ r \in Nat
  BY <1>2, BodiesTyped
<1> HIDE DEF data
<1>4. /\ Len(received') = r + 1 /\ received'[r + 1] = data
      /\ \A k \in 1 .. r : received'[k] = received[k]
  <2> HIDE DEF Bytes
  <2> QED
    BY <1>1, <1>2
<1>5. FramingKept <=> r <= Len(Bodies) /\ \A k \in 1 .. r : received[k] = Bodies[k]
  BY <1>2, Framing
<1>6. FramingKept' <=> /\ r + 1 <= Len(Bodies)
                       /\ \A k \in 1 .. r + 1 : received'[k] = Bodies[k]
  <2> DEFINE after == received'
  <2>1. after \in Seq(Bytes) /\ Len(after) = r + 1
    BY <1>2, <1>4
  <2>2. IsPrefix(after, Bodies) <=> /\ Len(after) <= Len(Bodies)
                                    /\ \A k \in 1 .. Len(after) : after[k] = Bodies[k]
    <3> DEFINE n == Len(after)
               bodies == Bodies
    <3>1. bodies \in Seq(Bytes) /\ n \in Nat
      BY <1>2, <2>1, <1>3, BodiesTyped
    <3> HIDE DEF Bytes, bodies, after
    <3>2. SubSeq(after, 1, n) = after
      BY <2>1
    <3>3. ASSUME n <= Len(bodies)
          PROVE  after = SubSeq(bodies, 1, n) <=> \A k \in 1 .. n : after[k] = bodies[k]
      <4>1. SubSeq(bodies, 1, n) = [k \in 1 .. n |-> bodies[k]]
        BY <3>1, <3>3
      <4>2. after = [k \in 1 .. n |-> after[k]]
        BY <2>1
      <4> QED
        BY <4>1, <4>2
    <3>4. IsPrefix(after, bodies) <=> n <= Len(bodies) /\ after = SubSeq(bodies, 1, n)
      BY <3>2 DEF IsPrefix
    <3> QED
      BY <3>3, <3>4 DEF bodies
  <2>3. FramingKept' <=> IsPrefix(after, Bodies)
    BY <1>1 DEF FramingKept
  <2> HIDE DEF after
  <2> QED
    BY <2>1, <2>2, <2>3 DEF after
<1>7. ASSUME FramingKept'
      PROVE  FramingKept /\ r < Len(Bodies) /\ data = Bodies[r + 1]
  <2>1. r + 1 \in 1 .. r + 1 /\ \A k \in 1 .. r : k \in 1 .. r + 1
    BY <1>3
  <2> QED
    BY <1>3, <1>4, <1>5, <1>6, <1>7, <2>1
<1>8. ASSUME FramingKept, r < Len(Bodies), data = Bodies[r + 1]
      PROVE  FramingKept'
  <2>1. \A k \in 1 .. r + 1 : k = r + 1 \/ k \in 1 .. r
    BY <1>3
  <2> QED
    BY <1>3, <1>4, <1>5, <1>6, <1>8, <2>1
<1> QED
  BY <1>7, <1>8 DEF data

LEMMA ReadLastKeepsPlace ==
  ASSUME TypeOK, TypeOK', StreamInv, ReadLast
  PROVE  StreamInv'
<1> DEFINE chunk == Chunk(size)
           data == reply \o chunk
           r == Len(received)
           c == Len(chunk)
<1>1. /\ pc = "body" /\ pc' \in After(data) /\ received' = Append(received, data)
      /\ reply' = <<>> /\ buffer' = Rest(size) /\ buffer # <<>> /\ size > 0
      /\ UNCHANGED <<size, sent, wire, messages, asked, outgoing>>
  BY DEF ReadLast, client
<1>2. Bodies' = Bodies /\ Parts' = Parts
  BY <1>1 DEF Bodies, Parts
<1> SUFFICES ASSUME FramingKept', pc' \in {"length", "body"}
             PROVE  \E all, start, pos : InPlace(all, start, pos)'
  BY DEF StreamInv
<1>3. FramingKept /\ r < Len(Bodies) /\ data = Bodies[r + 1]
  BY FramingGoesOn
<1>4. PICK all, start, pos : InPlace(all, start, pos)
  BY <1>1, <1>3 DEF StreamInv
<1>5. /\ r \in Nat /\ r < sent /\ size = Len(Bodies[r + 1])
      /\ Len(data) = Len(reply) + c
  BY <1>1, <1>4, WhatIsRead
<1>6. /\ buffer \in Bytes /\ wire \in Bytes /\ size \in Nat /\ reply \in Bytes /\ Len(reply) \in Nat
      /\ messages \in Conversations /\ sent \in 0 .. Len(Bodies) /\ sent \in Nat
      /\ received \in Seq(Bytes)
  <2>1. reply \in Bytes /\ messages \in Conversations
    BY DEF TypeOK
  <2>2. Len(reply) \in Nat
    BY <2>1 DEF Bytes
  <2> QED
    BY <2>1, <2>2, BodiesTyped DEF TypeOK
<1>7. c \in Nat
  BY <1>6, Taken
<1>8. pc' = "length"
  <2>1. pc' \in {"length", "failed", "terminated"}
    BY <1>1, AfterIsPlace
  <2> QED
    BY <2>1
<1>9. Tape(Parts, all, start) /\ InFlight(all, pos) /\ Place(start, pos) /\ pos \in Nat
  BY <1>4 DEF InPlace, InFlight
<1>10. PICK d : d = c
  OBVIOUS
<1>11. InFlight(all, pos + d)'
  BY <1>1, <1>6, <1>9, <1>10, RecvAdvances
<1>12. pos = start[r] + Header(r) + Len(reply)
  BY <1>1, <1>9 DEF Place
<1>13. pos + d = start[r + 1]
  <2> DEFINE body == Bodies[r + 1]
             h == Header(r)
             n == Len(reply)
             place == start[r]
  <2>1. /\ Len(Parts) = sent
        /\ \A k \in 1 .. sent : Parts[k] = IF k = 1 THEN Bodies[1] ELSE Frame(Bodies[k])
    BY <1>6, PartsTyped
  <2>2. r + 1 \in 1 .. sent /\ r + 1 - 1 = r
    BY <1>5, <1>6
  <2>3. start[r + 1] = place + Len(Parts[r + 1]) /\ place \in Nat
    <3>1. start[r + 1 - 1] \in Nat /\ start[r + 1] = start[r + 1 - 1] + Len(Parts[r + 1])
      BY <1>9, <2>1, <2>2, TapeHasParts
    <3> QED
      BY <2>2, <3>1
  <2>4. Len(Parts[r + 1]) = h + Len(body)
    <3>1. CASE r = 0
      <4>1. Parts[r + 1] = body /\ h = 0
        BY <2>1, <2>2, <3>1 DEF Header
      <4> QED
        BY <1>5, <1>6, <4>1
    <3>2. CASE r # 0
      <4>1. Parts[r + 1] = Frame(body) /\ h = LengthSize
        BY <1>5, <2>1, <2>2, <3>2 DEF Header
      <4>2. body \in Bytes /\ Len(body) < IntLimit
        BY <1>3, <1>5, <1>6, <3>2, NextBody
      <4> QED
        BY <4>1, <4>2, Framed
    <3> QED
      BY <3>1, <3>2
  <2>5. Len(body) = n + d
    BY <1>3, <1>5, <1>10
  <2>6. h \in Nat /\ n \in Nat /\ d \in Nat
    BY <1>6, <1>7, <1>10, WireAssumption DEF Header
  <2>7. pos = place + h + n /\ start[r + 1] = place + (h + (n + d))
    BY <1>12, <2>3, <2>4, <2>5
  <2> HIDE DEF h, n, place
  <2> QED
    BY <2>3, <2>6, <2>7
<1>14. Place(start, pos + d)'
  <2>1. Len(received') = r + 1
    <3> HIDE DEF Bytes, data
    <3> QED
      BY <1>1, <1>6
  <2>2. r + 1 \in 1 .. sent
    BY <1>5, <1>6
  <2> QED
    BY <1>1, <1>8, <1>13, <2>1, <2>2 DEF Place
<1>15. InPlace(all, start, pos + d)'
  BY <1>2, <1>9, <1>11, <1>14 DEF InPlace
<1> QED
  BY <1>15

LEMMA NextPlace == TypeOK /\ TypeOK' /\ StreamInv /\ [Next]_vars => StreamInv'
<1> SUFFICES ASSUME TypeOK, TypeOK', StreamInv, [Next]_vars PROVE StreamInv'
  OBVIOUS
<1>1. ASSUME UNCHANGED <<pc, size, reply, received, sent, wire, buffer, messages>>
      PROVE  StreamInv'
  <2>1. Bodies' = Bodies /\ Parts' = Parts
    BY <1>1 DEF Bodies, Parts
  <2>2. \A all, start, pos : InPlace(all, start, pos) => InPlace(all, start, pos)'
    BY <1>1, <2>1 DEF InPlace, InFlight, Place
  <2>3. FramingKept' <=> FramingKept
    BY <1>1, <2>1 DEF FramingKept
  <2> QED
    BY <1>1, <2>2, <2>3 DEF StreamInv
<1>2. CASE PeerSends
  BY <1>2, SendKeepsPlace
<1>3. CASE Arrive
  BY <1>3, ArriveKeepsPlace
<1>4. CASE TimesOut
  BY <1>4 DEF TimesOut, StreamInv
<1>5. CASE ReadLength
  BY <1>5, ReadLengthKeepsPlace
<1>6. CASE ReadNothing
  BY <1>6 DEF ReadNothing, StreamInv
<1>7. CASE ReadMore
  BY <1>7, ReadMoreKeepsPlace
<1>8. CASE ReadLast
  BY <1>8, ReadLastKeepsPlace
<1>9. CASE ClientSends
  BY <1>1, <1>9 DEF ClientSends
<1>10. CASE UNCHANGED vars
  BY <1>1, <1>10 DEF vars
<1> QED
  BY <1>2, <1>3, <1>4, <1>5, <1>6, <1>7, <1>8, <1>9, <1>10 DEF Next, ReceiveData, Stopped

LEMMA InPlaceCorrect == Spec => [](TypeOK /\ StreamInv)
<1>1. Init => TypeOK /\ StreamInv
  BY InitTypes, InitPlace
<1>2. TypeOK /\ StreamInv /\ [Next]_vars => (TypeOK /\ StreamInv)'
  BY NextTypes, NextPlace
<1> QED
  BY <1>1, <1>2, PTL DEF Spec
-----------------------------------------------------------------------------
LEMMA BeginningsSame ==
  ASSUME NEW s \in Seq(Bytes), NEW t \in Seq(Bytes), NEW n \in 0 .. Len(s)
  PROVE  SubSeq(s, 1, n) = SubSeq(t, 1, n) <=> \A i \in 1 .. n : s[i] = t[i]
<1> HIDE DEF Bytes
<1>1. SubSeq(s, 1, n) = [i \in 1 .. n |-> s[i]]
  OBVIOUS
<1>2. SubSeq(t, 1, n) = [i \in 1 .. n |-> t[i]]
  OBVIOUS
<1> QED
  BY <1>1, <1>2

LEMMA OverReadsStep ==
  ASSUME TypeOK, TypeOK', StreamInv, OverReadsOnly, [Next]_vars
  PROVE  OverReadsOnly'
<1>0. received \in Seq(Bytes) /\ messages \in Conversations /\ received' \in Seq(Bytes)
  BY DEF TypeOK
<1>1. Bodies \in Seq(Bytes) /\ Len(Bodies) \in Nat /\ Len(received) \in Nat
  BY <1>0, BodiesTyped
<1>2. ASSUME received' = received, messages' = messages
      PROVE  OverReadsOnly'
  BY <1>2 DEF OverReadsOnly, Bodies
<1>3. CASE ReadLast
  <2> DEFINE data == reply \o Chunk(size)
             r == Len(received)
             after == received'
             Good(k, s) == /\ k <= Len(Bodies) /\ IsPrefix(Bodies[k], s)
                           /\ Len(s) < 2 * Len(Bodies[k])
             Same(k, s) == \A i \in 1 .. k - 1 : s[i] = Bodies[i]
  <2>1. received' = Append(received, data) /\ Bodies' = Bodies
    BY <1>3 DEF ReadLast, Bodies
  <2>2. data \in Bytes
    <3>1. reply \in Bytes /\ buffer \in Bytes /\ size \in Nat
      BY DEF TypeOK
    <3> QED
      BY <3>1, Taken, Joined
  <2>3. /\ after \in Seq(Bytes) /\ Len(after) = r + 1 /\ after[r + 1] = data
        /\ \A k \in 1 .. r : after[k] = received[k]
    BY <1>0, <2>1, <2>2, Longer
  <2> HIDE DEF after
  <2>4. \A k \in 1 .. r : Same(k, received) => Good(k, received[k])
    <3> SUFFICES ASSUME NEW k \in 1 .. r, Same(k, received)
                 PROVE  Good(k, received[k])
      OBVIOUS
    <3>1. k - 1 \in 0 .. Len(received) /\ k \in DOMAIN received
      BY <1>0, <1>1
    <3>2. SubSeq(received, 1, k - 1) = SubSeq(Bodies, 1, k - 1)
      BY <1>0, <1>1, <3>1, BeginningsSame
    <3> QED
      BY <3>1, <3>2 DEF OverReadsOnly
  <2>5. ASSUME NEW k \in 1 .. r + 1, SubSeq(after, 1, k - 1) = SubSeq(Bodies, 1, k - 1)
        PROVE  Good(k, after[k])
    <3>1. k - 1 \in 0 .. Len(after)
      BY <1>1, <2>3
    <3>2. Same(k, after)
      BY <1>1, <2>3, <2>5, <3>1, BeginningsSame
    <3>3. Same(k, received)
      <4> TAKE i \in 1 .. k - 1
      <4>1. i \in 1 .. r
        BY <1>1
      <4> QED
        BY <2>3, <3>2, <4>1
    <3>4. CASE k <= r
      <4>1. k \in 1 .. r
        BY <1>1, <3>4
      <4> QED
        BY <2>3, <2>4, <3>3, <4>1
    <3>5. CASE k > r
      <4>1. k = r + 1 /\ k - 1 = r
        BY <1>1, <3>5
      <4>2. r <= Len(Bodies)
        <5>1. CASE r = 0
          BY <1>1, <5>1
        <5>2. CASE r # 0
          <6>1. r \in 1 .. r /\ r - 1 \in Nat
            BY <1>1, <5>2
          <6>2. Same(r, received)
            BY <1>1, <3>3, <4>1
          <6> QED
            BY <2>4, <6>1, <6>2
        <5> QED
          BY <5>1, <5>2
      <4>3. FramingKept
        BY <1>0, <3>3, <4>1, <4>2, Framing
      <4>4. /\ r < Len(Bodies) /\ size = Len(Bodies[r + 1]) /\ size \in Nat
            /\ size <= Len(data) /\ Len(data) < 2 * size /\ Len(data) \in Nat
            /\ \A i \in 1 .. size : data[i] = Bodies[r + 1][i]
        BY <1>3, <4>3, LastRecv
      <4>5. Bodies[r + 1] \in Bytes
        BY <1>0, <1>1, <4>4, NextBody
      <4> DEFINE body == Bodies[r + 1]
      <4>6. IsPrefix(body, data)
        <5> HIDE DEF data, body
        <5>1. body \in Seq(Int) /\ data \in Seq(Int) /\ Len(body) = size
          BY <2>2, <4>4, <4>5, BytesAreInts DEF body
        <5>2. SubSeq(body, 1, size) = SubSeq(data, 1, size)
          <6>1. SubSeq(body, 1, size) = [i \in 1 .. size |-> body[i]]
            BY <4>4, <5>1
          <6>2. SubSeq(data, 1, size) = [i \in 1 .. size |-> data[i]]
            BY <4>4, <5>1
          <6> QED
            BY <4>4, <6>1, <6>2 DEF body
        <5> QED
          BY <4>4, <5>1, <5>2 DEF IsPrefix
      <4>7. Good(r + 1, data)
        <5>1. r + 1 <= Len(Bodies)
          BY <1>1, <4>4
        <5> QED
          BY <4>4, <4>6, <5>1
      <4> HIDE DEF Good, data
      <4> QED
        BY <2>3, <4>1, <4>7
    <3> QED
      BY <1>1, <3>4, <3>5
  <2>6. DOMAIN after = 1 .. r + 1
    BY <2>3
  <2> QED
    BY <2>1, <2>5, <2>6 DEF OverReadsOnly, after
<1>4. CASE PeerSends \/ Arrive \/ ClientSends \/ TimesOut \/ ReadLength \/ ReadNothing \/ ReadMore
  <2>1. received' = received /\ messages' = messages
    BY <1>4 DEF PeerSends, Arrive, ClientSends, TimesOut, ReadLength, ReadNothing, ReadMore
  <2> QED
    BY <1>2, <2>1
<1>5. CASE UNCHANGED vars
  BY <1>2, <1>5 DEF vars
<1> QED
  BY <1>3, <1>4, <1>5 DEF Next, ReceiveData, Stopped

(* The first time receiveData returns something else than the message, it is the
   message with bytes of the next ones behind it, fewer than it has itself:
   before that no byte is lost, repeated or out of order, however the stream is
   cut.                                                                     *)
THEOREM OverReadsCorrect == Spec => []OverReadsOnly
<1>1. Init => OverReadsOnly
  BY DEF Init, OverReadsOnly
<1>2. TypeOK /\ TypeOK' /\ StreamInv /\ OverReadsOnly /\ [Next]_vars => OverReadsOnly'
  BY OverReadsStep
<1> QED
  BY <1>1, <1>2, InPlaceCorrect, PTL DEF Spec

(* A message is read wrongly only if it came in parts and the recv for the last
   one found bytes of the next message behind it.                           *)
THEOREM MisreadsCorrect == Spec => MisreadsOnlyGluedParts
<1>1. ASSUME TypeOK, TypeOK', StreamInv, [Next]_vars
      PROVE  [FramingKept /\ ~FramingKept' => reply # <<>> /\ Len(buffer) > bytesToRead]_vars
  <2> SUFFICES ASSUME FramingKept, ~FramingKept'
               PROVE  reply # <<>> /\ Len(buffer) > bytesToRead
    OBVIOUS
  <2>1. ReadLast
    <3>1. ~(received' = received /\ messages' = messages)
      BY DEF FramingKept, Bodies
    <3> QED
      BY <1>1, <3>1 DEF Next, ReceiveData, Stopped, vars, PeerSends, Arrive, ClientSends,
         TimesOut, ReadLength, ReadNothing, ReadMore
  <2> DEFINE data == reply \o Chunk(size)
             r == Len(received)
  <2>2. /\ r < Len(Bodies) /\ size <= Len(data) /\ size \in Nat /\ Len(data) \in Nat
        /\ Len(data) > size => reply # <<>> /\ Len(buffer) > bytesToRead
        /\ Len(data) = size => data = Bodies[r + 1]
    BY <1>1, <2>1, LastRecv
  <2>3. data # Bodies[r + 1]
    BY <1>1, <2>1, <2>2, FramingGoesOn
  <2> HIDE DEF data
  <2> QED
    BY <2>2, <2>3
<1>2. [](TypeOK /\ StreamInv) /\ [][Next]_vars => MisreadsOnlyGluedParts
  BY <1>1, PTL DEF MisreadsOnlyGluedParts
<1> QED
  BY <1>2, InPlaceCorrect, PTL DEF Spec
-----------------------------------------------------------------------------
(* What a whole message means.                                              *)

LEMMA CutIs ==
  ASSUME NEW s \in Bytes, NEW t \in Bytes, NEW m \in 1 .. Len(s) + 1, NEW n \in m - 1 .. Len(s),
         Len(t) = n - m + 1, \A i \in 1 .. n - m + 1 : s[m - 1 + i] = t[i]
  PROVE  SubSeq(s, m, n) = t
<1> DEFINE part == SubSeq(s, m, n)
<1>1. /\ part \in Bytes /\ Len(part) = n - m + 1
      /\ \A i \in 1 .. n - m + 1 : part[i] = s[m - 1 + i]
  BY CutBytes
<1> HIDE DEF part
<1>2. part \in Seq(Int) /\ t \in Seq(Int)
  BY <1>1, BytesAreInts
<1>3. Len(part) = Len(t) /\ \A i \in 1 .. Len(part) : part[i] = t[i]
  BY <1>1
<1>4. part = t
  BY <1>2, <1>3, SameBytes
<1> QED
  BY <1>4 DEF part

\* The two fields of a block and the bytes behind them.
IsBlock(payload, a, b, d) ==
    /\ payload \in Bytes /\ Len(payload) \in Nat /\ 2 * LengthSize <= Len(payload)
    /\ SubSeq(payload, 1, LengthSize) = a
    /\ SubSeq(payload, LengthSize + 1, 2 * LengthSize) = b
    /\ SubSeq(payload, 2 * LengthSize + 1, Len(payload)) = d

LEMMA BlockCuts ==
  ASSUME NEW a \in Bytes, NEW b \in Bytes, NEW d \in Bytes, Len(a) = LengthSize, Len(b) = LengthSize
  PROVE  IsBlock((a \o b) \o d, a, b, d)
<1> DEFINE L == LengthSize
           ab == a \o b
<1>1. L \in Nat /\ L > 0 /\ Len(d) \in Nat /\ Len(a) = L /\ Len(b) = L
  BY WireAssumption DEF Bytes
<1> HIDE DEF L
<1>2. /\ ab \in Bytes /\ Len(ab) = L + L
      /\ \A i \in 1 .. L : ab[i] = a[i]
      /\ \A i \in 1 .. L : ab[L + i] = b[i]
  <2>1. /\ ab \in Bytes /\ Len(ab) = Len(a) + Len(b)
        /\ \A i \in 1 .. Len(a) : ab[i] = a[i]
        /\ \A i \in 1 .. Len(b) : ab[Len(a) + i] = b[i]
    BY Joined
  <2> HIDE DEF ab
  <2> QED
    BY <1>1, <2>1
<1> HIDE DEF ab
<1>0. PICK payload : payload = ab \o d
  OBVIOUS
<1>3. /\ payload \in Bytes /\ Len(payload) = Len(ab) + Len(d)
      /\ \A i \in 1 .. Len(ab) : payload[i] = ab[i]
      /\ \A i \in 1 .. Len(d) : payload[Len(ab) + i] = d[i]
  <2>1. /\ ab \o d \in Bytes /\ Len(ab \o d) = Len(ab) + Len(d)
        /\ \A i \in 1 .. Len(ab) : (ab \o d)[i] = ab[i]
        /\ \A i \in 1 .. Len(d) : (ab \o d)[Len(ab) + i] = d[i]
    BY <1>2, Joined
  <2> QED
    BY <1>0, <2>1
<1>4. Len(payload) = 2 * L + Len(d)
  BY <1>1, <1>2, <1>3
<1>5. SubSeq(payload, 1, L) = a
  <2>1. 1 \in 1 .. Len(payload) + 1 /\ L \in 1 - 1 .. Len(payload) /\ Len(a) = L - 1 + 1
    BY <1>1, <1>4
  <2>2. \A i \in 1 .. L - 1 + 1 : payload[1 - 1 + i] = a[i]
    <3> TAKE i \in 1 .. L - 1 + 1
    <3>1. 1 - 1 + i = i /\ i \in 1 .. L /\ i \in 1 .. Len(ab)
      BY <1>1, <1>2
    <3> QED
      BY <1>2, <1>3, <3>1
  <2> QED
    BY <1>3, <2>1, <2>2, CutIs
<1>6. SubSeq(payload, L + 1, 2 * L) = b
  <2>1. /\ L + 1 \in 1 .. Len(payload) + 1 /\ 2 * L \in (L + 1) - 1 .. Len(payload)
        /\ Len(b) = 2 * L - (L + 1) + 1
    BY <1>1, <1>4
  <2>2. \A i \in 1 .. 2 * L - (L + 1) + 1 : payload[(L + 1) - 1 + i] = b[i]
    <3> TAKE i \in 1 .. 2 * L - (L + 1) + 1
    <3>1. (L + 1) - 1 + i = L + i /\ i \in 1 .. L /\ L + i \in 1 .. Len(ab)
      BY <1>1, <1>2
    <3> QED
      BY <1>2, <1>3, <3>1
  <2> QED
    BY <1>3, <2>1, <2>2, CutIs
<1>7. SubSeq(payload, 2 * L + 1, Len(payload)) = d
  <2>1. /\ 2 * L + 1 \in 1 .. Len(payload) + 1 /\ Len(payload) \in (2 * L + 1) - 1 .. Len(payload)
        /\ Len(d) = Len(payload) - (2 * L + 1) + 1
    BY <1>1, <1>4
  <2>2. \A i \in 1 .. Len(payload) - (2 * L + 1) + 1 : payload[(2 * L + 1) - 1 + i] = d[i]
    <3> TAKE i \in 1 .. Len(payload) - (2 * L + 1) + 1
    <3>1. (2 * L + 1) - 1 + i = Len(ab) + i /\ i \in 1 .. Len(d)
      BY <1>1, <1>2, <1>4
    <3> QED
      BY <1>3, <3>1
  <2> QED
    BY <1>3, <2>1, <2>2, CutIs
<1> QED
  BY <1>0, <1>1, <1>3, <1>4, <1>5, <1>6, <1>7 DEF IsBlock, L, ab

LEMMA WholeMessage ==
  ASSUME NEW m \in PeerMessages, IsComplete(m), m.id # -1
  PROVE  Understood(Body(m)) = m /\ ~Unreadable(Body(m))
<1> DEFINE data == Body(m)
           payload == Payload(data)
<1>1. /\ m.id \in -1 .. (Base - 1) \div 2 /\ m.fields \in Seq(0 .. IntLimit - 1)
      /\ m.data \in Bytes /\ m = [id |-> m.id, fields |-> m.fields, data |-> m.data]
  BY DEF PeerMessages
<1>2. Id(data) = m.id /\ payload = FieldBytes(m.fields) \o m.data
  BY BodyOfMessage
<1>3. LengthSize \in Nat /\ LengthSize > 0 /\ IntLimit \in Nat
  BY WireAssumption
<1> HIDE DEF data
<1> DEFINE understood == Understood(data)
<1>4. CASE m.id = Have
  <2>1. Len(m.fields) = 1 /\ m.data = <<>>
    <3>1. FieldsOf(Have) = 1
      BY DEF FieldsOf, Have, Piece
    <3> QED
      BY <1>4, <3>1 DEF IsComplete
  <2> DEFINE f == m.fields[1]
  <2>2. f \in 0 .. IntLimit - 1 /\ m.fields = <<f>>
    <3>1. 1 \in 1 .. Len(m.fields)
      BY <2>1
    <3>2. f \in 0 .. IntLimit - 1
      BY <1>1, <3>1, Elements
    <3>3. m.fields = <<f>>
      BY <1>1, <2>1
    <3> QED
      BY <3>2, <3>3
  <2> HIDE DEF f
  <2>3. IntBytes(f) \in Bytes /\ Len(IntBytes(f)) = LengthSize /\ BytesToInt(IntBytes(f)) = f
    BY <2>2, NumberBytes
  <2>4. payload = IntBytes(f)
    <3>1. payload = IntBytes(f) \o <<>>
      BY <1>2, <2>1, <2>2, OneField
    <3>2. IntBytes(f) \in Seq(Int)
      BY <2>3, BytesAreInts
    <3> HIDE DEF payload
    <3> QED
      BY <3>1, <3>2
  <2> HIDE DEF payload
  <2>5. understood = [id |-> Have, fields |-> <<f>>, data |-> <<>>]
    <3>1. understood = [id |-> Id(data), fields |-> <<BytesToInt(payload)>>, data |-> <<>>]
      <4>1. Piece # Have /\ Id(data) = Have
        BY <1>2, <1>4 DEF Piece, Have
      <4> QED
        BY <4>1 DEF Understood, payload
    <3> QED
      BY <1>2, <1>4, <2>3, <2>4, <3>1
  <2>6. understood = m
    BY <1>1, <1>4, <2>1, <2>2, <2>5
  <2>7. ~Unreadable(data)
    <3>1. ~BytesToIntThrows(payload)
      <4>1. payload # <<>>
        BY <1>3, <2>3, <2>4
      <4>2. BytesToInt(payload) # IntLimit
        BY <1>3, <2>2, <2>3, <2>4
      <4> QED
        BY <4>1, <4>2 DEF BytesToIntThrows
    <3>2. IntLimit \notin Range(understood.fields)
      <4>1. understood.fields = <<f>>
        BY <2>5
      <4>2. Range(<<f>>) = {f}
        BY DEF Range
      <4> QED
        BY <1>3, <2>2, <4>1, <4>2
    <3>3. Id(data) # Piece
      BY <1>2, <1>4 DEF Have, Piece
    <3> QED
      BY <3>1, <3>2, <3>3 DEF Unreadable, payload
  <2> QED
    BY <2>6, <2>7 DEF data
<1>5. CASE m.id = Piece
  <2>1. Len(m.fields) = 2
    BY <1>5 DEF IsComplete, FieldsOf, Piece, Have
  <2> DEFINE f == m.fields[1]
             g == m.fields[2]
  <2>2. f \in 0 .. IntLimit - 1 /\ g \in 0 .. IntLimit - 1 /\ m.fields = <<f, g>>
    <3>1. 1 \in 1 .. Len(m.fields) /\ 2 \in 1 .. Len(m.fields)
      BY <2>1
    <3>2. f \in 0 .. IntLimit - 1 /\ g \in 0 .. IntLimit - 1
      BY <1>1, <3>1, Elements
    <3>3. m.fields = <<f, g>>
      BY <1>1, <2>1
    <3> QED
      BY <3>2, <3>3
  <2> HIDE DEF f, g
  <2> DEFINE a == IntBytes(f)
             b == IntBytes(g)
  <2>3. /\ a \in Bytes /\ Len(a) = LengthSize /\ BytesToInt(a) = f
        /\ b \in Bytes /\ Len(b) = LengthSize /\ BytesToInt(b) = g
    BY <2>2, NumberBytes
  <2>4. payload = (a \o b) \o m.data
    BY <1>2, <2>2, TwoFields
  <2> HIDE DEF a, b, payload
  <2>5. /\ Len(payload) \in Nat /\ 2 * LengthSize <= Len(payload)
        /\ SubSeq(payload, 1, LengthSize) = a
        /\ SubSeq(payload, LengthSize + 1, 2 * LengthSize) = b
        /\ SubSeq(payload, 2 * LengthSize + 1, Len(payload)) = m.data
    <3>1. IsBlock((a \o b) \o m.data, a, b, m.data)
      BY <1>1, <2>3, BlockCuts
    <3> QED
      BY <2>4, <3>1 DEF IsBlock
  <2> DEFINE Field(k) == SubSeq(payload, (k - 1) * LengthSize + 1, Smaller(k * LengthSize, Len(payload)))
  <2>6. Field(1) = a /\ Field(2) = b
    <3>1. /\ (1 - 1) * LengthSize + 1 = 1 /\ 1 * LengthSize = LengthSize
          /\ (2 - 1) * LengthSize + 1 = LengthSize + 1
      BY <1>3
    <3>2. /\ Smaller(LengthSize, Len(payload)) = LengthSize
          /\ Smaller(2 * LengthSize, Len(payload)) = 2 * LengthSize
      BY <1>3, <2>5 DEF Smaller
    <3> QED
      BY <2>5, <3>1, <3>2
  <2> HIDE DEF Field
  <2>7. understood = [id |-> Piece, fields |-> <<f, g>>, data |-> m.data]
    <3>1. Piece # Have
      BY DEF Piece, Have
    <3>2. understood.id = Piece
      BY <1>2, <1>5 DEF Understood
    <3>3. understood = [id |-> Id(data),
                        fields |-> <<BytesToInt(Field(1)), BytesToInt(Field(2))>>,
                        data |-> SubSeq(payload, 2 * LengthSize + 1, Len(payload))]
      BY <1>2, <1>5, <3>1 DEF Understood, payload, Field
    <3> QED
      BY <1>2, <1>5, <2>3, <2>5, <2>6, <3>3
  <2>8. understood = m
    BY <1>1, <1>5, <2>2, <2>7
  <2>9. ~Unreadable(data)
    <3>1. ~(Len(payload) < 2 * LengthSize)
      BY <1>3, <2>5
    <3>2. IntLimit \notin Range(understood.fields)
      <4>1. understood.fields = <<f, g>>
        BY <2>7
      <4>2. Range(<<f, g>>) = {f, g}
        <5>1. DOMAIN <<f, g>> = {1, 2} /\ <<f, g>>[1] = f /\ <<f, g>>[2] = g
          OBVIOUS
        <5> QED
          BY <5>1 DEF Range
      <4> QED
        BY <1>3, <2>2, <4>1, <4>2
    <3>3. Id(data) # Have
      BY <1>2, <1>5 DEF Have, Piece
    <3> QED
      BY <3>1, <3>2, <3>3 DEF Unreadable, payload
  <2> QED
    BY <2>8, <2>9 DEF data
<1>6. CASE m.id # Have /\ m.id # Piece
  <2>1. m.fields = <<>>
    BY <1>1, <1>6 DEF IsComplete, FieldsOf
  <2>2. payload = m.data
    <3>1. payload = <<>> \o m.data
      BY <1>2, <2>1, NoFieldBytes
    <3>2. m.data \in Seq(Int)
      BY <1>1, BytesAreInts
    <3> HIDE DEF payload
    <3> QED
      BY <3>1, <3>2
  <2> HIDE DEF payload
  <2>3. understood = [id |-> m.id, fields |-> <<>>, data |-> payload]
    BY <1>2, <1>6 DEF Understood, payload
  <2>4. understood = m
    BY <1>1, <2>1, <2>2, <2>3
  <2>5. ~Unreadable(data)
    <3>1. Range(understood.fields) = {}
      <4>1. understood.fields = <<>> /\ DOMAIN <<>> = {}
        BY <2>3
      <4> QED
        BY <4>1 DEF Range
    <3> QED
      BY <1>2, <1>6, <3>1 DEF Unreadable
  <2> QED
    BY <2>4, <2>5 DEF data
<1> QED
  BY <1>4, <1>5, <1>6
-----------------------------------------------------------------------------
(* What ends the client.                                                    *)

LEMMA RoomTyped ==
  ASSUME NEW s \in Bytes
  PROVE  Room(s) \in Nat
BY DEF Room, Bytes

LEMMA PayloadTyped ==
  ASSUME NEW s \in Bytes
  PROVE  Payload(s) \in Bytes
<1>1. Len(s) \in Nat
  BY DEF Bytes
<1>2. CASE Len(s) = 0
  <2>1. Payload(s) = <<>>
    BY <1>2 DEF Payload, Bytes
  <2> QED
    BY <2>1 DEF Bytes
<1>3. CASE Len(s) > 0
  <2>1. 2 \in 1 .. Len(s) + 1 /\ Len(s) \in 2 - 1 .. Len(s)
    BY <1>1, <1>3
  <2> QED
    BY <2>1, CutBytes DEF Payload
<1> QED
  BY <1>1, <1>2, <1>3

\* A message without bytes is no bit field.
LEMMA NoField ==
  ASSUME messages \in Conversations, Len(messages) > 0, Body(messages[1]) = <<>>
  PROVE  RoomSaid = 0 /\ Room(Payload(Body(messages[1]))) = 0
<1> DEFINE m == messages[1]
<1>1. messages \in Seq(PeerMessages) /\ Len(messages) \in Nat
  BY BodiesTyped
<1>2. m \in PeerMessages
  <2>1. 1 \in 1 .. Len(messages)
    BY <1>1
  <2> QED
    BY <1>1, <2>1, Elements
<1>3. Body(m) = <<>> /\ RoomSaid = IF m.id = BitField THEN Room(FieldBytes(m.fields) \o m.data) ELSE 0
  BY DEF RoomSaid
<1>4. m.id = -1
  <2> HIDE DEF m
  <2>1. Len(Body(m)) = 0
    <3>1. Len(<<>>) = 0
      OBVIOUS
    <3> QED
      BY <1>3, <3>1
  <2>2. m.id # -1 => Len(Body(m)) > 0
    BY <1>2, BodyOfMessage
  <2> QED
    BY <2>1, <2>2
<1>5. RoomSaid = 0
  BY <1>3, <1>4 DEF BitField
<1>6. Room(Payload(<<>>)) = 0
  BY DEF Room, Payload
<1> QED
  BY <1>3, <1>5, <1>6

\* The first message after the handshake, where it was read as it was said.
LEMMA FieldAsSaid ==
  ASSUME messages \in Conversations, Len(messages) > 0, Body(messages[1]) # <<>>
  PROVE  /\ Room(FieldIn(Body(messages[1]))) = RoomSaid
         /\ RoomSaid \in Nat /\ Room(Payload(Body(messages[1]))) \in Nat
         /\ RoomSaid <= Room(Payload(Body(messages[1])))
<1> DEFINE m == messages[1]
           data == Body(m)
           field == FieldBytes(m.fields) \o m.data
<1>1. messages \in Seq(PeerMessages) /\ Len(messages) \in Nat
  BY BodiesTyped
<1>2. m \in PeerMessages
  <2>1. 1 \in 1 .. Len(messages)
    BY <1>1
  <2> QED
    BY <1>1, <2>1, Elements
<1>3. m.id # -1
  <2> HIDE DEF m
  <2> QED
    BY <1>2, BodyOfMessage DEF m
<1>4. Id(data) = m.id /\ Payload(data) = field
  <2> HIDE DEF m
  <2> QED
    BY <1>2, <1>3, BodyOfMessage
<1>5. field \in Bytes
  <2>1. m.fields \in Seq(0 .. IntLimit - 1) /\ m.data \in Bytes
    BY <1>2 DEF PeerMessages
  <2>2. FieldBytes(m.fields) \in Bytes
    BY <2>1, FieldBytesTyped
  <2> QED
    BY <2>1, <2>2, Joined
<1>6. Room(field) \in Nat
  BY <1>5, RoomTyped
<1>7. RoomSaid = IF m.id = BitField THEN Room(field) ELSE 0
  BY DEF RoomSaid
<1>8. FieldIn(data) = IF m.id = BitField THEN field ELSE <<>>
  BY <1>4 DEF FieldIn
<1>9. Room(<<>>) = 0
  BY DEF Room
<1> HIDE DEF m, field, data
<1>10. Room(FieldIn(data)) = RoomSaid
  BY <1>7, <1>8, <1>9
<1>11. RoomSaid \in Nat /\ RoomSaid <= Room(field)
  BY <1>6, <1>7
<1> QED
  BY <1>4, <1>6, <1>10, <1>11 DEF data, m

LEMMA ThrowsStep ==
  ASSUME TypeOK, TypeOK', StreamInv, TerminatesForAReason, [Next]_vars
  PROVE  TerminatesForAReason'
<1>1. CASE ReadLast
  <2> DEFINE r == Len(received)
             data == reply \o Chunk(size)
             m == messages[r]
  <2> SUFFICES ASSUME pc' = "terminated", FramingKept'
               PROVE  /\ r + 1 > 1
                      /\ \/ r + 1 = 2 /\ RoomSaid < Pieces
                         \/ r + 1 > 2 /\ ~IsComplete(m)
                         \/ r + 1 > 2 /\ m.id = Have /\ RoomSaid <= m.fields[1]
                         \/ r + 1 > 2 /\ m.id = Piece /\ RoomSaid <= Pieces
    <3>1. messages' = messages /\ received' = Append(received, data) /\ received \in Seq(Bytes)
      BY <1>1 DEF TypeOK, ReadLast
    <3>2. RoomSaid' = RoomSaid
      BY <3>1 DEF RoomSaid
    <3> HIDE DEF data
    <3>3. Len(received') = r + 1 /\ Len(received') - 1 = r
      BY <3>1
    <3> QED
      BY <3>1, <3>2, <3>3 DEF TerminatesForAReason
  <2>1. FramingKept /\ r < Len(Bodies) /\ data = Bodies[r + 1]
    BY <1>1, FramingGoesOn
  <2>2. r \in Nat /\ size = Len(Bodies[r + 1]) /\ size > 0 /\ received' = Append(received, data)
    BY <1>1, <2>1, LastRecv
  <2>3. messages \in Conversations /\ messages' = messages /\ received \in Seq(Bytes)
    BY <1>1 DEF TypeOK, ReadLast
  <2>4. pc' \in After(data)
    BY <1>1 DEF ReadLast
  <2> HIDE DEF data
  <2>5. r # 0
    <3>1. r = 0 => After(data) = {IF Refused(data) THEN "failed" ELSE "length"}
      BY DEF After
    <3> QED
      BY <2>4, <3>1
  <2>6. Bodies[r + 1] = Body(m) /\ m \in PeerMessages
    BY <2>1, <2>2, <2>3, <2>5, NextBody
  <2>7. Len(messages) \in Nat /\ Len(Bodies) = Len(messages) + 1 /\ Len(messages) > 0
    <3>1. Len(messages) \in Nat /\ Len(Bodies) = Len(messages) + 1
      BY <2>3, BodiesTyped
    <3> QED
      BY <2>1, <2>2, <2>5, <3>1
  <2>8. Body(m) # <<>> /\ data = Body(m)
    BY <2>1, <2>2, <2>6
  <2>9. CASE r = 1
    <3>1. After(data) = AfterBitField(data)
      BY <2>9 DEF After
    <3>2. Room(FieldIn(data)) < Pieces
      BY <2>4, <3>1 DEF AfterBitField
    <3>3. Room(FieldIn(Body(messages[1]))) = RoomSaid
      BY <2>3, <2>7, <2>8, <2>9, FieldAsSaid
    <3>4. RoomSaid < Pieces
      BY <2>8, <2>9, <3>2, <3>3
    <3> QED
      BY <2>9, <3>4
  <2>10. CASE r # 1
    <3>1. r > 1
      <4>1. r \in Nat /\ r # 0 /\ r # 1
        BY <2>2, <2>5, <2>10
      <4> HIDE DEF r
      <4> QED
        BY <4>1
    <3>2. m.id # -1
      <4> HIDE DEF m
      <4> QED
        BY <2>6, <2>8, BodyOfMessage
    <3>3. MayThrow(data)
      <4>1. After(data) = AfterMessage(data)
        BY <2>5, <2>10 DEF After
      <4> QED
        BY <2>4, <4>1 DEF AfterMessage
    <3> SUFFICES ASSUME IsComplete(m)
                 PROVE  \/ m.id = Have /\ RoomSaid <= m.fields[1]
                        \/ m.id = Piece /\ RoomSaid <= Pieces
      BY <3>1
    <3>4. Understood(data) = m /\ ~Unreadable(data)
      <4> HIDE DEF m
      <4> QED
        BY <2>6, <2>8, <3>2, WholeMessage
    <3>5. LeavesField(data) /\ Id(data) = m.id
      BY <3>3, <3>4 DEF MayThrow, Understood
    <3>6. RoomSaid \in Nat /\ Room(Payload(received[2])) \in Nat
          /\ RoomSaid <= Room(Payload(received[2]))
      <4>1. received[2] = Bodies[2] /\ Bodies[2] = Body(messages[1])
        <5>1. 2 \in 1 .. r /\ 1 \in 1 .. Len(messages) /\ 1 + 1 = 2
          BY <2>2, <2>7, <3>1
        <5>2. \A k \in 1 .. r : received[k] = Bodies[k]
          BY <2>1, <2>3, Framing
        <5>3. \A k \in 1 .. Len(messages) : Bodies[k + 1] = Body(messages[k])
          BY <2>3, BodiesTyped
        <5> HIDE DEF r, m
        <5>4. Bodies[1 + 1] = Body(messages[1])
          BY <5>1, <5>3
        <5> QED
          BY <5>1, <5>2, <5>4
      <4>2. /\ RoomSaid \in Nat /\ Room(Payload(Body(messages[1]))) \in Nat
            /\ RoomSaid <= Room(Payload(Body(messages[1])))
        <5>1. CASE Body(messages[1]) = <<>>
          BY <2>3, <2>7, <5>1, NoField
        <5>2. CASE Body(messages[1]) # <<>>
          BY <2>3, <2>7, <5>2, FieldAsSaid
        <5> QED
          BY <5>1, <5>2
      <4> QED
        BY <4>1, <4>2
    <3>7. CASE m.id = Have
      <4>1. Room(Payload(received[2])) <= BytesToInt(Payload(data))
        BY <3>5, <3>7 DEF LeavesField, Have, Piece
      <4>2. m.fields = <<BytesToInt(Payload(data))>>
        <5>1. Id(data) = Have /\ Piece # Have
          BY <3>5, <3>7 DEF Piece, Have
        <5>2. Understood(data).fields = <<BytesToInt(Payload(data))>>
          BY <5>1 DEF Understood
        <5> QED
          BY <3>4, <5>2
      <4>3. m.fields[1] = BytesToInt(Payload(data))
        BY <4>2
      <4>4. m.fields[1] \in Int
        <5>1. m.fields \in Seq(0 .. IntLimit - 1) /\ Len(m.fields) = 1
          BY <2>6, <4>2 DEF PeerMessages
        <5>2. 1 \in 1 .. Len(m.fields)
          BY <5>1
        <5>3. m.fields[1] \in 0 .. IntLimit - 1
          BY <5>1, <5>2, Elements
        <5> QED
          BY <5>3
      <4> QED
        BY <3>6, <3>7, <4>1, <4>3, <4>4
    <3>8. CASE m.id # Have
      <4>1. m.id = Piece /\ Room(Payload(received[2])) <= Pieces
        BY <3>5, <3>8 DEF LeavesField
      <4> QED
        BY <3>6, <4>1, StreamAssumption
    <3> QED
      BY <3>7, <3>8
  <2> QED
    BY <2>2, <2>9, <2>10
<1>2. CASE ReadLength
  <2>1. received' = received /\ messages' = messages
    BY <1>2 DEF ReadLength
  <2>2. FramingKept' => FramingKept
    BY <2>1 DEF FramingKept, Bodies
  <2>3. FramingKept => pc' # "terminated"
    BY <1>2, ReadLengthKeepsPlace
  <2> QED
    BY <2>2, <2>3 DEF TerminatesForAReason
<1>3. CASE PeerSends \/ Arrive \/ ClientSends \/ TimesOut \/ ReadNothing \/ ReadMore \/ UNCHANGED vars
  <2>1. received' = received /\ messages' = messages
    BY <1>3 DEF PeerSends, Arrive, ClientSends, TimesOut, ReadNothing, ReadMore, vars
  <2>2. pc' = "terminated" => pc = "terminated"
    BY <1>3 DEF PeerSends, Arrive, ClientSends, TimesOut, ReadNothing, ReadMore, vars
  <2>3. (FramingKept' => FramingKept) /\ RoomSaid' = RoomSaid
    BY <2>1 DEF FramingKept, Bodies, RoomSaid
  <2> QED
    BY <2>1, <2>2, <2>3 DEF TerminatesForAReason
<1> QED
  BY <1>1, <1>2, <1>3 DEF Next, ReceiveData, Stopped

(* The client ends only by a message that was garbled, length or body, or that
   has not the length it should have, or where the bit field ends: if it is
   missing or has not a bit for every piece, by a have of a piece beyond it, or
   by a block when the pieces fill the bytes of the field: whatever peers say,
   and for any number of pieces.                                            *)
THEOREM Terminations == Spec => []TerminatesForAReason
<1>1. Init => TerminatesForAReason
  BY DEF Init, TerminatesForAReason
<1>2. TypeOK /\ TypeOK' /\ StreamInv /\ TerminatesForAReason /\ [Next]_vars
      => TerminatesForAReason'
  BY ThrowsStep
<1> QED
  BY <1>1, <1>2, InPlaceCorrect, PTL DEF Spec
-----------------------------------------------------------------------------
(* What a number says that is not too large.                                *)

Agree(n, f, g) == \A k \in 0 .. n : f[k] = g[k]

LEMMA SameSteps ==
  ASSUME NEW n \in Nat, NEW f, NEW g, f[0] = g[0],
         \A k \in 1 .. n : f[k - 1] = g[k - 1] => f[k] = g[k]
  PROVE  Agree(n, f, g)
<1> DEFINE T == {k \in 0 .. n : f[k] = g[k]}
<1>1. 0 \in T /\ \A k \in 1 .. n : k - 1 \in T => k \in T
  OBVIOUS
<1>2. \A k \in 0 .. n : k \in T
  <2> HIDE DEF T
  <2> QED
    BY <1>1, CountUp
<1> QED
  BY <1>2 DEF Agree

\* No number on the way to one below IntLimit is capped.
LEMMA UncappedSteps ==
  ASSUME NEW bytes \in Bytes, BytesToInt(bytes) < IntLimit
  PROVE  \E number \in [0 .. Len(bytes) -> 0 .. IntLimit] :
           /\ number[0] = 0
           /\ \A k \in 1 .. Len(bytes) : number[k] = number[k - 1] * Base + bytes[k]
           /\ BytesToInt(bytes) = number[Len(bytes)]
<1> DEFINE L == Len(bytes)
<1>1. L \in Nat /\ bytes \in Seq(Nat) /\ Base \in Nat /\ Base > 1 /\ IntLimit \in Nat
  BY BytesAreInts, WireAssumption
<1>2. PICK number \in [0 .. L -> 0 .. IntLimit] :
        /\ number[0] = 0
        /\ \A k \in 1 .. L : number[k] = Capped(number[k - 1] * Base + bytes[k])
        /\ BytesToInt(bytes) = number[L]
  BY <1>1, BytesToIntSteps
<1>3. ASSUME NEW k \in 1 .. L, number[k] < IntLimit
      PROVE  number[k - 1] < IntLimit /\ number[k] = number[k - 1] * Base + bytes[k]
  <2> DEFINE v == number[k - 1]
             d == bytes[k]
  <2>1. v \in 0 .. IntLimit /\ d \in Nat
    <3>1. k - 1 \in 0 .. L
      BY <1>1
    <3> QED
      BY <1>1, <1>2, <3>1, Elements
  <2>2. number[k] = Capped(v * Base + d)
    BY <1>2
  <2> HIDE DEF v, d
  <2>3. v * Base + d \in Nat /\ v * Base + d >= v
    <3>1. 1 * v <= Base * v
      BY <1>1, <2>1, TimesGrows
    <3>2. v * Base = Base * v /\ 1 * v = v /\ v * Base \in Nat
      BY <1>1, <2>1
    <3> DEFINE p == v * Base
    <3>3. p >= v /\ p \in Nat
      BY <1>1, <2>1, <3>1, <3>2
    <3> HIDE DEF p
    <3>4. p + d \in Nat /\ p + d >= v
      BY <2>1, <3>3
    <3> QED
      BY <3>4 DEF p
  <2> DEFINE sum == v * Base + d
  <2> HIDE DEF sum
  <2>4. sum < IntLimit /\ number[k] = sum
    <3>1. number[k] = Capped(sum)
      BY <2>2 DEF sum
    <3> QED
      BY <1>1, <1>3, <3>1 DEF Capped
  <2>5. v < IntLimit
    BY <1>1, <2>1, <2>3, <2>4 DEF sum
  <2> QED
    BY <2>4, <2>5 DEF v, d, sum
<1>4. \A k \in 0 .. L : number[k] < IntLimit
  <2> DEFINE T == {k \in 0 .. L : number[L - k] < IntLimit}
  <2>1. 0 \in T
    <3>1. 0 \in 0 .. L /\ L - 0 = L
      BY <1>1
    <3> QED
      BY <1>2, <3>1
  <2>2. ASSUME NEW k \in 1 .. L, k - 1 \in T
        PROVE  k \in T
    <3>1. L - (k - 1) \in 1 .. L /\ (L - (k - 1)) - 1 = L - k /\ k \in 0 .. L
      BY <1>1
    <3>2. number[L - (k - 1)] < IntLimit
      BY <2>2
    <3>3. number[(L - (k - 1)) - 1] < IntLimit
      BY <1>3, <3>1, <3>2
    <3> QED
      BY <3>1, <3>3
  <2>3. \A k \in 0 .. L : k \in T
    <3> HIDE DEF T, L
    <3> QED
      BY <1>1, <2>1, <2>2, CountUp
  <2> TAKE k \in 0 .. L
  <2>4. L - k \in 0 .. L /\ L - (L - k) = k
    BY <1>1
  <2>5. L - k \in T
    BY <2>3, <2>4
  <2> QED
    BY <2>4, <2>5
<1>5. \A k \in 1 .. L : number[k] = number[k - 1] * Base + bytes[k]
  <2> TAKE k \in 1 .. L
  <2>1. k \in 0 .. L
    BY <1>1
  <2> QED
    BY <1>3, <1>4, <2>1
<1> QED
  BY <1>2, <1>5

\* What the protocol reads there is what bytesToInt makes of it.
LEMMA ValueOfBytes ==
  ASSUME NEW bytes \in Bytes, BytesToInt(bytes) < IntLimit
  PROVE  ValueOf(bytes) = BytesToInt(bytes)
<1> DEFINE L == Len(bytes)
           IsValue(f) == f = [k \in 0 .. L |-> IF k = 0 THEN 0 ELSE f[k - 1] * Base + bytes[k]]
           value == CHOOSE f : IsValue(f)
<1>1. L \in Nat
  BY BytesAreInts
<1>2. PICK number \in [0 .. L -> 0 .. IntLimit] :
        /\ number[0] = 0
        /\ \A k \in 1 .. L : number[k] = number[k - 1] * Base + bytes[k]
        /\ BytesToInt(bytes) = number[L]
  BY UncappedSteps
<1>3. IsValue(number)
  <2>1. \A k \in 0 .. L : k # 0 => k \in 1 .. L
    BY <1>1
  <2> QED
    BY <1>2, <2>1
<1>4. IsValue(value)
  BY <1>3
<1>5. ValueOf(bytes) = value[L]
  BY DEF ValueOf
<1> HIDE DEF value
<1>6. value[0] = 0 /\ \A k \in 1 .. L : value[k] = value[k - 1] * Base + bytes[k]
  BY <1>1, <1>4
<1>7. \A k \in 0 .. L : value[k] = number[k]
  <2>1. value[0] = number[0] /\ \A k \in 1 .. L : value[k - 1] = number[k - 1] => value[k] = number[k]
    BY <1>2, <1>6
  <2>2. Agree(L, value, number)
    <3> HIDE DEF L
    <3> QED
      BY <1>1, <2>1, SameSteps
  <2> QED
    BY <2>2 DEF Agree
<1>8. L \in 0 .. L
  BY <1>1
<1> QED
  BY <1>2, <1>5, <1>7, <1>8-----------------------------------------------------------------------------
(* The client says one message after the other.                             *)

ClientTape == \E start : Tape(Words, outgoing, start)

LEMMA WordsAre ==
  ASSUME asked \in 0 .. Len(Requests) + 1
  PROVE  /\ Words \in Seq(Bytes) /\ Len(Words) = asked + 1
         /\ \A k \in 1 .. asked + 1 : Words[k] = Word(k)
<1>1. asked \in Nat /\ Len(Requests) \in Nat
  BY WordsTyped
<1>2. \A k \in 1 .. asked + 1 : k \in 1 .. Len(Requests) + 2
  BY <1>1
<1>3. Words \in [1 .. asked + 1 -> Bytes] /\ \A k \in 1 .. asked + 1 : Words[k] = Word(k)
  BY <1>2, WordsTyped DEF Words
<1> HIDE DEF Bytes
<1> QED
  BY <1>1, <1>3, FunctionIsSeq

LEMMA InitClientTape == Init => ClientTape
<1> SUFFICES ASSUME Init PROVE ClientTape
  OBVIOUS
<1>1. asked = 0 /\ outgoing = HandshakeMessage
  BY DEF Init
<1>2. Words = <<HandshakeMessage>>
  <2>1. Words = [k \in 1 .. 1 |-> Word(k)]
    BY <1>1 DEF Words
  <2>2. Word(1) = HandshakeMessage
    BY DEF Word
  <2> QED
    BY <2>1, <2>2
<1> DEFINE h == HandshakeMessage
           start == [k \in 0 .. 1 |-> IF k = 0 THEN 0 ELSE Len(h)]
<1>3. h \in Bytes /\ Len(h) \in Nat
  BY HandshakeHasHash DEF HandshakeSize
<1>4. Words = <<h>> /\ outgoing = h
  BY <1>1, <1>2
<1> HIDE DEF h
<1>5. <<h>> \in Seq(Bytes) /\ Len(<<h>>) = 1 /\ <<h>>[1] = h
  <2> HIDE DEF Bytes
  <2> QED
    BY <1>3
<1>6. start \in [0 .. 1 -> 0 .. Len(h)] /\ start[0] = 0 /\ start[1] = Len(h)
  BY <1>3
<1> HIDE DEF start
<1>7. \A k \in 1 .. 1 : k = 1
  OBVIOUS
<1>8. \A i \in 1 .. Len(h) : 0 + i = i
  BY <1>3
<1>9. Tape(<<h>>, h, start)
  BY <1>3, <1>5, <1>6, <1>7, <1>8 DEF Tape
<1> QED
  BY <1>4, <1>9 DEF ClientTape

LEMMA NextClientTape == TypeOK /\ TypeOK' /\ ClientTape /\ [Next]_vars => ClientTape'
<1> SUFFICES ASSUME TypeOK, TypeOK', ClientTape, [Next]_vars PROVE ClientTape'
  OBVIOUS
<1>1. asked \in 0 .. Len(Requests) + 1 /\ asked' \in 0 .. Len(Requests) + 1
  BY DEF TypeOK
<1>2. CASE ClientSends
  <2>1. asked' = asked + 1 /\ outgoing' = outgoing \o Word(asked + 2)
    BY <1>1, <1>2, NextWord
  <2> DEFINE word == Word(asked + 2)
  <2>2. word \in Bytes
    <3>1. asked + 2 \in 1 .. Len(Requests) + 2
      BY <1>1, <2>1, WordsTyped
    <3> QED
      BY <3>1, WordsTyped
  <2>3. PICK start : Tape(Words, outgoing, start)
    BY DEF ClientTape
  <2>4. /\ Words \in Seq(Bytes) /\ Len(Words) = asked + 1
        /\ \A k \in 1 .. asked + 1 : Words[k] = Word(k)
    BY <1>1, WordsAre
  <2>5. PICK longer : longer = [k \in 1 .. asked + 2 |-> Word(k)]
    OBVIOUS
  <2>6. Words' = longer
    <3>1. asked' + 1 = asked + 2
      BY <1>1, <2>1
    <3>2. Words' = [k \in 1 .. asked' + 1 |-> Word(k)]
      BY DEF Words, Word
    <3> QED
      BY <2>5, <3>1, <3>2
  <2>7. longer = Append(Words, word)
    <3>1. asked \in Nat /\ asked + 1 + 1 = asked + 2
      BY <1>1
    <3>2. longer[asked + 2] = word /\ \A k \in 1 .. asked + 1 : longer[k] = Word(k)
      BY <2>5, <3>1
    <3>3. longer \in Seq(Bytes) /\ Len(longer) = asked + 2
      <4>1. longer \in [1 .. asked + 2 -> Bytes]
        <5>1. \A k \in 1 .. asked + 2 : k \in 1 .. Len(Requests) + 2
          BY <1>1, <2>1, WordsTyped
        <5> QED
          BY <2>5, <5>1, WordsTyped
      <4> HIDE DEF Bytes
      <4> QED
        BY <3>1, <4>1, FunctionIsSeq
    <3> HIDE DEF word
    <3> QED
      BY <2>2, <2>4, <3>1, <3>2, <3>3, OneMore
  <2>8. \E end : Tape(Append(Words, word), outgoing \o word, end)
    <3> HIDE DEF word
    <3> QED
      BY <2>2, <2>3, TapeGrows
  <2>9. \E end : Tape(longer, outgoing', end)
    BY <2>1, <2>7, <2>8
  <2> QED
    BY <2>6, <2>9 DEF ClientTape
<1>3. CASE UNCHANGED client
  <2>1. asked' = asked /\ outgoing' = outgoing
    BY <1>3 DEF client
  <2>2. Words' = Words
    BY <2>1 DEF Words, Word
  <2> QED
    BY <2>1, <2>2 DEF ClientTape
<1>4. ClientSends \/ UNCHANGED client
  BY DEF Next, ReceiveData, Stopped, PeerSends, Arrive, TimesOut, ReadLength, ReadNothing,
     ReadMore, ReadLast, vars
<1> QED
  BY <1>2, <1>3, <1>4

\* Where the number k of the messages of the client is.
LEMMA WordPlace ==
  ASSUME TypeOK, NEW start, Tape(Words, outgoing, start), NEW k \in 1 .. asked + 1
  PROVE  /\ start[k - 1] \in Nat /\ start[k] \in Nat /\ start[k] <= Len(outgoing)
         /\ Word(k) \in Bytes /\ Len(Word(k)) \in Nat
         /\ start[k] = start[k - 1] + Len(Word(k))
         /\ \A i \in 1 .. Len(Word(k)) : outgoing[start[k - 1] + i] = Word(k)[i]
<1>1. /\ asked \in 0 .. Len(Requests) + 1
      /\ Words \in Seq(Bytes) /\ Len(Words) = asked + 1
      /\ \A j \in 1 .. asked + 1 : Words[j] = Word(j)
  <2>1. asked \in 0 .. Len(Requests) + 1
    BY DEF TypeOK
  <2> QED
    BY <2>1, WordsAre
<1>2. k \in 1 .. Len(Words) /\ Words[k] = Word(k)
  BY <1>1
<1>3. /\ start[k - 1] \in Nat /\ start[k] \in Nat /\ start[k] <= Len(outgoing)
      /\ start[k] = start[k - 1] + Len(Words[k])
  BY <1>2, TapeHasParts
<1>4. \A i \in 1 .. Len(Words[k]) : outgoing[start[k - 1] + i] = Words[k][i]
  BY <1>2 DEF Tape
<1>5. Words[k] \in Bytes
  BY <1>1, <1>2, Elements
<1>6. Len(Words[k]) \in Nat
  BY <1>5 DEF Bytes
<1> QED
  BY <1>2, <1>3, <1>4, <1>5, <1>6

\* The bytes of a word are a length and what is as long.
IsFramed(word) ==
    /\ word \in Bytes /\ Len(word) \in Nat
    /\ Len(word) - LengthSize \in 1 .. IntLimit - 1
    /\ \A i \in 1 .. LengthSize : word[i] = IntBytes(Len(word) - LengthSize)[i]

LEMMA WordIsFramed ==
  ASSUME NEW k \in 2 .. Len(Requests) + 2
  PROVE  IsFramed(Word(k))
<1>1. Len(Requests) \in Nat /\ Requests \in Seq([1 .. 3 -> 0 .. IntLimit - 1])
  BY WordsTyped
<1>2. LengthSize \in Nat /\ LengthSize > 0 /\ IntLimit \in Nat /\ 1 + 3 * LengthSize < IntLimit
  BY WireAssumption, StreamAssumption
<1>3. CASE k = 2
  <2>1. PICK word : word = CreateInterested
    OBVIOUS
  <2>2. /\ word \in Bytes /\ Len(word) = LengthSize + 1
        /\ \A i \in 1 .. LengthSize : word[i] = IntBytes(1)[i]
    BY <2>1, InterestedBytes
  <2>3. Len(word) - LengthSize = 1 /\ Len(word) \in Nat /\ 1 \in 1 .. IntLimit - 1
    BY <1>2, <2>2
  <2>4. IsFramed(word)
    BY <2>2, <2>3 DEF IsFramed
  <2>5. Word(k) = word
    BY <1>3, <2>1 DEF Word
  <2> QED
    BY <2>4, <2>5
<1>4. CASE k > 2
  <2>1. k - 2 \in 1 .. Len(Requests)
    BY <1>1, <1>4
  <2>2. PICK r : r = Requests[k - 2]
    OBVIOUS
  <2>3. r \in [1 .. 3 -> 0 .. IntLimit - 1]
    BY <1>1, <2>1, <2>2, Elements
  <2>4. PICK word : word = CreateRequest(r[1], r[2], r[3])
    OBVIOUS
  <2> DEFINE n == 1 + 3 * LengthSize
  <2>5. /\ word \in Bytes /\ Len(word) = LengthSize + n
        /\ \A i \in 1 .. LengthSize : word[i] = IntBytes(n)[i]
    BY <2>3, <2>4, RequestBytes
  <2>6. n \in 1 .. IntLimit - 1
    BY <1>2
  <2> HIDE DEF n
  <2>7. Len(word) - LengthSize = n /\ Len(word) \in Nat
    BY <1>2, <2>5, <2>6
  <2>8. IsFramed(word)
    BY <2>5, <2>6, <2>7 DEF IsFramed
  <2>9. Word(k) = word
    BY <1>4, <2>2, <2>4 DEF Word
  <2> QED
    BY <2>8, <2>9
<1> QED
  BY <1>1, <1>3, <1>4
\* A number that IntBytes wrote somewhere.
LEMMA NumberAt ==
  ASSUME NEW tape \in Bytes, NEW at \in Nat, NEW n \in 0 .. IntLimit - 1, at + LengthSize <= Len(tape),
         \A i \in 1 .. LengthSize : tape[at + i] = IntBytes(n)[i]
  PROVE  ValueOf(SubSeq(tape, at + 1, at + LengthSize)) = n
<1>1. LengthSize \in Nat /\ Len(tape) \in Nat /\ IntLimit \in Nat
  BY WireAssumption DEF Bytes
<1>2. IntBytes(n) \in Bytes /\ Len(IntBytes(n)) = LengthSize /\ BytesToInt(IntBytes(n)) = n
  BY NumberBytes
<1>3. SubSeq(tape, at + 1, at + LengthSize) = IntBytes(n)
  <2>1. PICK m, e, digits : m = at + 1 /\ e = at + LengthSize /\ digits = IntBytes(n)
    OBVIOUS
  <2>2. /\ m \in 1 .. Len(tape) + 1 /\ e \in m - 1 .. Len(tape)
        /\ e - m + 1 = LengthSize /\ m - 1 = at
    BY <1>1, <2>1
  <2>3. digits \in Bytes /\ Len(digits) = e - m + 1
    BY <1>2, <2>1, <2>2
  <2>4. \A i \in 1 .. e - m + 1 : tape[m - 1 + i] = digits[i]
    BY <2>1, <2>2
  <2> QED
    BY <2>1, <2>2, <2>3, <2>4, CutIs
<1>4. BytesToInt(IntBytes(n)) < IntLimit
  BY <1>1, <1>2
<1> QED
  BY <1>2, <1>3, <1>4, ValueOfBytes

\* The number in front of a word.
LEMMA LengthOfWord ==
  ASSUME NEW word, IsFramed(word), NEW tape \in Bytes, NEW at \in Nat, at + Len(word) <= Len(tape),
         \A i \in 1 .. Len(word) : tape[at + i] = word[i]
  PROVE  ValueOf(SubSeq(tape, at + 1, at + LengthSize)) = Len(word) - LengthSize
<1> DEFINE n == Len(word) - LengthSize
<1>1. /\ Len(word) \in Nat /\ n \in 1 .. IntLimit - 1 /\ LengthSize \in Nat /\ Len(tape) \in Nat
      /\ \A i \in 1 .. LengthSize : word[i] = IntBytes(n)[i]
  BY WireAssumption DEF IsFramed, Bytes
<1>2. LengthSize <= Len(word)
  BY <1>1
<1> HIDE DEF n
<1>3. n \in 0 .. IntLimit - 1 /\ at + LengthSize <= Len(tape)
  BY <1>1, <1>2
<1>4. \A i \in 1 .. LengthSize : tape[at + i] = IntBytes(n)[i]
  <2>1. \A i \in 1 .. LengthSize : i \in 1 .. Len(word)
    BY <1>1, <1>2
  <2> QED
    BY <1>1, <2>1
<1>5. ValueOf(SubSeq(tape, at + 1, at + LengthSize)) = n
  BY <1>3, <1>4, NumberAt
<1> QED
  BY <1>5 DEF n

(* The protocol finds each message of the client where the client put it.   *)
LEMMA EndsAreStarts ==
  ASSUME TypeOK, NEW start, Tape(Words, outgoing, start)
  PROVE  \A k \in 0 .. asked : End[k] = start[k + 1]
<1> DEFINE Next1(v) == v + LengthSize + ValueOf(SubSeq(outgoing, v + 1, v + LengthSize))
           IsEnd(f) == f = [k \in 0 .. asked |-> IF k = 0 THEN HandshakeSize ELSE Next1(f[k - 1])]
           ends == [k \in 0 .. asked |-> start[k + 1]]
<1>1. asked \in Nat /\ Len(Requests) \in Nat /\ asked <= Len(Requests) + 1 /\ outgoing \in Bytes
  BY WordsTyped DEF TypeOK
<1>2. ends[0] = HandshakeSize
  <2>1. 1 \in 1 .. asked + 1
    BY <1>1
  <2>2. Word(1) = HandshakeMessage
    BY DEF Word
  <2>3. start[1] = start[1 - 1] + Len(Word(1)) /\ start[1 - 1] \in Nat /\ Len(Word(1)) \in Nat
    BY <2>1, WordPlace
  <2>4. start[1 - 1] = 0
    BY DEF Tape
  <2>5. start[1] = HandshakeSize
    BY <2>2, <2>3, <2>4 DEF HandshakeSize
  <2>6. 0 \in 0 .. asked /\ 0 + 1 = 1
    BY <1>1
  <2> QED
    BY <2>5, <2>6
<1>3. ASSUME NEW k \in 1 .. asked
      PROVE  ends[k] = Next1(ends[k - 1])
  <2>1. k + 1 \in 1 .. asked + 1 /\ k + 1 \in 2 .. Len(Requests) + 2 /\ (k + 1) - 1 = k
    BY <1>1
  <2>2. PICK word : word = Word(k + 1)
    OBVIOUS
  <2>3. IsFramed(word)
    BY <2>1, <2>2, WordIsFramed
  <2> DEFINE at == start[k]
  <2>4. /\ at \in Nat /\ start[k + 1] \in Nat /\ start[k + 1] <= Len(outgoing)
        /\ Len(word) \in Nat /\ start[k + 1] = at + Len(word)
        /\ \A i \in 1 .. Len(word) : outgoing[at + i] = word[i]
    <3>1. /\ start[(k + 1) - 1] \in Nat /\ start[k + 1] \in Nat /\ start[k + 1] <= Len(outgoing)
          /\ Word(k + 1) \in Bytes /\ Len(Word(k + 1)) \in Nat
          /\ start[k + 1] = start[(k + 1) - 1] + Len(Word(k + 1))
          /\ \A i \in 1 .. Len(Word(k + 1)) : outgoing[start[(k + 1) - 1] + i] = Word(k + 1)[i]
      BY <2>1, WordPlace
    <3> QED
      BY <2>1, <2>2, <3>1
  <2>5. ends[k - 1] = at /\ ends[k] = start[k + 1]
    <3>1. k - 1 \in 0 .. asked /\ k \in 0 .. asked /\ k - 1 + 1 = k
      BY <1>1
    <3> QED
      BY <3>1
  <2> HIDE DEF at, ends
  <2>6. ValueOf(SubSeq(outgoing, at + 1, at + LengthSize)) = Len(word) - LengthSize
    <3>1. at + Len(word) <= Len(outgoing)
      BY <2>4
    <3> QED
      BY <1>1, <2>3, <2>4, <3>1, LengthOfWord
  <2>7. at + LengthSize + (Len(word) - LengthSize) = at + Len(word)
    BY <2>4, WireAssumption
  <2> QED
    BY <2>4, <2>5, <2>6, <2>7
<1>4. IsEnd(ends)
  <2>1. \A k \in 0 .. asked : k # 0 => k \in 1 .. asked
    BY <1>1
  <2> HIDE DEF Next1
  <2> QED
    BY <1>2, <1>3, <2>1
<1>5. IsEnd(End)
  <2>1. End = CHOOSE f : IsEnd(f)
    BY DEF End
  <2> HIDE DEF IsEnd
  <2> QED
    BY <1>4, <2>1
<1> HIDE DEF Next1, ends
<1>6. End[0] = HandshakeSize /\ \A k \in 1 .. asked : End[k] = Next1(End[k - 1])
  <2>1. 0 \in 0 .. asked /\ \A k \in 1 .. asked : k \in 0 .. asked /\ k # 0
    BY <1>1
  <2> QED
    BY <1>5, <2>1
<1>7. \A k \in 0 .. asked : End[k] = ends[k]
  <2>1. End[0] = ends[0] /\ \A k \in 1 .. asked : End[k - 1] = ends[k - 1] => End[k] = ends[k]
    BY <1>2, <1>3, <1>6
  <2>2. Agree(asked, End, ends)
    BY <1>1, <2>1, SameSteps
  <2> QED
    BY <2>2 DEF Agree
<1> QED
  BY <1>7 DEF ends

LEMMA SaidIs ==
  ASSUME TypeOK, ClientTape, NEW k \in 1 .. asked
  PROVE  LET word == Word(k + 1)
         IN  /\ IsFramed(word) /\ Said(k) \in Bytes
             /\ Len(Said(k)) = Len(word) - LengthSize
             /\ \A i \in 1 .. Len(word) - LengthSize : Said(k)[i] = word[LengthSize + i]
<1>1. PICK start : Tape(Words, outgoing, start)
  BY DEF ClientTape
<1>2. asked \in Nat /\ Len(Requests) \in Nat /\ asked <= Len(Requests) + 1 /\ outgoing \in Bytes
  BY WordsTyped DEF TypeOK
<1>3. k + 1 \in 1 .. asked + 1 /\ k + 1 \in 2 .. Len(Requests) + 2 /\ (k + 1) - 1 = k
  BY <1>2
<1>4. PICK word : word = Word(k + 1)
  OBVIOUS
<1>5. IsFramed(word)
  BY <1>3, <1>4, WordIsFramed
<1> DEFINE at == start[k]
           n == Len(word) - LengthSize
           body == SubSeq(outgoing, at + LengthSize + 1, at + Len(word))
<1>6. /\ at \in Nat /\ start[k + 1] = at + Len(word) /\ at + Len(word) <= Len(outgoing)
      /\ Len(word) \in Nat /\ \A i \in 1 .. Len(word) : outgoing[at + i] = word[i]
  <2>1. /\ start[(k + 1) - 1] \in Nat /\ start[k + 1] \in Nat /\ start[k + 1] <= Len(outgoing)
        /\ Word(k + 1) \in Bytes /\ Len(Word(k + 1)) \in Nat
        /\ start[k + 1] = start[(k + 1) - 1] + Len(Word(k + 1))
        /\ \A i \in 1 .. Len(Word(k + 1)) : outgoing[start[(k + 1) - 1] + i] = Word(k + 1)[i]
    BY <1>1, <1>3, WordPlace
  <2> QED
    BY <1>3, <1>4, <2>1
<1>7. End[k - 1] = start[k] /\ End[k] = start[k + 1]
  <2>1. k - 1 \in 0 .. asked /\ k \in 0 .. asked /\ k - 1 + 1 = k
    BY <1>2
  <2>2. \A j \in 0 .. asked : End[j] = start[j + 1]
    BY <1>1, EndsAreStarts
  <2> QED
    BY <2>1, <2>2
<1>8. Said(k) = body
  BY <1>6, <1>7 DEF Said
<1> HIDE DEF at
<1>9. /\ LengthSize \in Nat /\ n \in Nat /\ n > 0 /\ Len(outgoing) \in Nat
      /\ \A i \in 1 .. n : LengthSize + i \in 1 .. Len(word)
  <2>1. LengthSize \in Nat /\ n \in 1 .. IntLimit - 1 /\ IntLimit \in Nat
    BY <1>5, WireAssumption DEF IsFramed
  <2>2. Len(outgoing) \in Nat
    BY <1>2 DEF Bytes
  <2>3. \A i \in 1 .. n : LengthSize + i \in 1 .. Len(word)
    BY <1>6, <2>1
  <2> HIDE DEF n
  <2> QED
    BY <2>1, <2>2, <2>3
<1>10. /\ body \in Bytes /\ Len(body) = n
       /\ \A i \in 1 .. n : body[i] = outgoing[at + LengthSize + i]
  <2> DEFINE m == at + LengthSize + 1
             e == at + Len(word)
  <2>1. m \in 1 .. Len(outgoing) + 1 /\ e \in m - 1 .. Len(outgoing)
        /\ e - m + 1 = n /\ m - 1 = at + LengthSize
    BY <1>6, <1>9
  <2> HIDE DEF m, e
  <2>2. /\ SubSeq(outgoing, m, e) \in Bytes /\ Len(SubSeq(outgoing, m, e)) = e - m + 1
        /\ \A i \in 1 .. e - m + 1 : SubSeq(outgoing, m, e)[i] = outgoing[m - 1 + i]
    BY <1>2, <2>1, CutBytes
  <2>3. body = SubSeq(outgoing, m, e)
    BY DEF m, e
  <2> HIDE DEF body, n
  <2> QED
    BY <2>1, <2>2, <2>3
<1> HIDE DEF body
<1>11. \A i \in 1 .. n : body[i] = word[LengthSize + i]
  <2> TAKE i \in 1 .. n
  <2>1. at + LengthSize + i = at + (LengthSize + i) /\ LengthSize + i \in 1 .. Len(word)
    BY <1>6, <1>9
  <2> QED
    BY <1>6, <1>10, <2>1
<1> QED
  BY <1>4, <1>5, <1>8, <1>10, <1>11 DEF n
LEMMA SaysInterested ==
  ASSUME TypeOK, ClientTape, asked > 0
  PROVE  Said(1) = <<Interested>>
<1>1. asked \in Nat /\ 1 \in 1 .. asked
  BY WordsTyped DEF TypeOK
<1>2. PICK word : word = CreateInterested
  OBVIOUS
<1>3. Word(1 + 1) = word
  BY <1>2 DEF Word
<1> DEFINE said == Said(1)
<1>4. /\ said \in Bytes /\ Len(said) = Len(word) - LengthSize
      /\ \A i \in 1 .. Len(word) - LengthSize : said[i] = word[LengthSize + i]
  BY <1>1, <1>3, SaidIs
<1>5. Len(word) = LengthSize + 1 /\ word[LengthSize + 1] = Interested /\ LengthSize \in Nat
  BY <1>2, InterestedBytes, WireAssumption
<1>6. Len(word) - LengthSize = 1
  BY <1>5
<1> HIDE DEF said
<1>7. said \in Seq(Int) /\ Len(said) = 1 /\ said[1] = Interested
  BY <1>4, <1>5, <1>6, BytesAreInts
<1>8. said = <<Interested>>
  BY <1>7
<1> QED
  BY <1>8 DEF said

LEMMA SaysRequest ==
  ASSUME TypeOK, ClientTape, NEW k \in 2 .. asked
  PROVE  /\ Said(k)[1] = Request /\ Len(Said(k)) = 1 + 3 * LengthSize
         /\ \A n \in 1 .. 3 :
              ValueOf(SubSeq(Said(k), (n - 1) * LengthSize + 2, n * LengthSize + 1))
                = Requests[k - 1][n]
<1> DEFINE L == LengthSize
           said == Said(k)
<1>1. /\ asked \in Nat /\ k \in 1 .. asked /\ k - 1 \in 1 .. Len(Requests) /\ (k + 1) - 2 = k - 1
      /\ k + 1 # 1 /\ k + 1 # 2
  BY WordsTyped DEF TypeOK
<1>2. PICK r : r = Requests[k - 1]
  OBVIOUS
<1>3. r \in [1 .. 3 -> 0 .. IntLimit - 1]
  BY <1>1, <1>2, WordsTyped, Elements
<1>4. PICK word : word = CreateRequest(r[1], r[2], r[3])
  OBVIOUS
<1>5. Word(k + 1) = word
  BY <1>1, <1>2, <1>4 DEF Word
<1>6. /\ said \in Bytes /\ Len(said) = Len(word) - L
      /\ \A i \in 1 .. Len(word) - L : said[i] = word[L + i]
  BY <1>1, <1>5, SaidIs
<1>7. /\ Len(word) = L + (1 + 3 * L) /\ word[L + 1] = Request
      /\ \A i \in 1 .. L :
           /\ word[L + 1 + i] = IntBytes(r[1])[i]
           /\ word[L + 1 + L + i] = IntBytes(r[2])[i]
           /\ word[L + 1 + 2 * L + i] = IntBytes(r[3])[i]
  BY <1>3, <1>4, RequestBytes
<1>8. L \in Nat
  BY WireAssumption
<1> HIDE DEF said, L
<1>9. Len(word) - L = 1 + 3 * L /\ 1 \in 1 .. 1 + 3 * L
  BY <1>7, <1>8
<1>10. said[1] = Request /\ Len(said) = 1 + 3 * L
  BY <1>6, <1>7, <1>9
<1>11. \A i \in 1 .. L :
         /\ said[1 + i] = IntBytes(r[1])[i]
         /\ said[1 + L + i] = IntBytes(r[2])[i]
         /\ said[1 + 2 * L + i] = IntBytes(r[3])[i]
  <2> TAKE i \in 1 .. L
  <2>1. 1 + i \in 1 .. 1 + 3 * L /\ 1 + L + i \in 1 .. 1 + 3 * L /\ 1 + 2 * L + i \in 1 .. 1 + 3 * L
    BY <1>8
  <2>2. /\ L + (1 + i) = L + 1 + i /\ L + (1 + L + i) = L + 1 + L + i
        /\ L + (1 + 2 * L + i) = L + 1 + 2 * L + i
    BY <1>8
  <2>3. /\ said[1 + i] = word[L + (1 + i)] /\ said[1 + L + i] = word[L + (1 + L + i)]
        /\ said[1 + 2 * L + i] = word[L + (1 + 2 * L + i)]
    BY <1>6, <1>9, <2>1
  <2> QED
    BY <1>7, <2>2, <2>3
<1>12. ASSUME NEW n \in 1 .. 3
       PROVE  ValueOf(SubSeq(said, (n - 1) * L + 2, n * L + 1)) = r[n]
  <2> DEFINE at == 1 + (n - 1) * L
  <2>1. /\ at \in Nat /\ at + L <= 1 + 3 * L
        /\ at + 1 = (n - 1) * L + 2 /\ at + L = n * L + 1
    <3>1. n = 1 \/ n = 2 \/ n = 3
      OBVIOUS
    <3> QED
      BY <1>8, <3>1
  <2>2. \A i \in 1 .. L : said[at + i] = IntBytes(r[n])[i]
    <3>1. CASE n = 1
      <4>1. at = 1
        BY <1>8, <3>1
      <4> HIDE DEF at
      <4> QED
        BY <1>11, <3>1, <4>1
    <3>2. CASE n = 2
      <4>1. at = 1 + L
        BY <1>8, <3>2
      <4> HIDE DEF at
      <4> QED
        BY <1>11, <3>2, <4>1
    <3>3. CASE n = 3
      <4>1. at = 1 + 2 * L
        BY <1>8, <3>3
      <4> HIDE DEF at
      <4> QED
        BY <1>11, <3>3, <4>1
    <3> QED
      BY <3>1, <3>2, <3>3
  <2> HIDE DEF at
  <2>3. PICK v : v = r[n]
    OBVIOUS
  <2>4. v \in 0 .. IntLimit - 1
    BY <1>3, <2>3
  <2>5. /\ at + LengthSize <= Len(said)
        /\ \A i \in 1 .. LengthSize : said[at + i] = IntBytes(v)[i]
    BY <1>10, <2>1, <2>2, <2>3 DEF L
  <2>6. ValueOf(SubSeq(said, at + 1, at + LengthSize)) = v
    BY <1>6, <2>1, <2>4, <2>5, NumberAt
  <2>7. ValueOf(SubSeq(said, at + 1, at + L)) = v
    BY <2>6 DEF L
  <2> QED
    BY <2>1, <2>3, <2>7
<1> QED
  BY <1>2, <1>10, <1>12 DEF said, L

\* The client reads what the peer meant.
LEMMA ReadsMeaning ==
  ASSUME TypeOK, OverReadsOnly, NEW k \in 3 .. Len(received),
         SubSeq(received, 1, k) = SubSeq(Bodies, 1, k), IsComplete(messages[k - 1])
  PROVE  Understood(received[k]) = messages[k - 1]
<1>1. /\ messages \in Conversations /\ received \in Seq(Bytes) /\ Len(received) \in Nat
      /\ Bodies \in Seq(Bytes)
  <2>1. messages \in Conversations /\ received \in Seq(Bytes)
    BY DEF TypeOK
  <2> QED
    BY <2>1, BodiesTyped
<1>2. k \in 0 .. Len(received) /\ k - 1 \in 0 .. Len(received) /\ k \in DOMAIN received
  BY <1>1
<1>3. \A i \in 1 .. k : received[i] = Bodies[i]
  BY <1>1, <1>2, BeginningsSame
<1>4. SubSeq(received, 1, k - 1) = SubSeq(Bodies, 1, k - 1)
  <2>1. \A i \in 1 .. k - 1 : received[i] = Bodies[i]
    BY <1>3
  <2> QED
    BY <1>1, <1>2, <2>1, BeginningsSame
<1>5. k <= Len(Bodies) /\ Len(received[k]) < 2 * Len(Bodies[k])
  BY <1>2, <1>4 DEF OverReadsOnly
<1>6. received[k] = Bodies[k]
  BY <1>3
<1> DEFINE m == messages[k - 1]
<1>7. Bodies[k] = Body(m) /\ m \in PeerMessages /\ Len(Bodies[k]) \in Nat
  <2>1. k - 1 \in Nat /\ k - 1 > 0 /\ k - 1 < Len(Bodies) /\ (k - 1) + 1 = k
    BY <1>1, <1>5
  <2>2. /\ Len(Bodies[(k - 1) + 1]) \in Nat
        /\ Bodies[(k - 1) + 1] = Body(m) /\ m \in PeerMessages
    BY <1>1, <2>1, NextBody
  <2> QED
    BY <2>1, <2>2
<1>8. m.id # -1
  <2>1. Bodies[k] # <<>>
    <3>1. Len(Bodies[k]) # 0
      BY <1>5, <1>6, <1>7
    <3> QED
      BY <3>1
  <2> HIDE DEF m
  <2> QED
    BY <1>7, <2>1, BodyOfMessage
<1>9. IsComplete(m)
  OBVIOUS
<1> HIDE DEF m
<1>10. Understood(Body(m)) = m
  BY <1>7, <1>8, <1>9, WholeMessage
<1> QED
  BY <1>6, <1>7, <1>10 DEF m

\* The peer finds the hash of the torrent in the handshake.
LEMMA SaysHash ==
  ASSUME TypeOK, ClientTape
  PROVE  LET start == 1 + Len(Protocol) + Reserved
         IN  HexText(SubSeq(outgoing, start + 1, start + (Len(InfoHash) \div 2))) = InfoHash
<1> DEFINE at == 1 + Len(Protocol) + Reserved
           D == Len(Digest)
           h == HandshakeMessage
<1>1. /\ h \in Bytes /\ Len(h) \in Nat /\ at \in Nat /\ D \in Nat /\ at + D <= Len(h)
      /\ \A i \in 1 .. D : h[at + i] = Digest[i]
  BY HandshakeHasHash DEF HandshakeSize
<1>2. Len(InfoHash) \div 2 = D
  <2>1. Len(InfoHash) = 2 * D
    <3>1. InfoHash = HexText(Digest)
      BY DEF InfoHash
    <3> QED
      BY <1>1, <3>1 DEF HexText
  <2> HIDE DEF D
  <2> QED
    BY <1>1, <2>1
<1>3. PICK start : Tape(Words, outgoing, start)
  BY DEF ClientTape
<1>4. outgoing \in Bytes /\ Len(outgoing) \in Nat /\ asked \in Nat
  BY WordsTyped DEF TypeOK, Bytes
<1> HIDE DEF at, D
<1>5. Len(h) <= Len(outgoing) /\ \A i \in 1 .. Len(h) : outgoing[i] = h[i]
  <2>1. 1 \in 1 .. asked + 1 /\ 1 - 1 = 0
    BY <1>4
  <2>2. Word(1) = h
    BY DEF Word
  <2>3. start[0] = 0
    BY <1>3 DEF Tape
  <2>4. /\ start[1 - 1] \in Nat /\ start[1] \in Nat /\ start[1] <= Len(outgoing)
        /\ start[1] = start[1 - 1] + Len(Word(1))
        /\ \A i \in 1 .. Len(Word(1)) : outgoing[start[1 - 1] + i] = Word(1)[i]
    BY <1>3, <2>1, WordPlace
  <2> HIDE DEF h
  <2>5. start[1] = 0 + Len(h) /\ \A i \in 1 .. Len(h) : outgoing[0 + i] = h[i]
    BY <2>1, <2>2, <2>3, <2>4
  <2>6. \A i \in 1 .. Len(h) : 0 + i = i
    BY <1>1
  <2> QED
    BY <1>1, <2>4, <2>5, <2>6
<1>6. SubSeq(outgoing, at + 1, at + D) = Digest
  <2>1. PICK m, e, d : m = at + 1 /\ e = at + D /\ d = Digest
    OBVIOUS
  <2>2. /\ m \in 1 .. Len(outgoing) + 1 /\ e \in m - 1 .. Len(outgoing)
        /\ e - m + 1 = D /\ m - 1 = at
    BY <1>1, <1>4, <1>5, <2>1
  <2>3. \A i \in 1 .. D : at + i \in 1 .. Len(h)
    BY <1>1
  <2>4. \A i \in 1 .. e - m + 1 : outgoing[m - 1 + i] = d[i]
    BY <1>1, <1>5, <2>1, <2>2, <2>3
  <2>5. d \in Bytes /\ Len(d) = e - m + 1
    <3>1. Digest \in Bytes
      BY DigestIsBytes
    <3> QED
      BY <2>1, <2>2, <3>1 DEF D
  <2>6. SubSeq(outgoing, m, e) = d
    BY <1>4, <2>2, <2>4, <2>5, CutIs
  <2> QED
    BY <2>1, <2>6
<1>7. HexText(SubSeq(outgoing, at + 1, at + (Len(InfoHash) \div 2))) = InfoHash
  BY <1>2, <1>6 DEF InfoHash
<1> QED
  BY <1>7 DEF at

(* Each side reads what the other one meant.  The client sees the fields and the
   block that the peer sent, as long as messages come whole; the peer finds the
   hash of the torrent in the handshake, and then that the client is interested
   and asks for the blocks it needs, one message after the other.           *)
THEOREM MeaningKept == Spec => []MessagesKeepMeaning
<1>1. ASSUME TypeOK, OverReadsOnly, ClientTape
      PROVE  MessagesKeepMeaning
  <2>1. PICK start : Tape(Words, outgoing, start)
    BY <1>1 DEF ClientTape
  <2>2. asked \in Nat /\ asked \in 0 .. asked /\ asked <= Len(Requests) + 1 /\ Len(Requests) \in Nat
    BY <1>1, WordsTyped DEF TypeOK
  <2>3. End[asked] = Len(outgoing)
    <3>1. End[asked] = start[asked + 1]
      <4>1. \A k \in 0 .. asked : End[k] = start[k + 1]
        BY <1>1, <2>1, EndsAreStarts
      <4> QED
        BY <2>2, <4>1
    <3>2. Len(Words) = asked + 1
      BY <1>1, WordsAre DEF TypeOK
    <3> QED
      BY <2>1, <3>1, <3>2 DEF Tape
  <2>4. ASSUME NEW k \in 2 .. asked
        PROVE  [n \in 1 .. 3 |-> ValueOf(SubSeq(Said(k), (n - 1) * LengthSize + 2, n * LengthSize + 1))]
                 = Requests[k - 1]
    <3>1. k - 1 \in 1 .. Len(Requests)
      BY <2>2
    <3>2. PICK r : r = Requests[k - 1]
      OBVIOUS
    <3>3. r \in [1 .. 3 -> 0 .. IntLimit - 1]
      BY <3>1, <3>2, WordsTyped, Elements
    <3>4. \A n \in 1 .. 3 :
            ValueOf(SubSeq(Said(k), (n - 1) * LengthSize + 2, n * LengthSize + 1)) = r[n]
      BY <1>1, <3>2, SaysRequest
    <3> QED
      BY <3>2, <3>3, <3>4
  <2>5. \A k \in 2 .. asked : Said(k)[1] = Request /\ Len(Said(k)) = 1 + 3 * LengthSize
    BY <1>1, SaysRequest
  <2>6. asked > 0 => Said(1) = <<Interested>>
    BY <1>1, SaysInterested
  <2>7. \A k \in 3 .. Len(received) :
           /\ SubSeq(received, 1, k) = SubSeq(Bodies, 1, k)
           /\ IsComplete(messages[k - 1])
           => Understood(received[k]) = messages[k - 1]
    BY <1>1, ReadsMeaning
  <2>8. HexText(SubSeq(outgoing, 1 + Len(Protocol) + Reserved + 1,
                       1 + Len(Protocol) + Reserved + (Len(InfoHash) \div 2))) = InfoHash
    BY <1>1, SaysHash
  <2> QED
    BY <2>3, <2>4, <2>5, <2>6, <2>7, <2>8 DEF MessagesKeepMeaning
<1> QED
  BY <1>1, InitClientTape, NextClientTape, StreamTypeCorrect, OverReadsCorrect, PTL DEF Spec
===============================================================================
