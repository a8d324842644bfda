------------------------------- MODULE WireProofs -------------------------------
(***************************************************************************)
(* The conversions between bytes, digits and numbers give back what they   *)
(* were given: hexDecode and the digits of SHA1::final, bytesToInt and the *)
(* bytes of htonl, for texts of any length and numbers of any size.        *)
(***************************************************************************)
EXTENDS Wire, Induction

LEMMA Concatenation ==
  ASSUME NEW s \in Seq(Int), NEW t \in Seq(Int)
  PROVE  /\ s \o t \in Seq(Int) /\ Len(s \o t) = Len(s) + Len(t)
         /\ \A k \in 1 .. Len(s) : (s \o t)[k] = s[k]
         /\ \A k \in 1 .. Len(t) : (s \o t)[Len(s) + k] = t[k]
<1>1. s \o t \in Seq(Int)
  OBVIOUS
<1>2. Len(s \o t) = Len(s) + Len(t)
  OBVIOUS
<1>3. \A k \in 1 .. Len(s) : (s \o t)[k] = s[k]
  OBVIOUS
<1>4. \A k \in 1 .. Len(t) : (s \o t)[Len(s) + k] = t[k]
  OBVIOUS
<1> QED
  BY <1>1, <1>2, <1>3, <1>4

LEMMA Cut ==
  ASSUME NEW s \in Seq(Int), NEW m \in 1 .. Len(s) + 1, NEW n \in m - 1 .. Len(s)
  PROVE  /\ SubSeq(s, m, n) \in Seq(Int) /\ Len(SubSeq(s, m, n)) = n - m + 1
         /\ \A i \in 1 .. n - m + 1 : SubSeq(s, m, n)[i] = s[m - 1 + i]
<1>1. \A i \in 1 .. n - m + 1 : m - 1 + i \in 1 .. Len(s)
  OBVIOUS
<1>2. SubSeq(s, m, n) \in Seq(Int)
  BY <1>1
<1>3. Len(SubSeq(s, m, n)) = n - m + 1
  OBVIOUS
<1>4. \A i \in 1 .. n - m + 1 : SubSeq(s, m, n)[i] = s[m - 1 + i]
  BY <1>1
<1> QED
  BY <1>2, <1>3, <1>4

LEMMA TimesGrows ==
  ASSUME NEW a \in Nat, NEW b \in Nat, NEW c \in Nat, a <= b
  PROVE  a * c <= b * c
  OBVIOUS

Capped(n) == IF n < IntLimit THEN n ELSE IntLimit

(* bytesToInt goes through the digits, and throws beyond IntLimit.          *)
LEMMA BytesToIntSteps ==
  ASSUME NEW digits \in Seq(Nat)
  PROVE  \E number \in [0 .. Len(digits) -> 0 .. IntLimit] :
           /\ number[0] = 0
           /\ \A k \in 1 .. Len(digits) : number[k] = Capped(number[k - 1] * Base + digits[k])
           /\ BytesToInt(digits) = number[Len(digits)]
<1> DEFINE L == Len(digits)
           V == 0 .. IntLimit
           Step(f, k) == IF k = 0 THEN 0 ELSE Capped(f[k - 1] * Base + digits[k])
           IsNumber(f) == f = [k \in 0 .. L |-> Step(f, k)]
           G == [kv \in (1 .. L) \X V |-> Capped(kv[2] * Base + digits[kv[1]])]
           number == CHOOSE f : IsNumber(f)
<1>1. L \in Nat /\ 0 \in V /\ \A k \in 1 .. L : digits[k] \in Nat
  BY WireAssumption
<1>2. \A n \in Nat : Capped(n) \in V
  BY WireAssumption DEF Capped
<1>3. ASSUME NEW v \in V, NEW k \in 1 .. L
      PROVE  Capped(v * Base + digits[k]) \in V
  <2>1. v * Base + digits[k] \in Nat
    BY <1>1, WireAssumption
  <2> QED
    BY <1>2, <2>1
<1>4. G \in [(1 .. L) \X V -> V] /\ \A k \in 1 .. L, v \in V : G[<<k, v>>] = Capped(v * Base + digits[k])
  BY <1>3
<1>5. PICK f \in [0 .. L -> V] : f[0] = 0 /\ \A k \in 1 .. L : f[k] = G[<<k, f[k - 1]>>]
  <2> HIDE DEF G, V, L
  <2>1. L \in Nat /\ 0 \in V
    BY <1>1
  <2>2. G \in [(1 .. L) \X V -> V]
    BY <1>4
  <2>3. DefinedUpTo(L, V, 0, G)
    BY <2>1, <2>2, StepByStep
  <2> QED
    BY <2>3 DEF DefinedUpTo
<1>6. IsNumber(f)
  <2> SUFFICES ASSUME NEW k \in 0 .. L
               PROVE  f[k] = Step(f, k)
    BY <1>5
  <2>1. CASE k = 0
    BY <1>5, <2>1
  <2>2. CASE k # 0
    <3>1. k \in 1 .. L /\ k - 1 \in 0 .. L
      BY <1>1, <2>2
    <3> HIDE DEF G, V
    <3>2. f[k - 1] \in V
      BY <3>1
    <3> QED
      BY <1>4, <1>5, <2>2, <3>1, <3>2
  <2> QED
    BY <2>1, <2>2
<1>7. IsNumber(number)
  BY <1>6
<1>8. BytesToInt(digits) = number[L]
  BY DEF BytesToInt, Capped
<1> HIDE DEF number, V, G
<1>9. number[0] = 0 /\ \A k \in 1 .. L : number[k] = Capped(number[k - 1] * Base + digits[k])
  BY <1>1, <1>7
<1>10. \A k \in 0 .. L : number[k] \in V
  <2> DEFINE T == {k \in 0 .. L : number[k] \in V}
  <2>1. 0 \in T
    BY <1>1, <1>9
  <2>2. ASSUME NEW k \in 1 .. L, k - 1 \in T
        PROVE  k \in T
    BY <1>3, <1>9, <2>2
  <2> HIDE DEF T
  <2>3. \A k \in 0 .. L : k \in T
    BY <1>1, <2>1, <2>2, CountUp
  <2> QED
    BY <2>3 DEF T
<1>11. number \in [0 .. L -> V]
  BY <1>7, <1>10
<1> QED
  BY <1>8, <1>9, <1>11 DEF V
(* The bytes of a number are the rests of repeated division, last one first. *)
LEMMA IntBytesSteps ==
  ASSUME NEW n \in Nat
  PROVE  \E rest \in [0 .. LengthSize -> Nat] :
           /\ rest[0] = n
           /\ \A j \in 1 .. LengthSize : rest[j] = rest[j - 1] \div Base
           /\ IntBytes(n) = [k \in 1 .. LengthSize |-> rest[LengthSize - k] % Base]
<1> DEFINE L == LengthSize
           Step(f, k) == IF k = 0 THEN n ELSE f[k - 1] \div Base
           IsRest(f) == f = [k \in 0 .. L |-> Step(f, k)]
           G == [kv \in (1 .. L) \X Nat |-> kv[2] \div Base]
           rest == CHOOSE f : IsRest(f)
<1>1. L \in Nat
  BY WireAssumption
<1>2. \A v \in Nat : v \div Base \in Nat
  BY WireAssumption
<1>3. G \in [(1 .. L) \X Nat -> Nat] /\ \A k \in 1 .. L, v \in Nat : G[<<k, v>>] = v \div Base
  BY <1>2
<1>4. PICK f \in [0 .. L -> Nat] : f[0] = n /\ \A k \in 1 .. L : f[k] = G[<<k, f[k - 1]>>]
  <2> HIDE DEF G, L
  <2>1. DefinedUpTo(L, Nat, n, G)
    BY <1>1, <1>3, StepByStep
  <2> QED
    BY <2>1 DEF DefinedUpTo
<1>5. IsRest(f)
  <2> SUFFICES ASSUME NEW k \in 0 .. L
               PROVE  f[k] = Step(f, k)
    BY <1>4
  <2>1. CASE k = 0
    BY <1>4, <2>1
  <2>2. CASE k # 0
    <3>1. k \in 1 .. L /\ k - 1 \in 0 .. L
      BY <1>1, <2>2
    <3> HIDE DEF G
    <3>2. f[k - 1] \in Nat
      BY <3>1
    <3> QED
      BY <1>3, <1>4, <2>2, <3>1, <3>2
  <2> QED
    BY <2>1, <2>2
<1>6. IsRest(rest)
  BY <1>5
<1>7. IntBytes(n) = [k \in 1 .. L |-> rest[L - k] % Base]
  BY DEF IntBytes
<1> HIDE DEF rest, G
<1>8. rest[0] = n /\ \A k \in 1 .. L : rest[k] = rest[k - 1] \div Base
  BY <1>1, <1>6
<1>9. \A k \in 0 .. L : rest[k] \in Nat
  <2> DEFINE T == {k \in 0 .. L : rest[k] \in Nat}
  <2>1. 0 \in T
    BY <1>1, <1>8
  <2>2. ASSUME NEW k \in 1 .. L, k - 1 \in T
        PROVE  k \in T
    <3>1. rest[k - 1] \in Nat
      BY <2>2
    <3>2. rest[k - 1] \div Base \in Nat
      BY <1>2, <3>1
    <3> QED
      BY <1>1, <1>8, <3>2
  <2> HIDE DEF T
  <2>3. \A k \in 0 .. L : k \in T
    BY <1>1, <2>1, <2>2, CountUp
  <2> QED
    BY <2>3 DEF T
<1>10. rest \in [0 .. L -> Nat]
  BY <1>6, <1>9
<1> QED
  BY <1>7, <1>8, <1>10

LEMMA CapacitySteps ==
  \E power \in [0 .. LengthSize -> Nat] :
     /\ power[0] = 1
     /\ \A k \in 1 .. LengthSize : power[k] = Base * power[k - 1]
     /\ Capacity = power[LengthSize]
<1> DEFINE L == LengthSize
           Step(f, k) == IF k = 0 THEN 1 ELSE Base * f[k - 1]
           IsPower(f) == f = [k \in 0 .. L |-> Step(f, k)]
           G == [kv \in (1 .. L) \X Nat |-> Base * kv[2]]
           power == CHOOSE f : IsPower(f)
<1>1. L \in Nat
  BY WireAssumption
<1>2. \A v \in Nat : Base * v \in Nat
  BY WireAssumption
<1>3. G \in [(1 .. L) \X Nat -> Nat] /\ \A k \in 1 .. L, v \in Nat : G[<<k, v>>] = Base * v
  BY <1>2
<1>4. PICK f \in [0 .. L -> Nat] : f[0] = 1 /\ \A k \in 1 .. L : f[k] = G[<<k, f[k - 1]>>]
  <2> HIDE DEF G, L
  <2>1. DefinedUpTo(L, Nat, 1, G)
    BY <1>1, <1>3, StepByStep
  <2> QED
    BY <2>1 DEF DefinedUpTo
<1>5. IsPower(f)
  <2> SUFFICES ASSUME NEW k \in 0 .. L
               PROVE  f[k] = Step(f, k)
    BY <1>4
  <2>1. CASE k = 0
    BY <1>4, <2>1
  <2>2. CASE k # 0
    <3>1. k \in 1 .. L /\ k - 1 \in 0 .. L
      BY <1>1, <2>2
    <3> HIDE DEF G
    <3>2. f[k - 1] \in Nat
      BY <3>1
    <3> QED
      BY <1>3, <1>4, <2>2, <3>1, <3>2
  <2> QED
    BY <2>1, <2>2
<1>6. IsPower(power)
  BY <1>5
<1>7. Capacity = power[L]
  BY DEF Capacity
<1> HIDE DEF power, G
<1>8. power[0] = 1 /\ \A k \in 1 .. L : power[k] = Base * power[k - 1]
  BY <1>1, <1>6
<1>9. \A k \in 0 .. L : power[k] \in Nat
  <2> DEFINE T == {k \in 0 .. L : power[k] \in Nat}
  <2>1. 0 \in T
    BY <1>1, <1>8
  <2>2. ASSUME NEW k \in 1 .. L, k - 1 \in T
        PROVE  k \in T
    <3>1. power[k - 1] \in Nat
      BY <2>2
    <3>2. Base * power[k - 1] \in Nat
      BY <1>2, <3>1
    <3> QED
      BY <1>1, <1>8, <3>2
  <2> HIDE DEF T
  <2>3. \A k \in 0 .. L : k \in T
    BY <1>1, <2>1, <2>2, CountUp
  <2> QED
    BY <2>3 DEF T
<1>10. power \in [0 .. L -> Nat]
  BY <1>6, <1>9
<1> QED
  BY <1>7, <1>8, <1>10

LEMMA DivisionRest ==
  ASSUME NEW a \in Nat, NEW b \in Nat, b > 0
  PROVE  /\ a \div b \in Nat /\ a % b \in 0 .. b - 1
         /\ (a \div b) * b + (a % b) = a
  OBVIOUS

LEMMA DivisionBelow ==
  ASSUME NEW a \in Nat, NEW b \in Nat, NEW c \in Nat, b > 0, a < b * c
  PROVE  a \div b < c
<1>1. a \div b \in Nat /\ a % b \in 0 .. b - 1 /\ (a \div b) * b + (a % b) = a
  BY DivisionRest
<1> SUFFICES ASSUME ~(a \div b < c)
             PROVE  FALSE
  OBVIOUS
<1>2. c * b <= (a \div b) * b
  BY <1>1, TimesGrows
<1> QED
  BY <1>1, <1>2

(* The client and its peer read back the numbers they send each other: htonl
   and bytesToInt, for every number that an int holds. *)
THEOREM NumberRoundTrip ==
  ASSUME NEW n \in Nat, n < IntLimit
  PROVE  /\ IntBytes(n) \in Seq(0 .. Base - 1) /\ Len(IntBytes(n)) = LengthSize
         /\ BytesToInt(IntBytes(n)) = n
<1> DEFINE L == LengthSize
           bytes == IntBytes(n)
<1>1. PICK rest \in [0 .. L -> Nat] :
           /\ rest[0] = n
           /\ \A j \in 1 .. L : rest[j] = rest[j - 1] \div Base
           /\ bytes = [k \in 1 .. L |-> rest[L - k] % Base]
  BY IntBytesSteps
<1>2. PICK power \in [0 .. L -> Nat] :
           /\ power[0] = 1
           /\ \A k \in 1 .. L : power[k] = Base * power[k - 1]
           /\ Capacity = power[L]
  BY CapacitySteps
<1>3. L \in Nat /\ Base \in Nat /\ Base > 1 /\ Base > 0 /\ 1 \in Nat /\ 1 <= Base
  BY WireAssumption
<1> HIDE DEF bytes, L
<1>4. \A j \in 0 .. L : rest[j] < power[L - j]
  <2> DEFINE T == {j \in 0 .. L : rest[j] < power[L - j]}
  <2>1. 0 \in T
    <3>1. n < Capacity
      <4>1. L \in 0 .. L
        BY <1>3
      <4>2. Capacity \in Nat
        BY <1>2, <4>1
      <4> QED
        BY <4>2, WireAssumption
    <3>2. L - 0 = L
      BY <1>3
    <3> QED
      BY <1>1, <1>2, <1>3, <3>1, <3>2
  <2>2. ASSUME NEW j \in 1 .. L, j - 1 \in T
        PROVE  j \in T
    <3>1. rest[j - 1] < power[L - j + 1] /\ rest[j] = rest[j - 1] \div Base
      <4>1. L - (j - 1) = L - j + 1
        BY <1>3
      <4> QED
        BY <1>1, <2>2, <4>1
    <3>2. power[L - j + 1] = Base * power[L - j]
      <4>1. L - j + 1 \in 1 .. L /\ (L - j + 1) - 1 = L - j
        BY <1>3
      <4> QED
        BY <1>2, <4>1
    <3>3. rest[j - 1] \in Nat /\ power[L - j] \in Nat
      <4>1. j - 1 \in 0 .. L /\ L - j \in 0 .. L
        BY <1>3
      <4> QED
        BY <4>1
    <3>4. rest[j - 1] < Base * power[L - j]
      BY <3>1, <3>2
    <3>5. rest[j - 1] \div Base < power[L - j]
      BY <1>3, <3>3, <3>4, DivisionBelow
    <3> QED
      BY <1>3, <3>1, <3>5
  <2> HIDE DEF T
  <2>3. \A j \in 0 .. L : j \in T
    BY <1>3, <2>1, <2>2, CountUp
  <2> QED
    BY <2>3 DEF T
<1>5. rest[L] = 0
  <2>1. L \in 0 .. L /\ L - L = 0
    BY <1>3
  <2>2. rest[L] < power[L - L] /\ rest[L] \in Nat
    BY <1>4, <2>1
  <2> QED
    BY <1>2, <2>1, <2>2
<1>6. \A k \in 1 .. L : bytes[k] = rest[L - k] % Base /\ bytes[k] \in 0 .. Base - 1
  <2> TAKE k \in 1 .. L
  <2>1. L - k \in 0 .. L
    BY <1>3
  <2>2. rest[L - k] \in Nat
    BY <2>1
  <2> QED
    BY <1>1, <1>3, <2>2, DivisionRest
<1>7. bytes \in Seq(0 .. Base - 1) /\ Len(bytes) = L /\ bytes \in Seq(Nat)
  <2>1. bytes = [k \in 1 .. L |-> bytes[k]]
    BY <1>1
  <2>2. \A k \in 1 .. L : bytes[k] \in 0 .. Base - 1 /\ bytes[k] \in Nat
    BY <1>3, <1>6
  <2>3. bytes \in [1 .. L -> 0 .. Base - 1] /\ bytes \in [1 .. L -> Nat]
    BY <2>1, <2>2
  <2> QED
    BY <1>3, <2>3, FunctionIsSeq
<1>8. PICK number \in [0 .. L -> 0 .. IntLimit] :
           /\ number[0] = 0
           /\ \A k \in 1 .. L : number[k] = Capped(number[k - 1] * Base + bytes[k])
           /\ BytesToInt(bytes) = number[L]
  BY <1>7, BytesToIntSteps
<1>9. \A j \in 0 .. L : rest[j] <= n
  <2> DEFINE T == {j \in 0 .. L : rest[j] <= n}
  <2>1. 0 \in T
    BY <1>1, <1>3
  <2>2. ASSUME NEW j \in 1 .. L, j - 1 \in T
        PROVE  j \in T
    <3>1. rest[j - 1] \in Nat /\ rest[j - 1] <= n /\ rest[j] = rest[j - 1] \div Base
      <4>1. j - 1 \in 0 .. L
        BY <1>3
      <4> QED
        BY <1>1, <2>2, <4>1
    <3> DEFINE v == rest[j - 1]
    <3> HIDE DEF v
    <3>2. v \in Nat /\ v + 1 \in Nat
      BY <3>1 DEF v
    <3>3. v < Base * (v + 1)
      <4>1. 1 * (v + 1) <= Base * (v + 1)
        BY <1>3, <3>2, TimesGrows
      <4> QED
        BY <1>3, <3>2, <4>1
    <3>4. v \div Base < v + 1 /\ v \div Base \in Nat
      BY <1>3, <3>2, <3>3, DivisionBelow, DivisionRest
    <3>5. v \div Base <= n
      BY <3>1, <3>2, <3>4 DEF v
    <3> QED
      BY <1>3, <3>1, <3>5 DEF v
  <2> HIDE DEF T
  <2>3. \A j \in 0 .. L : j \in T
    BY <1>3, <2>1, <2>2, CountUp
  <2> QED
    BY <2>3 DEF T
<1>10. \A k \in 0 .. L : number[k] = rest[L - k]
  <2> DEFINE T == {k \in 0 .. L : number[k] = rest[L - k]}
  <2>1. 0 \in T
    <3>1. L - 0 = L
      BY <1>3
    <3> QED
      BY <1>3, <1>5, <1>8, <3>1
  <2>2. ASSUME NEW k \in 1 .. L, k - 1 \in T
        PROVE  k \in T
    <3>1. L - k \in 0 .. L /\ L - k + 1 \in 1 .. L /\ (L - k + 1) - 1 = L - k
          /\ L - (k - 1) = L - k + 1
      BY <1>3
    <3>2. rest[L - k] \in Nat /\ rest[L - k] <= n
      BY <1>9, <3>1
    <3>3. number[k - 1] = rest[L - k] \div Base
      BY <1>1, <2>2, <3>1
    <3>4. number[k] = Capped((rest[L - k] \div Base) * Base + (rest[L - k] % Base))
      BY <1>6, <1>8, <3>3
    <3>5. number[k] = Capped(rest[L - k])
      <4>1. (rest[L - k] \div Base) * Base + (rest[L - k] % Base) = rest[L - k]
        BY <1>3, <3>2, DivisionRest
      <4> QED
        BY <3>4, <4>1
    <3> QED
      BY <3>2, <3>5, WireAssumption DEF Capped
  <2> HIDE DEF T
  <2>3. \A k \in 0 .. L : k \in T
    BY <1>3, <2>1, <2>2, CountUp
  <2> QED
    BY <2>3 DEF T
<1>11. number[L] = n
  <2>1. L \in 0 .. L /\ L - L = 0
    BY <1>3
  <2> QED
    BY <1>1, <1>10, <2>1
<1> QED
  BY <1>7, <1>8, <1>11 DEF L, bytes

-----------------------------------------------------------------------------
(* Bytes and hexadecimal digits.                                          *)

(* Two digits, whatever made them, are read back as the number: strtol.      *)
LEMMA DigitOfHex ==
  ASSUME NEW n \in 0 .. 15
  PROVE  DigitValue(HexDigit(n)) = n
  BY DEF DigitValue, HexDigit, Digit0, Lettera, LetterA

LEMMA HexDigits ==
  ASSUME NEW byte \in 0 .. 255
  PROVE  /\ byte \div 16 \in 0 .. 15 /\ byte % 16 \in 0 .. 15
         /\ byte = 16 * (byte \div 16) + (byte % 16)
  OBVIOUS

LEMMA TwoDigits ==
  ASSUME NEW s \in Seq(Int), Len(s) = 2, \A k \in 1 .. 2 : DigitValue(s[k]) \in 0 .. 15
  PROVE  StrToL(s) = 16 * DigitValue(s[1]) + DigitValue(s[2])
<1> DEFINE Step(f, k) == IF k = 0 THEN 0 ELSE 16 * f[k - 1] + DigitValue(s[k])
           IsValue(f) == f = [k \in 0 .. Len(s) |-> Step(f, k)]
           witness == [k \in 0 .. Len(s) |->
                         IF k = 0 THEN 0
                         ELSE IF k = 1 THEN DigitValue(s[1])
                         ELSE 16 * DigitValue(s[1]) + DigitValue(s[2])]
           value == CHOOSE f : IsValue(f)
           stops == {k \in DOMAIN s : DigitValue(s[k]) < 0}
<1>1. IsValue(witness)
  <2> SUFFICES ASSUME NEW k \in 0 .. Len(s)
               PROVE  witness[k] = Step(witness, k)
    OBVIOUS
  <2>1. k \in {0, 1, 2}
    OBVIOUS
  <2> QED
    BY <2>1
<1>2. IsValue(value)
  BY <1>1
<1>3. value[2] = 16 * DigitValue(s[1]) + DigitValue(s[2])
  <2> HIDE DEF value
  <2>0. DigitValue(s[1]) \in Int /\ DigitValue(s[2]) \in Int
    OBVIOUS
  <2>1. value[0] = 0 /\ value[1] = 16 * value[0] + DigitValue(s[1])
        /\ value[2] = 16 * value[1] + DigitValue(s[2])
    BY <1>2
  <2> QED
    BY <2>0, <2>1
<1>4. stops = {}
  OBVIOUS
<1>5. StrToL(s) = value[2]
  BY <1>4 DEF StrToL
<1> QED
  BY <1>3, <1>5
(* hexDecode gives back the bytes whose digits SHA1::final has written, for a
   digest of any length. *)
THEOREM HexRoundTrip ==
  ASSUME NEW d \in Seq(0 .. 255)
  PROVE  HexDecode(HexText(d)) = d
<1> DEFINE text == HexText(d)
           pair(k) == SubSeq(text, 2 * k - 1, 2 * k)
<1>0. \A i \in 1 .. Len(d) : d[i] \in 0 .. 255
  BY Elements
<1>1. text \in Seq(Int) /\ Len(text) = 2 * Len(d)
  <2> DEFINE n(k) == IF k % 2 = 1 THEN d[(k + 1) \div 2] \div 16 ELSE d[(k + 1) \div 2] % 16
  <2>1. text = [k \in 1 .. 2 * Len(d) |-> HexDigit(n(k))]
    BY DEF HexText
  <2>2. ASSUME NEW k \in 1 .. 2 * Len(d)
        PROVE  HexDigit(n(k)) \in Int
    <3>1. (k + 1) \div 2 \in 1 .. Len(d)
      OBVIOUS
    <3>2. d[(k + 1) \div 2] \in 0 .. 255
      BY <3>1, <1>0
    <3>3. d[(k + 1) \div 2] \div 16 \in Int /\ d[(k + 1) \div 2] % 16 \in Int
      <4>1. \A v \in 0 .. 255 : v \div 16 \in Int /\ v % 16 \in Int
        OBVIOUS
      <4> QED
        BY <3>2, <4>1
    <3>4. n(k) \in Int
      BY <3>3
    <3> QED
      BY <3>4 DEF HexDigit, Digit0, Lettera
  <2> HIDE DEF n, text
  <2> QED
    BY <2>1, <2>2
<1>2. ASSUME NEW k \in 1 .. Len(d)
      PROVE  StrToL(pair(k)) = d[k]
  <2> DEFINE s == pair(k)
  <2>1. /\ d[k] \div 16 \in 0 .. 15 /\ d[k] % 16 \in 0 .. 15
        /\ d[k] = 16 * (d[k] \div 16) + (d[k] % 16)
    <3>1. d[k] \in 0 .. 255
      BY <1>0
    <3> QED
      BY <3>1, HexDigits
  <2>2. 2 * k - 1 \in 1 .. 2 * Len(d) /\ 2 * k \in 1 .. 2 * Len(d)
    OBVIOUS
  <2>3. text[2 * k - 1] = HexDigit(d[k] \div 16)
    <3>1. ((2 * k - 1) + 1) \div 2 = k /\ (2 * k - 1) % 2 = 1
      OBVIOUS
    <3> QED
      BY <2>2, <3>1 DEF HexText
  <2>4. text[2 * k] = HexDigit(d[k] % 16)
    <3>1. (2 * k + 1) \div 2 = k /\ (2 * k) % 2 = 0
      OBVIOUS
    <3> QED
      BY <2>2, <3>1 DEF HexText
  <2>5. s \in Seq(Int) /\ Len(s) = 2 /\ s[1] = text[2 * k - 1] /\ s[2] = text[2 * k]
    <3> HIDE DEF text
    <3>1. 2 * k - 1 \in 1 .. Len(text) + 1 /\ 2 * k \in (2 * k - 1) - 1 .. Len(text)
      BY <1>1, <2>2
    <3>2. 2 * k - (2 * k - 1) + 1 = 2 /\ (2 * k - 1) - 1 + 1 = 2 * k - 1 /\ (2 * k - 1) - 1 + 2 = 2 * k
      OBVIOUS
    <3>3. s \in Seq(Int) /\ Len(s) = 2 /\ \A i \in 1 .. 2 : s[i] = text[(2 * k - 1) - 1 + i]
      <4> HIDE DEF s
      <4>1. /\ s \in Seq(Int) /\ Len(s) = 2 * k - (2 * k - 1) + 1
            /\ \A i \in 1 .. 2 * k - (2 * k - 1) + 1 : s[i] = text[(2 * k - 1) - 1 + i]
        BY <1>1, <3>1, Cut DEF s
      <4> QED
        BY <3>2, <4>1
    <3> HIDE DEF s
    <3> QED
      BY <3>2, <3>3
  <2>6. DigitValue(s[1]) = d[k] \div 16 /\ DigitValue(s[2]) = d[k] % 16
    BY <2>1, <2>3, <2>4, <2>5, DigitOfHex
  <2> HIDE DEF s
  <2>7. StrToL(s) = 16 * (d[k] \div 16) + (d[k] % 16)
    <3>1. \A i \in 1 .. 2 : DigitValue(s[i]) \in 0 .. 15
      BY <2>1, <2>6
    <3>2. StrToL(s) = 16 * DigitValue(s[1]) + DigitValue(s[2])
      BY <2>5, <3>1, TwoDigits
    <3> QED
      BY <2>6, <3>2
  <2> QED
    BY <2>1, <2>7 DEF s
<1> HIDE DEF text
<1>3. HexDecode(text) = [k \in 1 .. Len(d) |-> StrToL(pair(k))]
  <2>1. (Len(text) + 1) \div 2 = Len(d)
    BY <1>1
  <2>2. \A k \in 1 .. Len(d) : ~(2 * k > Len(text))
    BY <1>1
  <2> QED
    BY <2>1, <2>2 DEF HexDecode
<1>4. [k \in 1 .. Len(d) |-> StrToL(pair(k))] = d
  BY <1>2
<1> QED
  BY <1>3, <1>4 DEF text

===============================================================================
