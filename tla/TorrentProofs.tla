----------------------------- MODULE TorrentProofs -----------------------------
(***************************************************************************)
(* What holds of TorrentFile for every torrent file, and of the SHA-1      *)
(* library under it: transform is the compression function of FIPS 180,    *)
(* update and final give it the padded message; and of the decoder: what   *)
(* it returns is what the text means.                                      *)
(***************************************************************************)
EXTENDS TorrentFile, Induction, SequenceTheorems, FiniteSetTheorems

-----------------------------------------------------------------------------
(* Addition of words                                                       *)

\* A carry goes on from a position as the three bits at it say.
LEMMA CarryStep ==
  ASSUME NEW A \in Words, NEW B \in Words, NEW b \in Positions
  PROVE  Carry(A, B, b + 1) <=> \/ b \in A /\ b \in B
                                \/ (b \in A \/ b \in B) /\ Carry(A, B, b)
<1> USE DEF Words, Positions
<1>1. ASSUME b \in A, b \in B
      PROVE  Carry(A, B, b + 1)
  <2>1. b \in A \cap B /\ b < b + 1 /\ b + 1 .. (b + 1) - 1 \subseteq A \cup B
    BY <1>1
  <2> QED
    BY <2>1 DEF Carry
<1>2. ASSUME b \in A \/ b \in B, Carry(A, B, b)
      PROVE  Carry(A, B, b + 1)
  <2>1. PICK k \in A \cap B : k < b /\ k + 1 .. b - 1 \subseteq A \cup B
    BY <1>2 DEF Carry
  <2>2. \A i \in k + 1 .. (b + 1) - 1 : i \in k + 1 .. b - 1 \/ i = b
    BY <2>1
  <2>3. k < b + 1 /\ k + 1 .. (b + 1) - 1 \subseteq A \cup B
    BY <1>2, <2>1, <2>2
  <2> QED
    BY <2>3 DEF Carry
<1>3. ASSUME Carry(A, B, b + 1), ~(b \in A /\ b \in B)
      PROVE  (b \in A \/ b \in B) /\ Carry(A, B, b)
  <2>1. PICK k \in A \cap B : k < b + 1 /\ k + 1 .. (b + 1) - 1 \subseteq A \cup B
    BY <1>3 DEF Carry
  <2>2. k < b
    BY <1>3, <2>1
  <2>3. b \in k + 1 .. (b + 1) - 1 /\ k + 1 .. b - 1 \subseteq k + 1 .. (b + 1) - 1
    BY <2>1, <2>2
  <2> QED
    BY <2>1, <2>2, <2>3 DEF Carry
<1> QED
  BY <1>1, <1>2, <1>3

LEMMA NoCarryIn ==
  ASSUME NEW A \in Words, NEW B \in Words
  PROVE  ~Carry(A, B, 0)
BY DEF Carry, Words, Positions

\* A bit of a sum is the parity of the two bits and the carry.
LEMMA SumBit ==
  ASSUME NEW A, NEW B, NEW b \in Positions
  PROVE  b \in Add(A, B) <=> ((b \in A <=> b \in B) <=> Carry(A, B, b))
<1>1. b \in Xor(A, B) <=> ~(b \in A <=> b \in B)
  BY DEF Xor
<1>2. b \in Add(A, B) <=> (b \in Xor(A, B) <=> ~Carry(A, B, b))
  BY DEF Add
<1>3. Carry(A, B, b) \in BOOLEAN
  BY DEF Carry
<1> QED
  BY <1>1, <1>2, <1>3

LEMMA WordTypes ==
  ASSUME NEW A \in Words, NEW B \in Words, NEW n \in Nat
  PROVE  /\ Add(A, B) \in Words
         /\ Xor(A, B) \in Words
         /\ rol(A, n) \in Words
BY DEF Words, Positions, Add, Xor, rol

LEMMA AddCommutes ==
  ASSUME NEW A \in Words, NEW B \in Words
  PROVE  Add(A, B) = Add(B, A)
BY DEF Add, Carry, Xor

\* The carries of A + B and then C are those of B + C and then A, though not in
\* the same order: at each position there are as many of them.
LEMMA AddAssociates ==
  ASSUME NEW A \in Words, NEW B \in Words, NEW C \in Words
  PROVE  Add(Add(A, B), C) = Add(A, Add(B, C))
<1> DEFINE D == Add(A, B)
           E == Add(B, C)
           P == {b \in 0 .. 32 : Carry(A, B, b)}
           Q == {b \in 0 .. 32 : Carry(D, C, b)}
           R1 == {b \in 0 .. 32 : Carry(B, C, b)}
           S == {b \in 0 .. 32 : Carry(A, E, b)}
           T == {b \in 0 .. 32 : /\ b \in P /\ b \in Q <=> b \in R1 /\ b \in S
                                 /\ b \in P \/ b \in Q <=> b \in R1 \/ b \in S}
<1>1. D \in Words /\ E \in Words
  BY WordTypes
<1>2. 0 \in T
  <2>1. 0 \notin P /\ 0 \notin Q /\ 0 \notin R1 /\ 0 \notin S
    BY <1>1, NoCarryIn
  <2> QED
    BY <2>1
<1>3. \A b \in Positions : b \in D <=> ((b \in A <=> b \in B) <=> b \in P)
  BY SumBit DEF Positions
<1>4. \A b \in Positions : b \in E <=> ((b \in B <=> b \in C) <=> b \in R1)
  BY SumBit DEF Positions
<1>5. \A b \in Positions : b \in Add(D, C) <=> ((b \in D <=> b \in C) <=> b \in Q)
  BY SumBit DEF Positions
<1>6. \A b \in Positions : b \in Add(A, E) <=> ((b \in A <=> b \in E) <=> b \in S)
  BY SumBit DEF Positions
<1> DEFINE After(b, X, Y, Z) == b + 1 \in Z <=> (b \in X /\ b \in Y) \/ ((b \in X \/ b \in Y) /\ b \in Z)
<1>7. \A b \in Positions : After(b, A, B, P) /\ After(b, D, C, Q)
                           /\ After(b, B, C, R1) /\ After(b, A, E, S)
  <2> SUFFICES ASSUME NEW b \in Positions
               PROVE  After(b, A, B, P) /\ After(b, D, C, Q)
                           /\ After(b, B, C, R1) /\ After(b, A, E, S)
    OBVIOUS
  <2>1. b \in 0 .. 32 /\ b + 1 \in 0 .. 32
    BY DEF Positions
  <2> HIDE DEF D, E
  <2>2. After(b, A, B, P)
    BY <2>1, CarryStep
  <2>3. After(b, D, C, Q)
    BY <1>1, <2>1, CarryStep
  <2>4. After(b, B, C, R1)
    BY <2>1, CarryStep
  <2>5. After(b, A, E, S)
    BY <1>1, <2>1, CarryStep
  <2> QED
    BY <2>2, <2>3, <2>4, <2>5
<1> HIDE DEF D, E, P, Q, R1, S
<1>8. ASSUME NEW k \in 1 .. 32, k - 1 \in T
      PROVE  k \in T
  <2>1. PICK b \in Positions : k = b + 1 /\ b = k - 1
    <3>1. k - 1 \in Positions /\ k = (k - 1) + 1
      BY DEF Positions
    <3> QED
      BY <3>1
  <2>2. After(b, A, B, P) /\ After(b, D, C, Q) /\ After(b, B, C, R1) /\ After(b, A, E, S)
    BY <1>7
  <2>3. /\ b \in D <=> ((b \in A <=> b \in B) <=> b \in P)
        /\ b \in E <=> ((b \in B <=> b \in C) <=> b \in R1)
    BY <1>3, <1>4
  <2>4. /\ b \in P /\ b \in Q <=> b \in R1 /\ b \in S
        /\ b \in P \/ b \in Q <=> b \in R1 \/ b \in S
    BY <1>8, <2>1
  <2>5. /\ b + 1 \in P /\ b + 1 \in Q <=> b + 1 \in R1 /\ b + 1 \in S
        /\ b + 1 \in P \/ b + 1 \in Q <=> b + 1 \in R1 \/ b + 1 \in S
    BY <2>2, <2>3, <2>4
  <2> QED
    BY <2>1, <2>5
<1>9. \A b \in 0 .. 32 : b \in T
  <2> HIDE DEF T
  <2> QED
    BY <1>2, <1>8, CountUp
<1>10. \A b \in Positions : b \in Add(D, C) <=> b \in Add(A, E)
  <2> SUFFICES ASSUME NEW b \in Positions
               PROVE  b \in Add(D, C) <=> b \in Add(A, E)
    OBVIOUS
  <2>1. b \in T
    BY <1>9 DEF Positions
  <2>2. /\ b \in P /\ b \in Q <=> b \in R1 /\ b \in S
        /\ b \in P \/ b \in Q <=> b \in R1 \/ b \in S
    BY <2>1
  <2>3. /\ b \in D <=> ((b \in A <=> b \in B) <=> b \in P)
        /\ b \in E <=> ((b \in B <=> b \in C) <=> b \in R1)
        /\ b \in Add(D, C) <=> ((b \in D <=> b \in C) <=> b \in Q)
        /\ b \in Add(A, E) <=> ((b \in A <=> b \in E) <=> b \in S)
    BY <1>3, <1>4, <1>5, <1>6
  <2> QED
    BY <2>2, <2>3
<1>11. Add(D, C) \in Words /\ Add(A, E) \in Words
  BY <1>1, WordTypes
<1> QED
  BY <1>10, <1>11 DEF D, E, Words
\* The five addends of a step, in the order of the code and in that of the
\* standard.
LEMMA SumsAgree ==
  ASSUME NEW e \in Words, NEW f \in Words, NEW w \in Words, NEW c \in Words, NEW r \in Words
  PROVE  SumOf(e, f, w, c, r) = SumOf(r, f, e, w, c)
<1> DEFINE X == Add(e, f)
           Y == Add(X, w)
           Z == Add(Y, c)
<1>1. X \in Words /\ Y \in Words /\ Z \in Words
  BY WordTypes
<1> HIDE DEF Y, Z
<1>2. Add(Z, r) = Add(r, Z)
  BY <1>1, AddCommutes
<1>3. Add(r, Z) = Add(Add(r, Y), c)
  BY <1>1, AddAssociates DEF Z
<1> HIDE DEF X
<1>4. Add(r, Y) = Add(Add(r, X), w)
  BY <1>1, AddAssociates DEF Y
<1>5. X = Add(f, e)
  BY AddCommutes DEF X
<1>6. Add(r, Add(f, e)) = Add(Add(r, f), e)
  BY AddAssociates
<1> QED
  BY <1>2, <1>3, <1>4, <1>5, <1>6 DEF SumOf, X, Y, Z

LEMMA SumType ==
  ASSUME NEW v \in Words, NEW w \in Words, NEW x \in Words, NEW y \in Words, NEW z \in Words
  PROVE  SumOf(v, w, x, y, z) \in Words
<1>1. Add(v, w) \in Words
  BY WordTypes
<1>2. Add(Add(v, w), x) \in Words
  BY <1>1, WordTypes
<1>3. Add(Add(Add(v, w), x), y) \in Words
  BY <1>2, WordTypes
<1> QED
  BY <1>3, WordTypes DEF SumOf

-----------------------------------------------------------------------------
(* The rounds of transform                                                 *)

LEMMA AddendType ==
  ASSUME NEW t \in 0 .. 79
  PROVE  Addend(t) \in Words
<1>1. \A high, low \in Nat : Word(high, low) \in Words
  BY DEF Word, Words
<1>2. CASE t < 20
  BY <1>1, <1>2 DEF Addend
<1>3. CASE t \in 20 .. 39
  BY <1>1, <1>3 DEF Addend
<1>4. CASE t \in 40 .. 59
  BY <1>1, <1>4 DEF Addend
<1>5. CASE t \in 60 .. 79
  BY <1>1, <1>5 DEF Addend
<1> QED
  BY <1>2, <1>3, <1>4, <1>5

\* What R0 to R4 make of three words is what the standard makes of them.
LEMMA MixesAgree ==
  ASSUME NEW t \in 0 .. 79, NEW w \in Words, NEW x \in Words, NEW y \in Words
  PROVE  /\ Mix(t, w, x, y) \in Words
         /\ t < 20 => Mix(t, w, x, y) = Ch(w, x, y)
         /\ t \in 40 .. 59 => Mix(t, w, x, y) = Maj(w, x, y)
         /\ ~(t < 20) /\ t \notin 40 .. 59 => Mix(t, w, x, y) = Parity(w, x, y)
<1>1. CASE t < 20
  <2>1. Mix(t, w, x, y) = Xor(w \cap Xor(x, y), y)
    BY <1>1 DEF Mix
  <2>2. Xor(w \cap Xor(x, y), y) = Ch(w, x, y)
    BY DEF Xor, Ch
  <2> QED
    BY <1>1, <2>1, <2>2 DEF Words, Ch
<1>2. CASE t \in 40 .. 59
  <2>1. Mix(t, w, x, y) = ((w \cup x) \cap y) \cup (w \cap x)
    BY <1>2 DEF Mix
  <2>2. ((w \cup x) \cap y) \cup (w \cap x) = Maj(w, x, y)
    BY DEF Xor, Maj
  <2> QED
    BY <1>2, <2>1, <2>2 DEF Words
<1>3. CASE ~(t < 20) /\ t \notin 40 .. 59
  <2>1. Mix(t, w, x, y) = Xor(Xor(w, x), y)
    BY <1>3 DEF Mix
  <2>2. Xor(Xor(w, x), y) = Parity(w, x, y)
    BY DEF Xor, Parity
  <2> QED
    BY <1>3, <2>1, <2>2 DEF Words, Xor
<1> QED
  BY <1>1, <1>2, <1>3

\* The place of a working variable before the call at t.
Place(k, t) == (k + 80 - t) % 5

LEMMA Places ==
  ASSUME NEW t \in 0 .. 79
  PROVE  /\ \A k \in 0 .. 4 : Place(k, t) \in 0 .. 4
         /\ \A j, k \in 0 .. 4 : Place(j, t) = Place(k, t) => j = k
         /\ Place(0, t + 1) = Place(4, t)
         /\ \A k \in 1 .. 4 : Place(k, t + 1) = Place(k - 1, t)
BY DEF Place

Expanded(t, block) ==
    IF t < 16 THEN block ELSE [block EXCEPT ![t % 16] = blk(block, t % 16)]

LEMMA BlkType ==
  ASSUME NEW block \in Blocks, NEW i \in 0 .. 15
  PROVE  blk(block, i) \in Words
<1>1. /\ block[(i + 13) % 16] \in Words /\ block[(i + 8) % 16] \in Words
      /\ block[(i + 2) % 16] \in Words /\ block[i] \in Words
  <2>1. (i + 13) % 16 \in 0 .. 15 /\ (i + 8) % 16 \in 0 .. 15 /\ (i + 2) % 16 \in 0 .. 15
    OBVIOUS
  <2> QED
    BY <2>1 DEF Blocks
<1> QED
  BY <1>1 DEF Words, Positions, blk, Xor, rol

LEMMA ExpandedType ==
  ASSUME NEW t \in 0 .. 79, NEW block \in Blocks
  PROVE  Expanded(t, block) \in Blocks
<1>1. t % 16 \in 0 .. 15
  OBVIOUS
<1>2. blk(block, t % 16) \in Words
  BY <1>1, BlkType
<1> QED
  BY <1>1, <1>2 DEF Expanded, Blocks

Summed(t, v, word) ==
    SumOf(v[Place(4, t)],
          Mix(t, v[Place(1, t)], v[Place(2, t)], v[Place(3, t)]),
          word, Addend(t), rol(v[Place(0, t)], 5))

LEMMA SummedType ==
  ASSUME NEW t \in 0 .. 79, NEW vs \in [0 .. 4 -> Words], NEW word \in Words
  PROVE  Summed(t, vs, word) \in Words
<1>1. \A k \in 0 .. 4 : vs[Place(k, t)] \in Words
  BY Places
<1>2. /\ vs[Place(0, t)] \in Words /\ vs[Place(1, t)] \in Words /\ vs[Place(2, t)] \in Words
      /\ vs[Place(3, t)] \in Words /\ vs[Place(4, t)] \in Words
  BY <1>1
<1>3. Mix(t, vs[Place(1, t)], vs[Place(2, t)], vs[Place(3, t)]) \in Words
  BY <1>2, MixesAgree
<1>4. rol(vs[Place(0, t)], 5) \in Words /\ Addend(t) \in Words
  BY <1>2, WordTypes, AddendType
<1> QED
  BY <1>2, <1>3, <1>4, SumType DEF Summed

\* One call, with the places of the variables.
LEMMA Round ==
  ASSUME NEW t \in 0 .. 79, NEW s \in States
  PROVE  /\ R[<<t, s>>] \in States
         /\ R[<<t, s>>].block = Expanded(t, s.block)
         /\ R[<<t, s>>].vars[Place(4, t)] = Summed(t, s.vars, Expanded(t, s.block)[t % 16])
         /\ R[<<t, s>>].vars[Place(1, t)] = rol(s.vars[Place(1, t)], 30)
         /\ \A k \in {0, 2, 3} : R[<<t, s>>].vars[Place(k, t)] = s.vars[Place(k, t)]
<1> DEFINE b == Expanded(t, s.block)
           v == s.vars
           sum == Summed(t, v, b[t % 16])
           w == [v EXCEPT ![Place(4, t)] = sum, ![Place(1, t)] = rol(@, 30)]
<1>1. s.block \in Blocks /\ v \in [0 .. 4 -> Words]
  BY DEF States
<1>2. b \in Blocks /\ b[t % 16] \in Words
  <2>1. b \in Blocks
    BY <1>1, ExpandedType
  <2> HIDE DEF b
  <2> QED
    BY <2>1 DEF Blocks
<1>3. sum \in Words
  BY <1>1, <1>2, SummedType
<1>4. R[<<t, s>>] = [block |-> b, vars |-> w]
  BY Zenon DEF R, Expanded, Summed, Place
<1>5. /\ \A k \in 0 .. 4 : Place(k, t) \in 0 .. 4
      /\ \A j, k \in 0 .. 4 : Place(j, t) = Place(k, t) => j = k
  BY Places
<1> HIDE DEF b, sum, v
<1>6. rol(v[Place(1, t)], 30) \in Words
  BY <1>1, <1>5, WordTypes
<1>7. w \in [0 .. 4 -> Words]
  BY <1>1, <1>3, <1>5, <1>6
<1>8. Place(1, t) # Place(4, t)
  BY <1>5
<1>9. w[Place(4, t)] = sum /\ w[Place(1, t)] = rol(v[Place(1, t)], 30)
  BY <1>1, <1>5, <1>8
<1>10. \A k \in {0, 2, 3} : w[Place(k, t)] = v[Place(k, t)]
  <2> SUFFICES ASSUME NEW k \in {0, 2, 3}
               PROVE  w[Place(k, t)] = v[Place(k, t)]
    OBVIOUS
  <2>1. Place(k, t) # Place(4, t) /\ Place(k, t) # Place(1, t) /\ Place(k, t) \in 0 .. 4
    BY <1>5
  <2> QED
    BY <1>1, <2>1
<1> HIDE DEF w
<1>11. R[<<t, s>>] \in States
  BY <1>2, <1>4, <1>7 DEF States
<1>12. R[<<t, s>>].block = b /\ R[<<t, s>>].vars = w
  BY <1>4
<1> QED
  BY <1>9, <1>10, <1>11, <1>12 DEF b, v, sum
\* The states between the 80 calls.
Called(f, v, b) ==
    /\ f \in [0 .. 80 -> States]
    /\ f[0] = [block |-> b, vars |-> [k \in 0 .. 4 |-> v[k + 1]]]
    /\ \A t \in 1 .. 80 : f[t] = R[<<t - 1, f[t - 1]>>]

LEMMA Calls ==
  ASSUME NEW call \in Digests \X Blocks
  PROVE  \E f : /\ Called(f, call[1], call[2])
                /\ transform[call] = [k \in 1 .. 5 |-> Add(call[1][k], f[80].vars[k - 1])]
<1> DEFINE start == [block |-> call[2], vars |-> [k \in 0 .. 4 |-> call[1][k + 1]]]
           Next80(f, t) == IF t = 0 THEN start ELSE R[<<t - 1, f[t - 1]>>]
           Is80(f) == f = [t \in 0 .. 80 |-> Next80(f, t)]
           G == [ts \in (1 .. 80) \X States |-> R[<<ts[1] - 1, ts[2]>>]]
           after == CHOOSE f : Is80(f)
<1>1. start \in States
  BY DEF States, Digests
<1>2. \A t \in 1 .. 80, s \in States : R[<<t - 1, s>>] \in States
  BY Round
<1>3. G \in [(1 .. 80) \X States -> States] /\ \A t \in 1 .. 80, s \in States : G[<<t, s>>] = R[<<t - 1, s>>]
  BY <1>2
<1>4. transform[call] = [k \in 1 .. 5 |-> Add(call[1][k], after[80].vars[k - 1])]
  BY DEF transform
<1> HIDE DEF start, G
<1>5. PICK f \in [0 .. 80 -> States] : f[0] = start /\ \A k \in 1 .. 80 : f[k] = G[<<k, f[k - 1]>>]
  <2>1. DefinedUpTo(80, States, start, G)
    BY <1>1, <1>3, StepByStep
  <2> QED
    BY <2>1 DEF DefinedUpTo
<1>6. Is80(f)
  <2> SUFFICES ASSUME NEW t \in 0 .. 80
               PROVE  f[t] = IF t = 0 THEN start ELSE R[<<t - 1, f[t - 1]>>]
    BY <1>5
  <2>1. CASE t = 0
    BY <1>5, <2>1
  <2>2. CASE t # 0
    <3>1. t \in 1 .. 80 /\ t - 1 \in 0 .. 80
      BY <2>2
    <3>2. f[t - 1] \in States
      BY <3>1
    <3> QED
      BY <1>3, <1>5, <2>2, <3>1, <3>2
  <2> QED
    BY <2>1, <2>2
<1>7. Is80(after)
  BY <1>6
<1> HIDE DEF after
<1>8. after[0] = start /\ \A t \in 1 .. 80 : after[t] = R[<<t - 1, after[t - 1]>>]
  <2>1. \A t \in 0 .. 80 : after[t] = Next80(after, t)
    <3> HIDE DEF Next80
    <3> QED
      BY <1>7
  <2> QED
    BY <2>1
<1>9. \A t \in 0 .. 80 : after[t] \in States
  <2>1. \A t \in 1 .. 80 : after[t - 1] \in States => after[t] = G[<<t, after[t - 1]>>]
    BY <1>3, <1>8
  <2> QED
    BY <1>1, <1>3, <1>8, <2>1, StaysIn
<1>10. after \in [0 .. 80 -> States]
  BY <1>7, <1>9
<1> QED
  BY <1>4, <1>8, <1>10 DEF Called, start

\* The words of the schedule: the block, and each further one from four before.
Expansion(w, s) == rol(Xor(Xor(w[s - 3], w[s - 8]), Xor(w[s - 14], w[s - 16])), 1)

IsSchedule(w, b, n) ==
    /\ w \in Seq(Words) /\ Len(w) = n
    /\ \A k \in 1 .. 16 : w[k] = b[k - 1]
    /\ \A s \in 17 .. n : w[s] = Expansion(w, s)

LEMMA ExpansionType ==
  ASSUME NEW w \in Seq(Words), Len(w) >= 16
  PROVE  Expansion(w, Len(w) + 1) \in Words
<1> DEFINE n == Len(w)
<1>1. n \in Nat /\ n >= 16
  OBVIOUS
<1>2. /\ (n + 1) - 3 \in 1 .. n /\ (n + 1) - 8 \in 1 .. n
      /\ (n + 1) - 14 \in 1 .. n /\ (n + 1) - 16 \in 1 .. n
  BY <1>1
<1>3. \A k \in 1 .. n : w[k] \in Words
  OBVIOUS
<1>4. /\ w[(n + 1) - 3] \in Words /\ w[(n + 1) - 8] \in Words
      /\ w[(n + 1) - 14] \in Words /\ w[(n + 1) - 16] \in Words
  BY <1>2, <1>3
<1> HIDE DEF n
<1>5. /\ Xor(w[(n + 1) - 3], w[(n + 1) - 8]) \in Words
      /\ Xor(w[(n + 1) - 14], w[(n + 1) - 16]) \in Words
  BY <1>4, WordTypes
<1>6. Expansion(w, n + 1) \in Words
  <2>1. Xor(Xor(w[(n + 1) - 3], w[(n + 1) - 8]), Xor(w[(n + 1) - 14], w[(n + 1) - 16])) \in Words
    BY <1>5, WordTypes
  <2> QED
    BY <2>1, WordTypes DEF Expansion
<1> QED
  BY <1>6 DEF n

LEMMA Expands ==
  ASSUME NEW b \in Blocks, NEW n \in 16 .. 79, NEW w, IsSchedule(w, b, n)
  PROVE  IsSchedule(Append(w, Expansion(w, n + 1)), b, n + 1)
<1> DEFINE e == Expansion(w, n + 1)
           x == Append(w, e)
<1>1. w \in Seq(Words) /\ Len(w) = n
  BY DEF IsSchedule
<1>2. e \in Words
  BY <1>1, ExpansionType
<1> HIDE DEF e
<1>3. x \in Seq(Words) /\ Len(x) = n + 1 /\ x[n + 1] = e /\ \A k \in 1 .. n : x[k] = w[k]
  BY <1>1, <1>2
<1> HIDE DEF x
<1>4. \A k \in 1 .. 16 : x[k] = b[k - 1]
  <2>1. \A k \in 1 .. 16 : k \in 1 .. n
    OBVIOUS
  <2>2. \A k \in 1 .. 16 : w[k] = b[k - 1]
    BY DEF IsSchedule
  <2> QED
    BY <1>3, <2>1, <2>2
<1>5. \A s \in 17 .. n + 1 : Expansion(x, s) = Expansion(w, s)
  <2> SUFFICES ASSUME NEW s \in 17 .. n + 1
               PROVE  Expansion(x, s) = Expansion(w, s)
    OBVIOUS
  <2>1. /\ s - 3 \in 1 .. n /\ s - 8 \in 1 .. n /\ s - 14 \in 1 .. n /\ s - 16 \in 1 .. n
    OBVIOUS
  <2>2. x[s - 3] = w[s - 3] /\ x[s - 8] = w[s - 8] /\ x[s - 14] = w[s - 14] /\ x[s - 16] = w[s - 16]
    BY <1>3, <2>1
  <2> QED
    BY <2>2 DEF Expansion
<1>6. \A s \in 17 .. n + 1 : x[s] = Expansion(x, s)
  <2> SUFFICES ASSUME NEW s \in 17 .. n + 1
               PROVE  x[s] = Expansion(w, s)
    BY <1>5
  <2>1. CASE s = n + 1
    BY <1>3, <2>1 DEF e
  <2>2. CASE s # n + 1
    <3>1. s \in 17 .. n /\ s \in 1 .. n
      BY <2>2
    <3> QED
      BY <1>3, <3>1 DEF IsSchedule
  <2> QED
    BY <2>1, <2>2
<1>7. IsSchedule(x, b, n + 1)
  BY <1>3, <1>4, <1>6 DEF IsSchedule
<1> QED
  BY <1>7 DEF x, e
LEMMA ScheduleMade ==
  ASSUME NEW b \in Blocks
  PROVE  IsSchedule(Schedule(b), b, 80)
<1> DEFINE V == {w \in Seq(Words) : Len(w) >= 16}
           start == [k \in 1 .. 16 |-> b[k - 1]]
           More(w) == Append(w, Expansion(w, Len(w) + 1))
           Next64(f, n) == IF n = 0 THEN start ELSE More(f[n - 1])
           Is64(f) == f = [n \in 0 .. 64 |-> Next64(f, n)]
           G == [nw \in (1 .. 64) \X V |-> More(nw[2])]
           made == CHOOSE f : Is64(f)
<1>1. start \in V /\ IsSchedule(start, b, 16)
  <2>1. start \in [1 .. 16 -> Words]
    BY DEF Blocks
  <2>2. start \in Seq(Words) /\ Len(start) = 16 /\ \A k \in 1 .. 16 : start[k] = b[k - 1]
    BY <2>1
  <2> HIDE DEF start
  <2>3. 17 .. 16 = {}
    OBVIOUS
  <2>4. IsSchedule(start, b, 16)
    BY <2>2, <2>3 DEF IsSchedule
  <2>5. start \in V
    <3>1. start \in Seq(Words) /\ Len(start) >= 16
      BY <2>2
    <3> QED
      BY <3>1
  <2> QED
    BY <2>4, <2>5
<1>2. ASSUME NEW w \in V
      PROVE  More(w) \in V
  <2> DEFINE e == Expansion(w, Len(w) + 1)
  <2>1. e \in Words
    BY ExpansionType
  <2> HIDE DEF e
  <2>2. Append(w, e) \in Seq(Words) /\ Len(Append(w, e)) = Len(w) + 1
    BY <2>1
  <2> QED
    BY <2>2 DEF e
<1>3. Schedule(b) = made[64]
  BY DEF Schedule, Expansion
<1> HIDE DEF V, start, More
<1>4. G \in [(1 .. 64) \X V -> V] /\ \A n \in 1 .. 64, w \in V : G[<<n, w>>] = More(w)
  BY <1>2
<1> HIDE DEF G
<1>5. PICK f \in [0 .. 64 -> V] : f[0] = start /\ \A k \in 1 .. 64 : f[k] = G[<<k, f[k - 1]>>]
  <2>1. DefinedUpTo(64, V, start, G)
    BY <1>1, <1>4, StepByStep
  <2> QED
    BY <2>1 DEF DefinedUpTo
<1>6. Is64(f)
  <2> SUFFICES ASSUME NEW n \in 0 .. 64
               PROVE  f[n] = IF n = 0 THEN start ELSE More(f[n - 1])
    BY <1>5
  <2>1. CASE n = 0
    BY <1>5, <2>1
  <2>2. CASE n # 0
    <3>1. n \in 1 .. 64 /\ n - 1 \in 0 .. 64
      BY <2>2
    <3>2. f[n - 1] \in V
      BY <3>1
    <3> QED
      BY <1>4, <1>5, <2>2, <3>1, <3>2
  <2> QED
    BY <2>1, <2>2
<1>7. Is64(made)
  BY <1>6
<1> HIDE DEF made
<1>8. made[0] = start /\ \A n \in 1 .. 64 : made[n] = More(made[n - 1])
  <2>1. \A n \in 0 .. 64 : made[n] = Next64(made, n)
    <3> HIDE DEF Next64
    <3> QED
      BY <1>7
  <2> QED
    BY <2>1
<1> DEFINE T == {n \in 0 .. 64 : IsSchedule(made[n], b, 16 + n)}
<1>9. 0 \in T
  BY <1>1, <1>8
<1>10. ASSUME NEW n \in 1 .. 64, n - 1 \in T
       PROVE  n \in T
  <2>1. PICK m \in 16 .. 79 : m = 16 + (n - 1) /\ m + 1 = 16 + n
    OBVIOUS
  <2>2. PICK w : w = made[n - 1]
    OBVIOUS
  <2>3. IsSchedule(w, b, m)
    BY <1>10, <2>1, <2>2
  <2>4. Len(w) = m
    BY <2>3 DEF IsSchedule
  <2>5. made[n] = Append(w, Expansion(w, m + 1))
    BY <1>8, <2>2, <2>4 DEF More
  <2>6. IsSchedule(Append(w, Expansion(w, m + 1)), b, m + 1)
    BY <2>3, Expands
  <2> HIDE DEF made
  <2>7. IsSchedule(made[n], b, 16 + n)
    BY <2>1, <2>5, <2>6
  <2> QED
    BY <2>7
<1>11. 64 \in T
  <2> HIDE DEF T
  <2> QED
    BY <1>9, <1>10, CountUp
<1> QED
  BY <1>3, <1>11

\* The digests between the 80 steps of the standard.
Stepped(d, v, w) ==
    /\ d \in [0 .. 80 -> Digests]
    /\ d[0] = v
    /\ \A t \in 1 .. 80 : d[t] = Step[<<t - 1, w[t], d[t - 1]>>]

\* One step of the standard.
Chosen(t, x, y, z) ==
    IF t < 20 THEN Ch(x, y, z) ELSE IF t \in 40 .. 59 THEN Maj(x, y, z) ELSE Parity(x, y, z)

LEMMA StepDone ==
  ASSUME NEW t \in 0 .. 79, NEW w \in Words, NEW v \in Digests
  PROVE  /\ Step[<<t, w, v>>] \in Digests
         /\ Step[<<t, w, v>>][1] =
              SumOf(rol(v[1], 5), Chosen(t, v[2], v[3], v[4]), v[5], w, Addend(t))
         /\ Step[<<t, w, v>>][2] = v[1]
         /\ Step[<<t, w, v>>][3] = rol(v[2], 30)
         /\ Step[<<t, w, v>>][4] = v[3]
         /\ Step[<<t, w, v>>][5] = v[4]
<1> DEFINE f == Chosen(t, v[2], v[3], v[4])
           s == SumOf(rol(v[1], 5), f, v[5], w, Addend(t))
<1>1. /\ v[1] \in Words /\ v[2] \in Words /\ v[3] \in Words /\ v[4] \in Words /\ v[5] \in Words
  BY DEF Digests
<1>2. f = Mix(t, v[2], v[3], v[4]) /\ f \in Words
  <2> HIDE DEF s
  <2>1. \A x, y, z \in Words :
          /\ Mix(t, x, y, z) \in Words
          /\ t < 20 => Mix(t, x, y, z) = Ch(x, y, z)
          /\ t \in 40 .. 59 => Mix(t, x, y, z) = Maj(x, y, z)
          /\ ~(t < 20) /\ t \notin 40 .. 59 => Mix(t, x, y, z) = Parity(x, y, z)
    BY MixesAgree
  <2>2. \A x, y, z \in Words : /\ Mix(t, x, y, z) \in Words
                               /\ Chosen(t, x, y, z) = Mix(t, x, y, z)
    BY <2>1 DEF Chosen
  <2> QED
    BY <1>1, <2>2
<1>3. s \in Words
  <2>1. rol(v[1], 5) \in Words /\ Addend(t) \in Words
    BY <1>1, WordTypes, AddendType
  <2> HIDE DEF f
  <2> QED
    BY <1>1, <1>2, <2>1, SumType
<1>4. rol(v[2], 30) \in Words
  BY <1>1, WordTypes
<1>5. Step[<<t, w, v>>] = << s, v[1], rol(v[2], 30), v[3], v[4] >>
  <2>1. f = CASE t \in 0 .. 19  -> Ch(v[2], v[3], v[4])
              [] t \in 40 .. 59 -> Maj(v[2], v[3], v[4])
              [] OTHER          -> Parity(v[2], v[3], v[4])
    <3>1. CASE t \in 0 .. 19
      BY <3>1 DEF Chosen
    <3>2. CASE t \in 40 .. 59
      BY <3>2 DEF Chosen
    <3>3. CASE t \notin 0 .. 19 /\ t \notin 40 .. 59
      BY <3>3 DEF Chosen
    <3> QED
      BY <3>1, <3>2, <3>3
  <2> HIDE DEF f
  <2> QED
    BY <2>1 DEF Step
<1> HIDE DEF s
<1>6. << s, v[1], rol(v[2], 30), v[3], v[4] >> \in Digests
  BY <1>1, <1>3, <1>4 DEF Digests
<1> QED
  BY <1>5, <1>6 DEF s
LEMMA Steps ==
  ASSUME NEW call \in Digests \X Blocks
  PROVE  \E d : /\ Stepped(d, call[1], Schedule(call[2]))
                /\ Compressed[call] = [k \in 1 .. 5 |-> Add(call[1][k], d[80][k])]
<1> DEFINE start == call[1]
           words == Schedule(call[2])
           Next80(f, t) == IF t = 0 THEN start ELSE Step[<<t - 1, words[t], f[t - 1]>>]
           Is80(f) == f = [t \in 0 .. 80 |-> Next80(f, t)]
           G == [td \in (1 .. 80) \X Digests |-> Step[<<td[1] - 1, words[td[1]], td[2]>>]]
           after == CHOOSE f : Is80(f)
<1>1. start \in Digests
  OBVIOUS
<1>2. \A t \in 1 .. 80 : words[t] \in Words
  <2>1. words \in Seq(Words) /\ Len(words) = 80
    BY ScheduleMade DEF IsSchedule
  <2> HIDE DEF words
  <2> QED
    BY <2>1, Elements
<1>3. Compressed[call] = [k \in 1 .. 5 |-> Add(call[1][k], after[80][k])]
  BY DEF Compressed
<1> HIDE DEF start, words
<1>4. \A t \in 1 .. 80, d \in Digests : Step[<<t - 1, words[t], d>>] \in Digests
  <2> SUFFICES ASSUME NEW t \in 1 .. 80, NEW d \in Digests
               PROVE  Step[<<t - 1, words[t], d>>] \in Digests
    OBVIOUS
  <2>1. t - 1 \in 0 .. 79 /\ words[t] \in Words
    BY <1>2
  <2> QED
    BY <2>1, StepDone
<1>5. /\ G \in [(1 .. 80) \X Digests -> Digests]
      /\ \A t \in 1 .. 80, d \in Digests : G[<<t, d>>] = Step[<<t - 1, words[t], d>>]
  BY <1>4
<1> HIDE DEF G
<1>6. PICK f \in [0 .. 80 -> Digests] : f[0] = start /\ \A k \in 1 .. 80 : f[k] = G[<<k, f[k - 1]>>]
  <2>1. DefinedUpTo(80, Digests, start, G)
    BY <1>1, <1>5, StepByStep
  <2> QED
    BY <2>1 DEF DefinedUpTo
<1>7. Is80(f)
  <2> SUFFICES ASSUME NEW t \in 0 .. 80
               PROVE  f[t] = Next80(f, t)
    BY <1>6
  <2>1. CASE t = 0
    BY <1>6, <2>1
  <2>2. CASE t # 0
    <3>1. t \in 1 .. 80 /\ t - 1 \in 0 .. 80
      BY <2>2
    <3>2. f[t - 1] \in Digests
      BY <3>1
    <3> QED
      BY <1>5, <1>6, <2>2, <3>1, <3>2
  <2> QED
    BY <2>1, <2>2
<1>8. Is80(after)
  BY <1>7
<1> HIDE DEF after
<1>9. after[0] = start /\ \A t \in 1 .. 80 : after[t] = Step[<<t - 1, words[t], after[t - 1]>>]
  <2>1. \A t \in 0 .. 80 : after[t] = Next80(after, t)
    <3> HIDE DEF Next80
    <3> QED
      BY <1>8
  <2> QED
    BY <2>1
<1>10. \A t \in 0 .. 80 : after[t] \in Digests
  <2>1. \A t \in 1 .. 80 : after[t - 1] \in Digests => after[t] = G[<<t, after[t - 1]>>]
    BY <1>5, <1>9
  <2> QED
    BY <1>1, <1>5, <1>9, <2>1, StaysIn
<1>11. after \in [0 .. 80 -> Digests]
  BY <1>8, <1>10
<1> QED
  BY <1>3, <1>9, <1>11 DEF Stepped, start, words

\* Before the call at t the block holds the last 16 words of the schedule, or the
\* first ones, and each working variable is in its place.
HoldsWords(t, b, w) ==
    \A i \in 0 .. 79 : i >= t - 16 /\ (i < t \/ i < 16) => b[i % 16] = w[i + 1]

InPlace(t, s, w, d) ==
    /\ \A k \in 0 .. 4 : s.vars[Place(k, t)] = d[k + 1]
    /\ HoldsWords(t, s.block, w)

\* The word that a call uses is that of the schedule.
LEMMA WordInPlace ==
  ASSUME NEW t \in 0 .. 79, NEW b \in Blocks, NEW w, NEW first, IsSchedule(w, first, 80),
         HoldsWords(t, b, w)
  PROVE  /\ Expanded(t, b)[t % 16] = w[t + 1]
         /\ HoldsWords(t + 1, Expanded(t, b), w)
<1>1. Expanded(t, b)[t % 16] = w[t + 1]
  <2>1. CASE t < 16
    <3>1. b[t % 16] = w[t + 1]
      BY <2>1 DEF HoldsWords
    <3> QED
      BY <2>1, <3>1 DEF Expanded
  <2>2. CASE t >= 16
    <3>1. t % 16 \in 0 .. 15
      OBVIOUS
    <3>2. Expanded(t, b)[t % 16] = blk(b, t % 16)
      BY <2>2, <3>1 DEF Expanded, Blocks
    <3>3. /\ ((t % 16) + 13) % 16 = (t - 3) % 16 /\ ((t % 16) + 8) % 16 = (t - 8) % 16
          /\ ((t % 16) + 2) % 16 = (t - 14) % 16 /\ t % 16 = (t - 16) % 16
      BY <2>2
    <3>4. /\ b[(t - 3) % 16] = w[(t + 1) - 3] /\ b[(t - 8) % 16] = w[(t + 1) - 8]
          /\ b[(t - 14) % 16] = w[(t + 1) - 14] /\ b[(t - 16) % 16] = w[(t + 1) - 16]
      <4>1. \A i \in {t - 3, t - 8, t - 14, t - 16} : b[i % 16] = w[i + 1]
        BY <2>2 DEF HoldsWords
      <4>2. /\ (t - 3) + 1 = (t + 1) - 3 /\ (t - 8) + 1 = (t + 1) - 8
            /\ (t - 14) + 1 = (t + 1) - 14 /\ (t - 16) + 1 = (t + 1) - 16
        OBVIOUS
      <4> QED
        BY <4>1, <4>2
    <3>5. blk(b, t % 16) = Expansion(w, t + 1)
      BY <3>3, <3>4 DEF blk, Expansion
    <3>6. w[t + 1] = Expansion(w, t + 1)
      <4>1. t + 1 \in 17 .. 80
        BY <2>2
      <4> QED
        BY <4>1 DEF IsSchedule
    <3> QED
      BY <3>2, <3>5, <3>6
  <2> QED
    BY <2>1, <2>2
<1>2. ASSUME NEW i \in 0 .. 79, i >= (t + 1) - 16, i < t + 1 \/ i < 16
      PROVE  Expanded(t, b)[i % 16] = w[i + 1]
  <2>1. CASE i = t
    BY <1>1, <2>1
  <2>2. CASE i # t
    <3>1. b[i % 16] = w[i + 1]
      BY <1>2, <2>2 DEF HoldsWords
    <3>2. CASE t < 16
      BY <3>1, <3>2 DEF Expanded
    <3>3. CASE t >= 16
      <4>1. i % 16 # t % 16 /\ i % 16 \in 0 .. 15 /\ t % 16 \in 0 .. 15
        BY <1>2, <2>2, <3>3
      <4> QED
        BY <3>1, <3>3, <4>1 DEF Expanded, Blocks
    <3> QED
      BY <3>2, <3>3
  <2> QED
    BY <2>1, <2>2
<1> QED
  BY <1>1, <1>2 DEF HoldsWords

LEMMA StartsInPlace ==
  ASSUME NEW v \in Digests, NEW b \in Blocks, NEW w, IsSchedule(w, b, 80)
  PROVE  InPlace(0, [block |-> b, vars |-> [k \in 0 .. 4 |-> v[k + 1]]], w, v)
<1>1. \A k \in 0 .. 4 : Place(k, 0) = k
  BY DEF Place
<1>2. \A i \in 0 .. 79 : i < 0 \/ i < 16 => b[i % 16] = w[i + 1]
  <2> SUFFICES ASSUME NEW i \in 0 .. 15
               PROVE  b[i % 16] = w[i + 1]
    OBVIOUS
  <2>1. i % 16 = i /\ i + 1 \in 1 .. 16 /\ (i + 1) - 1 = i
    OBVIOUS
  <2>2. w[i + 1] = b[(i + 1) - 1]
    BY <2>1 DEF IsSchedule
  <2> QED
    BY <2>1, <2>2
<1> QED
  BY <1>1, <1>2 DEF InPlace, HoldsWords

\* A call of the code and a step of the standard do the same.
LEMMA StaysInPlace ==
  ASSUME NEW t \in 0 .. 79, NEW s \in States, NEW d \in Digests, NEW w, NEW b,
         IsSchedule(w, b, 80), InPlace(t, s, w, d)
  PROVE  InPlace(t + 1, R[<<t, s>>], w, Step[<<t, w[t + 1], d>>])
<1> DEFINE r == R[<<t, s>>]
           e == Step[<<t, w[t + 1], d>>]
           x == Expanded(t, s.block)
           v == s.vars
<1>1. s.block \in Blocks /\ v \in [0 .. 4 -> Words]
  BY DEF States
<1>2. w[t + 1] \in Words
  <2>1. w \in Seq(Words) /\ t + 1 \in 1 .. Len(w)
    BY DEF IsSchedule
  <2> QED
    BY <2>1, Elements
<1>3. x[t % 16] = w[t + 1] /\ HoldsWords(t + 1, x, w)
  <2>1. HoldsWords(t, s.block, w)
    BY DEF InPlace
  <2> QED
    BY <1>1, <2>1, WordInPlace
<1>4. /\ r.block = x
      /\ r.vars[Place(4, t)] = Summed(t, v, x[t % 16])
      /\ r.vars[Place(1, t)] = rol(v[Place(1, t)], 30)
      /\ \A k \in {0, 2, 3} : r.vars[Place(k, t)] = v[Place(k, t)]
  BY Round
<1>5. /\ e[1] = SumOf(rol(d[1], 5), Chosen(t, d[2], d[3], d[4]), d[5], w[t + 1], Addend(t))
      /\ e[2] = d[1] /\ e[3] = rol(d[2], 30) /\ e[4] = d[3] /\ e[5] = d[4]
  BY <1>2, StepDone
<1> HIDE DEF r, e, x, v
<1>6. /\ v[Place(0, t)] = d[1] /\ v[Place(1, t)] = d[2] /\ v[Place(2, t)] = d[3]
      /\ v[Place(3, t)] = d[4] /\ v[Place(4, t)] = d[5]
  <2>1. \A k \in 0 .. 4 : v[Place(k, t)] = d[k + 1]
    BY DEF InPlace, v
  <2> QED
    BY <2>1
<1>7. d[1] \in Words /\ d[2] \in Words /\ d[3] \in Words /\ d[4] \in Words /\ d[5] \in Words
  BY DEF Digests
<1>8. Summed(t, v, x[t % 16]) = e[1]
  <2>1. \A a, y, z \in Words : /\ Mix(t, a, y, z) \in Words
                               /\ t < 20 => Mix(t, a, y, z) = Ch(a, y, z)
                               /\ t \in 40 .. 59 => Mix(t, a, y, z) = Maj(a, y, z)
                               /\ ~(t < 20) /\ t \notin 40 .. 59 => Mix(t, a, y, z) = Parity(a, y, z)
    BY MixesAgree
  <2>2. \A a, y, z \in Words : Mix(t, a, y, z) \in Words /\ Chosen(t, a, y, z) = Mix(t, a, y, z)
    BY <2>1 DEF Chosen
  <2>3. PICK f \in Words : f = Mix(t, d[2], d[3], d[4]) /\ f = Chosen(t, d[2], d[3], d[4])
    BY <1>7, <2>2
  <2>4. PICK c \in Words : c = Addend(t)
    BY AddendType
  <2>5. PICK q \in Words : q = rol(d[1], 5)
    BY <1>7, WordTypes
  <2>6. Summed(t, v, x[t % 16]) = SumOf(d[5], f, w[t + 1], c, q)
    BY <1>3, <1>6, <2>3, <2>4, <2>5 DEF Summed
  <2>7. e[1] = SumOf(q, f, d[5], w[t + 1], c)
    BY <1>5, <2>3, <2>4, <2>5
  <2> QED
    BY <1>2, <1>7, <2>6, <2>7, SumsAgree
<1>9. \A k \in 0 .. 4 : r.vars[Place(k, t + 1)] = e[k + 1]
  <2>1. /\ Place(0, t + 1) = Place(4, t) /\ Place(1, t + 1) = Place(0, t)
        /\ Place(2, t + 1) = Place(1, t) /\ Place(3, t + 1) = Place(2, t)
        /\ Place(4, t + 1) = Place(3, t)
    <3>1. Place(0, t + 1) = Place(4, t) /\ \A k \in 1 .. 4 : Place(k, t + 1) = Place(k - 1, t)
      BY Places
    <3> QED
      BY <3>1
  <2>2. /\ r.vars[Place(0, t + 1)] = e[1] /\ r.vars[Place(1, t + 1)] = e[2]
        /\ r.vars[Place(2, t + 1)] = e[3] /\ r.vars[Place(3, t + 1)] = e[4]
        /\ r.vars[Place(4, t + 1)] = e[5]
    BY <1>4, <1>5, <1>6, <1>8, <2>1
  <2> QED
    BY <2>2
<1>10. InPlace(t + 1, r, w, e)
  BY <1>3, <1>4, <1>9 DEF InPlace
<1> QED
  BY <1>10 DEF r, e

\* transform() of the library, which keeps 16 words of the schedule, writes each
\* new one over the oldest and lets the working variables change their roles
\* from call to call, is the compression function of FIPS 180, for every digest
\* and every block.
THEOREM TransformCorrect ==
  ASSUME NEW call \in Digests \X Blocks
  PROVE  transform[call] = Compressed[call] /\ transform[call] \in Digests
<1> DEFINE b == call[2]
           w == Schedule(b)
<1>1. call[1] \in Digests /\ b \in Blocks
  OBVIOUS
<1>2. IsSchedule(w, b, 80)
  BY <1>1, ScheduleMade
<1>3. PICK f : /\ Called(f, call[1], b)
               /\ transform[call] = [k \in 1 .. 5 |-> Add(call[1][k], f[80].vars[k - 1])]
  BY Calls
<1>4. PICK d : /\ Stepped(d, call[1], w)
               /\ Compressed[call] = [k \in 1 .. 5 |-> Add(call[1][k], d[80][k])]
  BY Steps
<1> HIDE DEF b, w
<1> DEFINE T == {t \in 0 .. 80 : InPlace(t, f[t], w, d[t])}
<1>5. 0 \in T
  <2>1. f[0] = [block |-> b, vars |-> [k \in 0 .. 4 |-> call[1][k + 1]]] /\ d[0] = call[1]
    BY <1>3, <1>4 DEF Called, Stepped
  <2>2. InPlace(0, [block |-> b, vars |-> [k \in 0 .. 4 |-> call[1][k + 1]]], w, call[1])
    BY <1>1, <1>2, StartsInPlace
  <2> QED
    BY <2>1, <2>2
<1>6. ASSUME NEW t \in 1 .. 80, t - 1 \in T
      PROVE  t \in T
  <2>1. PICK u \in 0 .. 79 : u = t - 1 /\ u + 1 = t
    OBVIOUS
  <2>2. f[u] \in States /\ f[t] = R[<<u, f[u]>>]
    <3>1. f \in [0 .. 80 -> States] /\ \A k \in 1 .. 80 : f[k] = R[<<k - 1, f[k - 1]>>]
      BY <1>3 DEF Called
    <3>2. f[t] = R[<<t - 1, f[t - 1]>>]
      BY <3>1
    <3>3. f[u] \in States
      <4>1. u \in 0 .. 80
        OBVIOUS
      <4> QED
        BY <3>1, <4>1
    <3>4. t - 1 = u
      BY <2>1
    <3> QED
      BY <3>2, <3>3, <3>4
  <2>3. d[u] \in Digests /\ d[t] = Step[<<u, w[u + 1], d[u]>>]
    <3>1. d \in [0 .. 80 -> Digests] /\ \A k \in 1 .. 80 : d[k] = Step[<<k - 1, w[k], d[k - 1]>>]
      BY <1>4 DEF Stepped
    <3>2. d[t] = Step[<<t - 1, w[t], d[t - 1]>>]
      BY <3>1
    <3>3. d[u] \in Digests
      <4>1. u \in 0 .. 80
        OBVIOUS
      <4> QED
        BY <3>1, <4>1
    <3>4. t - 1 = u
      BY <2>1
    <3> QED
      BY <2>1, <3>2, <3>3, <3>4
  <2>4. InPlace(u, f[u], w, d[u])
    BY <1>6, <2>1
  <2>5. InPlace(u + 1, R[<<u, f[u]>>], w, Step[<<u, w[u + 1], d[u]>>])
    BY <1>2, <2>2, <2>3, <2>4, StaysInPlace
  <2> QED
    BY <2>1, <2>2, <2>3, <2>5
<1>7. InPlace(80, f[80], w, d[80])
  <2>1. 80 \in T
    <3> HIDE DEF T
    <3> QED
      BY <1>5, <1>6, CountUp
  <2> QED
    BY <2>1
<1>8. \A k \in 1 .. 5 : f[80].vars[k - 1] = d[80][k]
  <2>1. \A k \in 0 .. 4 : Place(k, 80) = k
    BY DEF Place
  <2>2. \A k \in 0 .. 4 : f[80].vars[k] = d[80][k + 1]
    BY <1>7, <2>1 DEF InPlace
  <2> QED
    BY <2>2
<1>9. \A k \in 1 .. 5 : Add(call[1][k], d[80][k]) \in Words
  <2> SUFFICES ASSUME NEW k \in 1 .. 5
               PROVE  Add(call[1][k], d[80][k]) \in Words
    OBVIOUS
  <2>1. call[1][k] \in Words
    BY <1>1 DEF Digests
  <2>2. d[80] \in Digests
    BY <1>4 DEF Stepped
  <2>3. d[80][k] \in Words
    BY <2>2 DEF Digests
  <2> QED
    BY <2>1, <2>3, WordTypes
<1> QED
  BY <1>3, <1>4, <1>8, <1>9 DEF Digests

-----------------------------------------------------------------------------
(* The digest of the blocks                                                *)

\* f has the digests after each of the blocks bs, from d on.
IsChain(f, F, d, bs) ==
    /\ f \in [0 .. Len(bs) -> Digests]
    /\ f[0] = d
    /\ \A k \in 1 .. Len(bs) : f[k] = F[<<f[k - 1], buffer_to_block(bs[k])>>]

LEMMA BlockOfBuffer ==
  ASSUME NEW buf
  PROVE  buffer_to_block(buf) \in Blocks
BY DEF buffer_to_block, Blocks, Words, Word

LEMMA StartType == Start \in Digests
BY DEF Start, Digests, Words, Word

LEMMA ChainMade ==
  ASSUME NEW F, \A call \in Digests \X Blocks : F[call] \in Digests,
         NEW S, NEW bs \in Seq(S), NEW d \in Digests
  PROVE  IsChain(CHOOSE f : f = [k \in 0 .. Len(bs) |->
                                    IF k = 0 THEN d ELSE F[<<f[k - 1], buffer_to_block(bs[k])>>]],
                 F, d, bs)
<1> DEFINE n == Len(bs)
           NextN(f, k) == IF k = 0 THEN d ELSE F[<<f[k - 1], buffer_to_block(bs[k])>>]
           IsN(f) == f = [k \in 0 .. n |-> NextN(f, k)]
           G == [kd \in (1 .. n) \X Digests |-> F[<<kd[2], buffer_to_block(bs[kd[1]])>>]]
           after == CHOOSE f : IsN(f)
<1>1. n \in Nat
  OBVIOUS
<1>2. \A k \in 1 .. n, e \in Digests : F[<<e, buffer_to_block(bs[k])>>] \in Digests
  BY BlockOfBuffer
<1>3. /\ G \in [(1 .. n) \X Digests -> Digests]
      /\ \A k \in 1 .. n, e \in Digests : G[<<k, e>>] = F[<<e, buffer_to_block(bs[k])>>]
  BY <1>2
<1> HIDE DEF G, n
<1>4. PICK f \in [0 .. n -> Digests] : f[0] = d /\ \A k \in 1 .. n : f[k] = G[<<k, f[k - 1]>>]
  <2>1. DefinedUpTo(n, Digests, d, G)
    BY <1>1, <1>3, StepByStep
  <2> QED
    BY <2>1 DEF DefinedUpTo
<1>5. IsN(f)
  <2> SUFFICES ASSUME NEW k \in 0 .. n
               PROVE  f[k] = NextN(f, k)
    BY <1>4
  <2>1. CASE k = 0
    BY <1>4, <2>1
  <2>2. CASE k # 0
    <3>1. k \in 1 .. n /\ k - 1 \in 0 .. n
      BY <1>1, <2>2
    <3>2. f[k - 1] \in Digests
      BY <3>1
    <3> QED
      BY <1>3, <1>4, <2>2, <3>1, <3>2
  <2> QED
    BY <2>1, <2>2
<1>6. IsN(after)
  BY <1>5
<1> HIDE DEF after
<1>7. after[0] = d /\ \A k \in 1 .. n : after[k] = F[<<after[k - 1], buffer_to_block(bs[k])>>]
  <2>1. \A k \in 0 .. n : after[k] = NextN(after, k)
    <3> HIDE DEF NextN
    <3> QED
      BY <1>6
  <2>2. after[0] = NextN(after, 0) /\ \A k \in 1 .. n : after[k] = NextN(after, k) /\ k # 0
    <3> HIDE DEF NextN
    <3> QED
      BY <1>1, <2>1
  <2> QED
    BY <2>2
<1>8. \A k \in 0 .. n : after[k] \in Digests
  <2>1. \A k \in 1 .. n : after[k - 1] \in Digests => after[k] = G[<<k, after[k - 1]>>]
    BY <1>3, <1>7
  <2> QED
    BY <1>1, <1>3, <1>7, <2>1, StaysIn
<1>9. after \in [0 .. n -> Digests]
  BY <1>6, <1>8
<1>10. IsChain(after, F, d, bs)
  BY <1>7, <1>9 DEF IsChain, n
<1> QED
  BY <1>10 DEF after, n

LEMMA Digested ==
  ASSUME NEW S, NEW bs \in Seq(S)
  PROVE  \E f : IsChain(f, Compressed, Start, bs) /\ DigestOf(bs) = f[Len(bs)]
<1> DEFINE after == CHOOSE f : f = [k \in 0 .. Len(bs) |->
                      IF k = 0 THEN Start ELSE Compressed[<<f[k - 1], buffer_to_block(bs[k])>>]]
<1>1. DigestOf(bs) = after[Len(bs)]
  BY DEF DigestOf
<1>2. \A call \in Digests \X Blocks : Compressed[call] \in Digests
  BY TransformCorrect
<1>3. IsChain(after, Compressed, Start, bs)
  BY <1>2, ChainMade, StartType
<1> HIDE DEF after
<1> QED
  BY <1>1, <1>3

LEMMA Continues ==
  ASSUME NEW S, NEW bs \in Seq(S), digest \in Digests
  PROVE  \E f : IsChain(f, transform, digest, bs) /\ Transformed(bs) = f[Len(bs)]
<1> DEFINE after == CHOOSE f : f = [k \in 0 .. Len(bs) |->
                      IF k = 0 THEN digest ELSE transform[<<f[k - 1], buffer_to_block(bs[k])>>]]
<1>1. Transformed(bs) = after[Len(bs)]
  BY DEF Transformed
<1>2. \A call \in Digests \X Blocks : transform[call] \in Digests
  BY TransformCorrect
<1>3. IsChain(after, transform, digest, bs)
  BY <1>2, ChainMade
<1> HIDE DEF after
<1> QED
  BY <1>1, <1>3

\* What update() and final() make of more blocks is the digest of all of them.
LEMMA DigestGoesOn ==
  ASSUME NEW S, NEW bs \in Seq(S), NEW more \in Seq(S), digest = DigestOf(bs)
  PROVE  DigestOf(bs \o more) = Transformed(more) /\ Transformed(more) \in Digests
<1> DEFINE n == Len(bs)
           m == Len(more)
           all == bs \o more
<1>1. all \in Seq(S) /\ Len(all) = n + m /\ n \in Nat /\ m \in Nat
  OBVIOUS
<1>2. PICK f : IsChain(f, Compressed, Start, bs) /\ digest = f[n]
  BY Digested
<1>3. digest \in Digests
  BY <1>2 DEF IsChain
<1>4. PICK g : IsChain(g, transform, digest, more) /\ Transformed(more) = g[m]
  BY <1>3, Continues
<1>5. PICK h : IsChain(h, Compressed, Start, all) /\ DigestOf(all) = h[n + m]
  <2>1. \E h : IsChain(h, Compressed, Start, all) /\ DigestOf(all) = h[Len(all)]
    <3> HIDE DEF all
    <3> QED
      BY <1>1, Digested
  <2> QED
    BY <1>1, <2>1
<1>6. /\ \A k \in 1 .. n : all[k] = bs[k]
      /\ \A k \in 1 .. m : all[n + k] = more[k]
  OBVIOUS
<1> HIDE DEF all
<1>7. /\ h \in [0 .. n + m -> Digests] /\ h[0] = Start
      /\ \A k \in 1 .. n + m : h[k] = Compressed[<<h[k - 1], buffer_to_block(all[k])>>]
  BY <1>1, <1>5 DEF IsChain
<1>8. /\ f \in [0 .. n -> Digests] /\ f[0] = Start
      /\ \A k \in 1 .. n : f[k] = Compressed[<<f[k - 1], buffer_to_block(bs[k])>>]
  BY <1>2 DEF IsChain
<1>9. /\ g \in [0 .. m -> Digests] /\ g[0] = digest
      /\ \A k \in 1 .. m : g[k] = transform[<<g[k - 1], buffer_to_block(more[k])>>]
  BY <1>4 DEF IsChain
<1> HIDE DEF n, m
<1>10. \A k \in 0 .. n : h[k] = f[k]
  <2> DEFINE T == {k \in 0 .. n : h[k] = f[k]}
  <2>1. 0 \in T
    BY <1>1, <1>7, <1>8
  <2>2. ASSUME NEW k \in 1 .. n, k - 1 \in T
        PROVE  k \in T
    <3>1. h[k - 1] = f[k - 1] /\ k \in 1 .. n + m
      BY <1>1, <2>2
    <3>2. h[k] = Compressed[<<h[k - 1], buffer_to_block(all[k])>>]
      BY <1>7, <3>1
    <3>3. all[k] = bs[k] /\ f[k] = Compressed[<<f[k - 1], buffer_to_block(bs[k])>>]
      BY <1>6, <1>8
    <3> QED
      BY <3>1, <3>2, <3>3
  <2> HIDE DEF T
  <2>3. \A k \in 0 .. n : k \in T
    BY <1>1, <2>1, <2>2, CountUp
  <2> QED
    BY <2>3 DEF T
<1>11. \A k \in 0 .. m : h[n + k] = g[k]
  <2> DEFINE T == {k \in 0 .. m : h[n + k] = g[k]}
  <2>1. 0 \in T
    <3>1. h[n] = f[n] /\ n + 0 = n
      BY <1>1, <1>10
    <3> QED
      BY <1>1, <1>2, <1>9, <3>1
  <2>2. ASSUME NEW k \in 1 .. m, k - 1 \in T
        PROVE  k \in T
    <3>1. h[n + (k - 1)] = g[k - 1] /\ n + k \in 1 .. n + m /\ (n + k) - 1 = n + (k - 1)
      BY <1>1, <2>2
    <3>2. h[n + k] = Compressed[<<h[(n + k) - 1], buffer_to_block(all[n + k])>>]
      BY <1>7, <3>1
    <3>3. all[n + k] = more[k] /\ g[k] = transform[<<g[k - 1], buffer_to_block(more[k])>>]
      BY <1>6, <1>9
    <3>4. g[k - 1] \in Digests
      <4>1. k - 1 \in 0 .. m
        BY <1>1
      <4> QED
        BY <1>9, <4>1
    <3>5. transform[<<g[k - 1], buffer_to_block(more[k])>>]
            = Compressed[<<g[k - 1], buffer_to_block(more[k])>>]
      <4>1. buffer_to_block(more[k]) \in Blocks
        BY BlockOfBuffer
      <4>2. <<g[k - 1], buffer_to_block(more[k])>> \in Digests \X Blocks
        BY <3>4, <4>1
      <4> QED
        BY <4>2, TransformCorrect
    <3>6. h[n + k] = Compressed[<<g[k - 1], buffer_to_block(more[k])>>]
      BY <3>1, <3>2, <3>3
    <3>7. h[n + k] = g[k]
      BY <3>3, <3>5, <3>6
    <3> QED
      BY <3>7
  <2> HIDE DEF T
  <2>3. \A k \in 0 .. m : k \in T
    BY <1>1, <2>1, <2>2, CountUp
  <2> QED
    BY <2>3 DEF T
<1>12. h[n + m] = g[m] /\ g[m] \in Digests
  BY <1>1, <1>9, <1>11
<1> QED
  BY <1>4, <1>5, <1>12 DEF all
DigestInv ==
    /\ \E S : blocks \in Seq(S)
    /\ phase = "hash" <=> hashing # "done"
    /\ hashing # "done" => digest = DigestOf(blocks)
    /\ Hashed => IsDigestOfBlocks

LEMMA DigestOfNone == DigestOf(<<>>) = Start
<1>1. PICK f : IsChain(f, Compressed, Start, <<>>) /\ DigestOf(<<>>) = f[Len(<<>>)]
  <2>1. <<>> \in Seq({})
    OBVIOUS
  <2> QED
    BY <2>1, Digested
<1> QED
  BY <1>1 DEF IsChain

LEMMA UpdateKeepsDigest ==
  ASSUME DigestInv, Update
  PROVE  /\ \E S : blocks' \in Seq(S)
         /\ digest' = DigestOf(blocks')
         /\ hashing' # "done"
<1>1. PICK S : blocks \in Seq(S)
  BY DEF DigestInv
<1>2. digest = DigestOf(blocks) /\ hashing = "update"
  BY DEF DigestInv, Update
<1>3. CASE UNCHANGED <<blocks, digest>> /\ hashing' = "final"
  BY <1>1, <1>2, <1>3
<1>4. ASSUME NEW filled, blocks' = Append(blocks, filled), digest' = Transformed(<<filled>>),
             hashing' = hashing
      PROVE  /\ \E T : blocks' \in Seq(T)
             /\ digest' = DigestOf(blocks')
             /\ hashing' # "done"
  <2> DEFINE T == S \cup {filled}
  <2>1. blocks \in Seq(T) /\ <<filled>> \in Seq(T)
    BY <1>1
  <2>2. blocks' = blocks \o <<filled>> /\ blocks' \in Seq(T)
    BY <1>4, <2>1
  <2> HIDE DEF T
  <2>3. DigestOf(blocks \o <<filled>>) = Transformed(<<filled>>)
    BY <1>2, <2>1, DigestGoesOn
  <2> QED
    BY <1>2, <1>4, <2>2, <2>3
<1> DEFINE room   == BlockBytes - Len(buffer)
           filled == buffer \o SubSeq(stream, 1, IF room < Len(stream) THEN room ELSE Len(stream))
<1>5. \/ UNCHANGED <<blocks, digest>> /\ hashing' = "final"
      \/ blocks' = Append(blocks, filled) /\ digest' = Transformed(<<filled>>) /\ hashing' = hashing
  <2>1. IF Len(filled) = BlockBytes
          THEN blocks' = Append(blocks, filled) /\ digest' = Transformed(<<filled>>)
                 /\ hashing' = hashing
          ELSE UNCHANGED <<blocks, digest>> /\ hashing' = "final"
    BY DEF Update
  <2> HIDE DEF filled
  <2> QED
    BY <2>1
<1> HIDE DEF filled
<1> QED
  BY <1>3, <1>4, <1>5

LEMMA FinalGivesDigest ==
  ASSUME DigestInv, Final
  PROVE  /\ \E S : blocks' \in Seq(S)
         /\ hash' = WordDigits(DigestOf(blocks'))
         /\ hashing' = "done"
<1>1. PICK S : blocks \in Seq(S)
  BY DEF DigestInv
<1>2. digest = DigestOf(blocks) /\ hashing' = "done"
  BY DEF DigestInv, Final
<1> DEFINE length == LengthField(8 * (Len(blocks) * BlockBytes + Len(buffer)))
           marked == Append(buffer, 128)
           padded == marked \o Zeros(BlockBytes - Len(marked))
           room   == BlockBytes - LengthBytes
           x == Zeros(room) \o length
           y == SubSeq(padded, 1, room) \o length
           more == IF Spills(Len(marked)) THEN <<padded, x>> ELSE <<y>>
<1>3. blocks' = blocks \o more /\ hash' = WordDigits(Transformed(more))
  BY DEF Final
<1>4. \E T : more \in Seq(T)
  <2> HIDE DEF padded, x, y, marked
  <2>1. more = <<padded, x>> \/ more = <<y>>
    OBVIOUS
  <2> HIDE DEF more
  <2>2. <<padded, x>> \in Seq({padded, x}) /\ <<y>> \in Seq({y})
    OBVIOUS
  <2> QED
    BY <2>1, <2>2
<1> HIDE DEF more
<1>5. PICK T : more \in Seq(T)
  BY <1>4
<1>6. blocks \in Seq(S \cup T) /\ more \in Seq(S \cup T) /\ blocks \o more \in Seq(S \cup T)
  BY <1>1, <1>5
<1>7. DigestOf(blocks \o more) = Transformed(more)
  BY <1>2, <1>6, DigestGoesOn
<1> QED
  BY <1>2, <1>3, <1>6, <1>7

\* transform() and the way update() and final() carry the digest from block to
\* block give, as hexadecimal digits, what FIPS 180 gives the blocks: what sha1()
\* returns is the hash, and no digest of a file before gets in.
THEOREM DigestsCorrect == Spec => []DigestsAsSpecified
<1>1. TorrentInit => DigestInv
  <2>1. <<>> \in Seq({})
    OBVIOUS
  <2> QED
    BY <2>1 DEF TorrentInit, HashInit, DigestInv, Hashed
<1>2. DigestInv /\ [Next]_vars => DigestInv'
  <2> SUFFICES ASSUME DigestInv, [Next]_vars
               PROVE  DigestInv'
    OBVIOUS
  <2>1. CASE Hash
    <3>1. CASE Update
      <4>1. /\ \E S : blocks' \in Seq(S)
            /\ digest' = DigestOf(blocks')
            /\ hashing' # "done"
        BY <3>1, UpdateKeepsDigest
      <4>2. phase' = "hash"
        BY <2>1, <4>1 DEF Hash, Goes
      <4> QED
        BY <4>1, <4>2 DEF DigestInv, Hashed
    <3>2. CASE Final
      <4>1. /\ \E S : blocks' \in Seq(S)
            /\ hash' = WordDigits(DigestOf(blocks'))
            /\ hashing' = "done"
        BY <3>2, FinalGivesDigest
      <4>2. phase' = "parse"
        BY <2>1, <4>1 DEF Hash, Goes
      <4> QED
        BY <4>1, <4>2 DEF DigestInv, Hashed, IsDigestOfBlocks
    <3> QED
      BY <2>1, <3>1, <3>2 DEF Hash, HashNext
  <2>2. CASE ReadTemp
    <3>1. blocks' = <<>> /\ digest' = Start /\ hashing' = "update" /\ phase' = "hash"
      BY <2>2 DEF ReadTemp, Begin, Goes
    <3>2. blocks' \in Seq({})
      BY <3>1
    <3> QED
      BY <3>1, <3>2, DigestOfNone DEF DigestInv, Hashed
  <2>3. ASSUME UNCHANGED sha1, phase' = "hash" => phase = "hash", phase = "hash" => phase' = "hash",
               Hashed' => Hashed
        PROVE  DigestInv'
    BY <2>3 DEF DigestInv, sha1, IsDigestOfBlocks
  <2>4. CASE ReadFile
    BY <2>3, <2>4 DEF ReadFile, Goes, Hashed
  <2>5. CASE Extract
    <3>1. phase = "extract" /\ phase' \in {"terminated", "undefined", "write"} /\ UNCHANGED sha1
      <4>1. \A fields, dict : Defect(fields, dict) \in {"none", "terminated", "undefined"}
        BY DEF Defect
      <4> QED
        BY <2>5, <4>1 DEF Extract, Goes
    <3> QED
      BY <2>3, <3>1 DEF Hashed
  <2>6. CASE WriteTemp \/ WriteTempFails \/ OtherClient
    BY <2>3, <2>6 DEF WriteTemp, WriteTempFails, OtherClient, Goes, Hashed
  <2>7. CASE Parse
    <3>1. phase = "parse" /\ phase' \in {"terminated", "ready"} /\ UNCHANGED sha1
      BY <2>7 DEF Parse
    <3> QED
      BY <2>3, <3>1 DEF Hashed
  <2>8. CASE UNCHANGED vars
    BY <2>3, <2>8 DEF vars, Hashed
  <2>9. CASE Stopped
    BY <2>8, <2>9 DEF Stopped
  <2> QED
    BY <2>1, <2>2, <2>4, <2>5, <2>6, <2>7, <2>8, <2>9 DEF Next
<1>3. DigestInv => DigestsAsSpecified
  BY DEF DigestInv, DigestsAsSpecified
<1> QED
  BY <1>1, <1>2, <1>3, PTL DEF Spec
-----------------------------------------------------------------------------
(* The padding                                                             *)

\* f has the bytes of the first blocks of bs.
Joins(f, S, bs) ==
    /\ f \in [0 .. Len(bs) -> Seq(S)]
    /\ f[0] = <<>>
    /\ \A k \in 1 .. Len(bs) : f[k] = f[k - 1] \o bs[k]

LEMMA JoinsExist ==
  ASSUME NEW S, NEW bs \in Seq(Seq(S))
  PROVE  \E f : Joins(f, S, bs)
<1> DEFINE n == Len(bs)
           G == [kd \in (1 .. n) \X Seq(S) |-> kd[2] \o bs[kd[1]]]
<1>1. n \in Nat /\ \A k \in 1 .. n : bs[k] \in Seq(S)
  OBVIOUS
<1>2. \A k \in 1 .. n, s \in Seq(S) : s \o bs[k] \in Seq(S)
  BY <1>1
<1>3. /\ G \in [(1 .. n) \X Seq(S) -> Seq(S)]
      /\ \A k \in 1 .. n, s \in Seq(S) : G[<<k, s>>] = s \o bs[k]
  BY <1>2
<1> HIDE DEF G, n
<1>4. PICK f \in [0 .. n -> Seq(S)] : f[0] = <<>> /\ \A k \in 1 .. n : f[k] = G[<<k, f[k - 1]>>]
  <2>1. <<>> \in Seq(S)
    OBVIOUS
  <2>2. DefinedUpTo(n, Seq(S), <<>>, G)
    BY <1>1, <1>3, <2>1, StepByStep
  <2> QED
    BY <2>2 DEF DefinedUpTo
<1>5. ASSUME NEW k \in 1 .. n
      PROVE  f[k] = f[k - 1] \o bs[k]
  <2>1. k - 1 \in 0 .. n
    BY <1>1
  <2>2. f[k - 1] \in Seq(S)
    BY <2>1
  <2> QED
    BY <1>3, <1>4, <2>2
<1> QED
  BY <1>4, <1>5 DEF Joins, n

\* FlattenSeq of SequencesExt is the last of these.
LEMMA Flattened ==
  ASSUME NEW S, NEW bs \in Seq(Seq(S)), NEW f, Joins(f, S, bs)
  PROVE  FlattenSeq(bs) = f[Len(bs)]
<1> DEFINE n == Len(bs)
           NextN(g, k) == IF k = 1 THEN bs[k] ELSE g[k - 1] \o bs[k]
           IsN(g) == g = [k \in 1 .. n |-> NextN(g, k)]
           flatten == CHOOSE g : IsN(g)
<1>1. n \in Nat /\ \A k \in 1 .. n : bs[k] \in Seq(S)
  OBVIOUS
<1>2. CASE n = 0
  <2>1. bs = <<>>
    BY <1>2
  <2>2. FlattenSeq(bs) = bs
    BY <1>2 DEF FlattenSeq
  <2> QED
    BY <1>2, <2>1, <2>2 DEF Joins
<1>3. CASE n # 0
  <2>1. FlattenSeq(bs) = flatten[n]
    BY <1>3 DEF FlattenSeq
  <2> HIDE DEF n
  <2>2. /\ f \in [0 .. n -> Seq(S)] /\ f[0] = <<>>
        /\ \A k \in 1 .. n : f[k] = f[k - 1] \o bs[k]
    BY DEF Joins, n
  <2> DEFINE g == [k \in 1 .. n |-> f[k]]
  <2>3. \A k \in 1 .. n : f[k] = NextN(g, k)
    <3> SUFFICES ASSUME NEW k \in 1 .. n
                 PROVE  f[k] = NextN(g, k)
      OBVIOUS
    <3>1. CASE k = 1
      <4>1. f[k] = bs[k]
        <5>1. f[k] = f[k - 1] \o bs[k]
          BY <2>2
        <5>2. k - 1 = 0
          BY <3>1
        <5>3. bs[k] \in Seq(S)
          BY <1>1
        <5>4. \A q \in Seq(S) : <<>> \o q = q
          OBVIOUS
        <5> QED
          BY <2>2, <5>1, <5>2, <5>3, <5>4
      <4> QED
        BY <3>1, <4>1
    <3>2. CASE k # 1
      <4>1. k - 1 \in 1 .. n
        BY <1>1, <3>2
      <4>2. g[k - 1] = f[k - 1]
        BY <4>1
      <4> HIDE DEF g
      <4> QED
        BY <2>2, <3>2, <4>2
    <3> QED
      BY <3>1, <3>2
  <2>4. IsN(g)
    <3> HIDE DEF NextN
    <3> QED
      BY <2>3
  <2>5. IsN(flatten)
    BY <2>4
  <2> HIDE DEF flatten, g
  <2>6. \A k \in 1 .. n : flatten[k] = NextN(flatten, k)
    <3> HIDE DEF NextN
    <3> QED
      BY <2>5
  <2> DEFINE T == {0} \cup {k \in 1 .. n : flatten[k] = f[k]}
  <2>7. ASSUME NEW k \in 1 .. n, k - 1 \in T
        PROVE  k \in T
    <3>1. CASE k = 1
      <4>1. f[k] = bs[k]
        <5>1. f[k] = f[k - 1] \o bs[k]
          BY <2>2
        <5>2. k - 1 = 0
          BY <3>1
        <5>3. bs[k] \in Seq(S)
          BY <1>1
        <5>4. \A q \in Seq(S) : <<>> \o q = q
          OBVIOUS
        <5> QED
          BY <2>2, <5>1, <5>2, <5>3, <5>4
      <4>2. flatten[k] = bs[k]
        BY <2>6, <3>1
      <4> QED
        BY <3>1, <4>1, <4>2
    <3>2. CASE k # 1
      <4>1. flatten[k - 1] = f[k - 1]
        BY <1>1, <2>7, <3>2
      <4>2. flatten[k] = flatten[k - 1] \o bs[k]
        BY <2>6, <3>2
      <4> QED
        BY <2>2, <4>1, <4>2
    <3> QED
      BY <3>1, <3>2
  <2>8. \A k \in 0 .. n : k \in T
    <3>1. 0 \in T
      OBVIOUS
    <3> HIDE DEF T
    <3> QED
      BY <1>1, <2>7, <3>1, CountUp
  <2>9. flatten[n] = f[n]
    BY <1>1, <1>3, <2>8
  <2> QED
    BY <2>1, <2>9 DEF n
<1> QED
  BY <1>2, <1>3

LEMMA FlattenType ==
  ASSUME NEW S, NEW bs \in Seq(Seq(S))
  PROVE  FlattenSeq(bs) \in Seq(S)
<1>1. PICK f : Joins(f, S, bs)
  BY JoinsExist
<1>2. FlattenSeq(bs) = f[Len(bs)]
  BY <1>1, Flattened
<1>3. Len(bs) \in Nat /\ f \in [0 .. Len(bs) -> Seq(S)]
  BY <1>1 DEF Joins
<1> QED
  BY <1>2, <1>3

LEMMA FlattenAppend ==
  ASSUME NEW S, NEW bs \in Seq(Seq(S)), NEW s \in Seq(S)
  PROVE  FlattenSeq(Append(bs, s)) = FlattenSeq(bs) \o s
<1> DEFINE n == Len(bs)
           all == Append(bs, s)
<1>1. /\ n \in Nat /\ all \in Seq(Seq(S)) /\ Len(all) = n + 1
      /\ all[n + 1] = s /\ \A k \in 1 .. n : all[k] = bs[k]
  OBVIOUS
<1>2. PICK f : Joins(f, S, bs)
  BY JoinsExist
<1>3. /\ f \in [0 .. n -> Seq(S)] /\ f[0] = <<>>
      /\ \A k \in 1 .. n : f[k] = f[k - 1] \o bs[k]
  BY <1>2 DEF Joins
<1> DEFINE g == [k \in 0 .. n + 1 |-> IF k = n + 1 THEN f[n] \o s ELSE f[k]]
<1> HIDE DEF n, all
<1>4. f[n] \in Seq(S) /\ f[n] \o s \in Seq(S)
  <2>1. f[n] \in Seq(S)
    BY <1>1, <1>3
  <2> QED
    BY <2>1
<1>5. /\ \A k \in 0 .. n : g[k] = f[k] /\ g[k] \in Seq(S)
      /\ g[n + 1] = f[n] \o s
      /\ g = [k \in 0 .. n + 1 |-> g[k]]
  <2>1. \A k \in 0 .. n : k \in 0 .. n + 1 /\ k # n + 1
    BY <1>1
  <2> QED
    BY <1>1, <1>3, <2>1
<1> HIDE DEF g
<1>6. Joins(g, S, all)
  <2>1. \A k \in 0 .. n + 1 : g[k] \in Seq(S)
    <3>1. \A k \in 0 .. n + 1 : k = n + 1 \/ k \in 0 .. n
      BY <1>1
    <3> QED
      BY <1>4, <1>5, <3>1
  <2>2. g \in [0 .. n + 1 -> Seq(S)]
    BY <1>5, <2>1
  <2>4. g[0] = <<>>
    <3>1. 0 \in 0 .. n
      BY <1>1
    <3> QED
      BY <1>3, <1>5, <3>1
  <2>3. ASSUME NEW k \in 1 .. n + 1
        PROVE  g[k] = g[k - 1] \o all[k]
    <3>1. k - 1 \in 0 .. n
      BY <1>1
    <3>2. g[k - 1] = f[k - 1]
      BY <1>5, <3>1
    <3>3. CASE k = n + 1
      <4>1. k - 1 = n
        BY <1>1, <3>3
      <4> QED
        BY <1>1, <1>5, <3>2, <3>3, <4>1
    <3>4. CASE k # n + 1
      <4>1. k \in 1 .. n /\ k \in 0 .. n
        BY <1>1, <3>4
      <4> QED
        BY <1>1, <1>3, <1>5, <3>2, <4>1
    <3> QED
      BY <3>3, <3>4
  <2> QED
    BY <1>1, <2>2, <2>3, <2>4 DEF Joins
<1>7. FlattenSeq(all) = g[n + 1]
  BY <1>1, <1>6, Flattened
<1>8. FlattenSeq(bs) = f[n]
  BY <1>2, Flattened DEF n
<1> QED
  BY <1>5, <1>7, <1>8 DEF all

LEMMA FlattenLen ==
  ASSUME NEW S, NEW bs \in Seq(Seq(S)), \A k \in 1 .. Len(bs) : Len(bs[k]) = 64
  PROVE  Len(FlattenSeq(bs)) = 64 * Len(bs)
<1> DEFINE n == Len(bs)
<1>1. n \in Nat /\ \A k \in 1 .. n : bs[k] \in Seq(S) /\ Len(bs[k]) = 64
  OBVIOUS
<1>2. PICK f : Joins(f, S, bs)
  BY JoinsExist
<1>3. /\ f \in [0 .. n -> Seq(S)] /\ f[0] = <<>>
      /\ \A k \in 1 .. n : f[k] = f[k - 1] \o bs[k]
  BY <1>2 DEF Joins
<1>4. FlattenSeq(bs) = f[n]
  BY <1>2, Flattened
<1> HIDE DEF n
<1> DEFINE T == {k \in 0 .. n : Len(f[k]) = 64 * k}
<1>5. 0 \in T
  BY <1>1, <1>3
<1>6. ASSUME NEW k \in 1 .. n, k - 1 \in T
      PROVE  k \in T
  <2>1. k - 1 \in 0 .. n /\ Len(f[k - 1]) = 64 * (k - 1)
    BY <1>6
  <2>2. f[k - 1] \in Seq(S) /\ bs[k] \in Seq(S) /\ Len(bs[k]) = 64
    BY <1>1, <1>3, <2>1
  <2>3. Len(f[k - 1] \o bs[k]) = Len(f[k - 1]) + Len(bs[k])
    <3>1. \A q, r \in Seq(S) : Len(q \o r) = Len(q) + Len(r)
      OBVIOUS
    <3> QED
      BY <2>2, <3>1
  <2>4. Len(f[k]) = 64 * (k - 1) + 64
    BY <1>3, <2>1, <2>2, <2>3
  <2> QED
    BY <2>4
<1>7. \A k \in 0 .. n : k \in T
  <2> HIDE DEF T
  <2> QED
    BY <1>1, <1>5, <1>6, CountUp
<1>8. Len(f[n]) = 64 * n
  BY <1>1, <1>7
<1> QED
  BY <1>4, <1>8 DEF n
LEMMA ZerosType ==
  ASSUME NEW n \in Nat
  PROVE  Zeros(n) \in Seq({0}) /\ Len(Zeros(n)) = n /\ \A i \in 1 .. n : Zeros(n)[i] = 0
<1>1. [i \in 1 .. n |-> 0] \in [1 .. n -> {0}]
  OBVIOUS
<1>2. [i \in 1 .. n |-> 0] \in Seq({0}) /\ Len([i \in 1 .. n |-> 0]) = n
  BY <1>1, FunctionIsSeq
<1> QED
  BY <1>2 DEF Zeros

LEMMA ZerosJoin ==
  ASSUME NEW m \in Nat, NEW n \in Nat
  PROVE  Zeros(m) \o Zeros(n) = Zeros(m + n)
<1>1. Zeros(m) \in Seq({0}) /\ Len(Zeros(m)) = m /\ \A i \in 1 .. m : Zeros(m)[i] = 0
  BY ZerosType
<1>2. Zeros(n) \in Seq({0}) /\ Len(Zeros(n)) = n /\ \A i \in 1 .. n : Zeros(n)[i] = 0
  BY ZerosType
<1>3. m + n \in Nat
  OBVIOUS
<1>4. /\ Zeros(m + n) \in Seq({0}) /\ Len(Zeros(m + n)) = m + n
      /\ \A i \in 1 .. m + n : Zeros(m + n)[i] = 0
  BY <1>3, ZerosType
<1>5. PICK a \in Seq({0}) : a = Zeros(m) /\ Len(a) = m /\ \A i \in 1 .. m : a[i] = 0
  BY <1>1
<1>6. PICK b \in Seq({0}) : b = Zeros(n) /\ Len(b) = n /\ \A i \in 1 .. n : b[i] = 0
  BY <1>2
<1>7. a \o b \in Seq({0}) /\ Len(a \o b) = m + n
  BY <1>5, <1>6
<1>8. \A i \in 1 .. m + n : (a \o b)[i] = 0
  BY <1>7, Elements
<1> QED
  BY <1>4, <1>5, <1>6, <1>7, <1>8, SeqEqual

LEMMA LengthFieldType ==
  ASSUME NEW n
  PROVE  \E S : LengthField(n) \in Seq(S) /\ Len(LengthField(n)) = 8
<1> DEFINE rest == CHOOSE f : f = [k \in 0 .. LengthBytes |-> IF k = 0 THEN n ELSE f[k - 1] \div 256]
           field == [k \in 1 .. LengthBytes |-> rest[LengthBytes - k] % 256]
           S == {rest[LengthBytes - k] % 256 : k \in 1 .. LengthBytes}
<1>1. LengthField(n) = field
  BY DEF LengthField
<1> HIDE DEF rest
<1>2. LengthBytes = 8
  BY DEF LengthBytes
<1>3. field \in [1 .. 8 -> S]
  BY <1>2
<1> HIDE DEF field, S
<1>4. field \in Seq(S) /\ Len(field) = 8
  BY <1>3, FunctionIsSeq
<1> QED
  BY <1>1, <1>4

LEMMA PaddedWith ==
  ASSUME NEW S, NEW message \in Seq(S), NEW z \in 0 .. 63, (Len(message) + 1 + z + 8) % 64 = 0
  PROVE  Padded(message) = (Append(message, 128) \o Zeros(z)) \o LengthField(8 * Len(message))
<1> DEFINE IsPad(n) == n \in 0 .. BlockBytes - 1
                         /\ (Len(message) + 1 + n + LengthBytes) % BlockBytes = 0
<1>1. BlockBytes = 64 /\ LengthBytes = 8 /\ Len(message) \in Nat
  BY DEF BlockBytes, LengthBytes
<1>2. IsPad(z)
  BY <1>1
<1>3. \A n : IsPad(n) => n = z
  BY <1>1
<1> DEFINE c == CHOOSE n \in 0 .. BlockBytes - 1 :
                  (Len(message) + 1 + n + LengthBytes) % BlockBytes = 0
<1>4. IsPad(c)
  BY <1>2
<1>5. c = z
  <2> HIDE DEF IsPad, c
  <2> QED
    BY <1>3, <1>4
<1>6. Padded(message) = (Append(message, 128) \o Zeros(c)) \o LengthField(8 * Len(message))
  BY DEF Padded
<1> HIDE DEF c
<1> QED
  BY <1>5, <1>6

Regroups3(a, b, c) == a \o (b \o c) = (a \o b) \o c
Regroups4(a, b, d, e) == a \o ((b \o d) \o e) = ((a \o b) \o d) \o e
Regroups5(a, b, c, d, e) == (a \o (b \o c)) \o (d \o e) = ((a \o b) \o (c \o d)) \o e

LEMMA Regroup3 ==
  ASSUME NEW S, NEW a \in Seq(S), NEW b \in Seq(S), NEW c \in Seq(S)
  PROVE  Regroups3(a, b, c)
BY DEF Regroups3

LEMMA Regroup4 ==
  ASSUME NEW S, NEW a \in Seq(S), NEW b \in Seq(S), NEW d \in Seq(S), NEW e \in Seq(S)
  PROVE  Regroups4(a, b, d, e)
<1>1. \A x, y, z \in Seq(S) : (x \o y) \o z = x \o (y \o z)
  OBVIOUS
<1>2. a \o b \in Seq(S) /\ b \o d \in Seq(S)
  OBVIOUS
<1>3. a \o ((b \o d) \o e) = (a \o (b \o d)) \o e
  BY <1>1, <1>2
<1>4. a \o (b \o d) = (a \o b) \o d
  BY <1>1
<1> QED
  BY <1>3, <1>4 DEF Regroups4

LEMMA Regroup5 ==
  ASSUME NEW S, NEW a \in Seq(S), NEW b \in Seq(S), NEW c \in Seq(S), NEW d \in Seq(S), NEW e \in Seq(S)
  PROVE  Regroups5(a, b, c, d, e)
<1>1. \A x, y, z \in Seq(S) : (x \o y) \o z = x \o (y \o z)
  OBVIOUS
<1>2. \A x, y \in Seq(S) : x \o y \in Seq(S)
  OBVIOUS
<1>3. a \o b \in Seq(S) /\ b \o c \in Seq(S) /\ c \o d \in Seq(S) /\ d \o e \in Seq(S)
  BY <1>2
<1>4. (a \o b) \o c \in Seq(S)
  BY <1>2, <1>3
<1>5. a \o (b \o c) = (a \o b) \o c
  BY <1>1
<1>6. (a \o b) \o (c \o d) = ((a \o b) \o c) \o d
  <2>1. PICK x \in Seq(S) : x = a \o b
    BY <1>3
  <2>2. (x \o c) \o d = x \o (c \o d)
    OBVIOUS
  <2> QED
    BY <2>1, <2>2
<1>7. (((a \o b) \o c) \o d) \o e = ((a \o b) \o c) \o (d \o e)
  BY <1>1, <1>4
<1> QED
  BY <1>5, <1>6, <1>7 DEF Regroups5

\* The blocks that final() adds, of the buffer and the length.
AddedBlocks(length) ==
    LET marked == Append(buffer, 128)
        padded == marked \o Zeros(BlockBytes - Len(marked))
        room   == BlockBytes - LengthBytes
    IN  IF Spills(Len(marked)) THEN <<padded, Zeros(room) \o length>>
        ELSE <<SubSeq(padded, 1, room) \o length>>

LEMMA JoinType ==
  ASSUME NEW S, NEW x \in Seq(S), NEW y \in Seq(S)
  PROVE  x \o y \in Seq(S) /\ Len(x \o y) = Len(x) + Len(y)
OBVIOUS

LEMMA AppendToJoin ==
  ASSUME NEW S, NEW x \in Seq(S), NEW y \in Seq(S), NEW c \in S
  PROVE  Append(x \o y, c) = x \o Append(y, c)
OBVIOUS

LEMMA FirstOfJoin ==
  ASSUME NEW S, NEW x \in Seq(S), NEW y \in Seq(S)
  PROVE  SubSeq(x \o y, 1, Len(x)) = x
<1>1. CASE x = <<>>
  BY <1>1
<1>2. CASE x # <<>>
  <2>1. Len(x) \in 1 .. Len(x) /\ 1 \in 1 .. Len(x)
    BY <1>2
  <2>2. SubSeq(x \o y, 1, Len(x)) = SubSeq(x, 1, Len(x))
    BY <2>1, SubSeqOfConcat1
  <2>3. SubSeq(x, 1, Len(x)) = x
    BY SubSeqFull
  <2> QED
    BY <2>2, <2>3
<1> QED
  BY <1>1, <1>2

\* A padded buffer without room for the length makes two blocks, one with room
\* for it makes one.
LEMMA AddedBlocksAre ==
  ASSUME NEW S, buffer \in Seq(S), Len(buffer) \in 0 .. 63, 128 \in S, 0 \in S,
         NEW length \in Seq(S), Len(length) = 8
  PROVE  /\ Len(buffer) > 55 =>
              AddedBlocks(length) = << Append(buffer, 128) \o Zeros(63 - Len(buffer)),
                                       Zeros(56) \o length >>
         /\ Len(buffer) <= 55 =>
              AddedBlocks(length) = << (Append(buffer, 128) \o Zeros(55 - Len(buffer))) \o length >>
<1> DEFINE marked == Append(buffer, 128)
           m == Len(buffer)
<1>1. marked \in Seq(S) /\ Len(marked) = m + 1 /\ m \in 0 .. 63
  OBVIOUS
<1>2. BlockBytes = 64 /\ LengthBytes = 8 /\ Spills(m + 1) = (m + 1 > 56)
  BY DEF BlockBytes, LengthBytes, Spills
<1>3. BlockBytes - Len(marked) = 63 - m /\ BlockBytes - LengthBytes = 56
  BY <1>1, <1>2
<1> DEFINE padded == marked \o Zeros(63 - m)
<1>4. AddedBlocks(length) = IF m + 1 > 56 THEN <<padded, Zeros(56) \o length>>
                            ELSE <<SubSeq(padded, 1, 56) \o length>>
  BY <1>1, <1>2, <1>3 DEF AddedBlocks
<1> HIDE DEF marked, m
<1>5. ASSUME m <= 55
      PROVE  SubSeq(padded, 1, 56) = marked \o Zeros(55 - m)
  <2>1. 55 - m \in Nat /\ (55 - m) + 8 = 63 - m
    BY <1>1, <1>5
  <2>2. PICK z \in Seq(S) : z = Zeros(55 - m) /\ Len(z) = 55 - m
    <3>1. Zeros(55 - m) \in Seq({0}) /\ Len(Zeros(55 - m)) = 55 - m
      BY <2>1, ZerosType
    <3> QED
      BY <3>1
  <2>3. PICK e \in Seq(S) : e = Zeros(8)
    <3>1. Zeros(8) \in Seq({0})
      BY ZerosType
    <3> QED
      BY <3>1
  <2>4. Zeros(63 - m) = z \o e
    BY <2>1, <2>2, <2>3, ZerosJoin
  <2>5. marked \o (z \o e) = (marked \o z) \o e
    <3>1. PICK y \in Seq(S) : y = marked
      BY <1>1
    <3>2. y \o (z \o e) = (y \o z) \o e
      <4>1. Regroups3(y, z, e)
        BY Regroup3
      <4> QED
        BY <4>1 DEF Regroups3
    <3> QED
      BY <3>1, <3>2
  <2>6. marked \o z \in Seq(S) /\ Len(marked \o z) = 56
    BY <1>1, <2>2
  <2>7. \A x \in Seq(S) : SubSeq(x \o e, 1, Len(x)) = x
    BY FirstOfJoin
  <2> QED
    BY <2>2, <2>4, <2>5, <2>6, <2>7
<1> HIDE DEF padded
<1>6. PICK x : x = <<padded, Zeros(56) \o length>>
  OBVIOUS
<1>7. PICK y : y = <<SubSeq(padded, 1, 56) \o length>>
  OBVIOUS
<1>8. AddedBlocks(length) = IF m > 55 THEN x ELSE y
  <2>1. m + 1 > 56 <=> m > 55
    BY <1>1
  <2> QED
    BY <1>4, <1>6, <1>7, <2>1
<1>9. (m > 55 => AddedBlocks(length) = x) /\ (m <= 55 => AddedBlocks(length) = y)
  <2>1. m <= 55 => ~(m > 55)
    BY <1>1
  <2> QED
    BY <1>8, <2>1
<1> QED
  BY <1>5, <1>6, <1>7, <1>9 DEF padded, marked, m

FlattensTwo(bs, a, u, v, length) ==
    FlattenSeq(bs \o << a \o u, v \o length >>)
      = ((FlattenSeq(bs) \o a) \o (u \o v)) \o length
FlattensOne(bs, a, u, length) ==
    FlattenSeq(bs \o << (a \o u) \o length >>) = ((FlattenSeq(bs) \o a) \o u) \o length

LEMMA FlattenTwo ==
  ASSUME NEW S, NEW bs \in Seq(Seq(S)), NEW a \in Seq(S), NEW u \in Seq(S), NEW v \in Seq(S),
         NEW length \in Seq(S)
  PROVE  FlattensTwo(bs, a, u, v, length)
<1> DEFINE f == FlattenSeq(bs)
           p == a \o u
           q == v \o length
<1>1. f \in Seq(S) /\ p \in Seq(S) /\ q \in Seq(S)
  BY FlattenType
<1>2. (f \o p) \o q = ((f \o a) \o (u \o v)) \o length
  <2> HIDE DEF f
  <2>1. Regroups5(f, a, u, v, length)
    BY <1>1, Regroup5
  <2> QED
    BY <2>1 DEF Regroups5
<1> HIDE DEF p, q
<1>3. bs \o <<p, q>> = Append(Append(bs, p), q) /\ Append(bs, p) \in Seq(Seq(S))
  BY <1>1
<1>4. FlattenSeq(Append(Append(bs, p), q)) = FlattenSeq(Append(bs, p)) \o q
  BY <1>1, <1>3, FlattenAppend
<1>5. FlattenSeq(Append(bs, p)) = f \o p
  BY <1>1, FlattenAppend
<1> QED
  BY <1>2, <1>3, <1>4, <1>5 DEF FlattensTwo, p, q

LEMMA FlattenOne ==
  ASSUME NEW S, NEW bs \in Seq(Seq(S)), NEW a \in Seq(S), NEW u \in Seq(S), NEW length \in Seq(S)
  PROVE  FlattensOne(bs, a, u, length)
<1> DEFINE f == FlattenSeq(bs)
           p == (a \o u) \o length
<1>1. f \in Seq(S) /\ p \in Seq(S)
  BY FlattenType
<1>2. f \o p = ((f \o a) \o u) \o length
  <2> HIDE DEF f
  <2>1. Regroups4(f, a, u, length)
    BY <1>1, Regroup4
  <2> QED
    BY <2>1 DEF Regroups4
<1> HIDE DEF p
<1>3. bs \o <<p>> = Append(bs, p)
  BY <1>1
<1>4. FlattenSeq(Append(bs, p)) = f \o p
  BY <1>1, FlattenAppend
<1> QED
  BY <1>2, <1>3, <1>4 DEF FlattensOne, p

AreBlocks(bs) == \A k \in DOMAIN bs : Len(bs[k]) = 64

LEMMA OneMoreBlock ==
  ASSUME NEW S, NEW bs \in Seq(S), AreBlocks(bs), NEW p \in S, Len(p) = 64
  PROVE  AreBlocks(bs \o <<p>>)
BY DEF AreBlocks

LEMMA TwoMoreBlocks ==
  ASSUME NEW S, NEW bs \in Seq(S), AreBlocks(bs), NEW p \in S, Len(p) = 64, NEW q \in S, Len(q) = 64
  PROVE  AreBlocks(bs \o <<p, q>>)
BY DEF AreBlocks

\* The message has gone into the blocks, but for what is in the buffer.
Unfinished(S, message, length) ==
    /\ 128 \in S /\ 0 \in S
    /\ buffer \in Seq(S) /\ Len(buffer) \in 0 .. 63
    /\ blocks \in Seq(Seq(S)) /\ AreBlocks(blocks)
    /\ message = FlattenSeq(blocks) \o buffer
    /\ length \in Seq(S) /\ Len(length) = 8 /\ length = LengthField(8 * Len(message))

LEMMA FinalPads ==
  ASSUME NEW S, NEW message, NEW length, Unfinished(S, message, length),
         NEW all, all = blocks \o AddedBlocks(length)
  PROVE  /\ \A k \in DOMAIN all : Len(all[k]) = BlockBytes
         /\ FlattenSeq(all) = Padded(message)
<1>1. PICK marked, m : marked = Append(buffer, 128) /\ m = Len(buffer)
  OBVIOUS
<1>2. marked \in Seq(S) /\ Len(marked) = m + 1 /\ m \in 0 .. 63
  <2>1. buffer \in Seq(S) /\ Len(buffer) \in 0 .. 63 /\ 128 \in S
    BY DEF Unfinished
  <2>2. Append(buffer, 128) \in Seq(S) /\ Len(Append(buffer, 128)) = Len(buffer) + 1
    BY <2>1, AppendProperties
  <2> QED
    BY <1>1, <2>1, <2>2
<1>3. PICK f \in Seq(S) : f = FlattenSeq(blocks) /\ Len(f) = 64 * Len(blocks) /\ Len(blocks) \in Nat
  <2>1. blocks \in Seq(Seq(S)) /\ \A k \in 1 .. Len(blocks) : Len(blocks[k]) = 64
    BY DEF Unfinished, AreBlocks
  <2>2. FlattenSeq(blocks) \in Seq(S)
    BY <2>1, FlattenType
  <2>3. Len(FlattenSeq(blocks)) = 64 * Len(blocks)
    BY <2>1, FlattenLen
  <2> QED
    BY <2>1, <2>2, <2>3
<1>4. BlockBytes = 64 /\ length \in Seq(S) /\ Len(length) = 8 /\ blocks \in Seq(Seq(S))
  BY DEF BlockBytes, Unfinished
<1>5. message \in Seq(S) /\ Len(message) = 64 * Len(blocks) + m
  <2>1. buffer \in Seq(S) /\ message = f \o buffer
    BY <1>3 DEF Unfinished
  <2>2. f \o buffer \in Seq(S) /\ Len(f \o buffer) = Len(f) + Len(buffer)
    BY <2>1, JoinType
  <2> QED
    BY <1>1, <1>3, <2>1, <2>2
<1>6. Append(message, 128) = f \o marked
  <2>1. buffer \in Seq(S) /\ message = f \o buffer /\ 128 \in S
    BY <1>3 DEF Unfinished
  <2>2. Append(f \o buffer, 128) = f \o Append(buffer, 128)
    BY <2>1, AppendToJoin
  <2> QED
    BY <1>1, <2>1, <2>2
<1>7. \A z \in 0 .. 63 : Zeros(z) \in Seq(S) /\ Len(Zeros(z)) = z
  <2> TAKE z \in 0 .. 63
  <2>1. Zeros(z) \in Seq({0}) /\ Len(Zeros(z)) = z
    BY ZerosType
  <2>2. {0} \subseteq S
    BY DEF Unfinished
  <2>3. \A s \in Seq({0}) : s \in Seq(S)
    BY <2>2
  <2> QED
    BY <2>1, <2>3
<1>8. ASSUME NEW z \in 0 .. 63, (m + 1 + z + 8) % 64 = 0
      PROVE  Padded(message) = ((f \o marked) \o Zeros(z)) \o length
  <2>1. (Len(message) + 1 + z + 8) % 64 = 0
    <3>1. PICK n \in Nat, k \in 0 .. 63 : n = Len(blocks) /\ k = m
      BY <1>2, <1>3
    <3>2. (64 * n + k + 1 + z + 8) % 64 = (k + 1 + z + 8) % 64
      OBVIOUS
    <3> QED
      BY <1>5, <1>8, <3>1, <3>2
  <2>2. Padded(message) = (Append(message, 128) \o Zeros(z)) \o LengthField(8 * Len(message))
    BY <1>5, <2>1, PaddedWith
  <2> QED
    BY <1>6, <2>2 DEF Unfinished
<1>9. CASE m > 55
  <2>1. 63 - m \in 0 .. 63 /\ 119 - m \in 0 .. 63 /\ 56 \in 0 .. 63 /\ (63 - m) + 56 = 119 - m
    BY <1>2, <1>9
  <2>2. AddedBlocks(length) = << marked \o Zeros(63 - m), Zeros(56) \o length >>
    BY <1>1, <1>9, AddedBlocksAre DEF Unfinished
  <2>3. PICK u \in Seq(S) : u = Zeros(63 - m) /\ Len(u) = 63 - m
    BY <1>7, <2>1
  <2>4. PICK v \in Seq(S) : v = Zeros(56) /\ Len(v) = 56
    BY <1>7, <2>1
  <2>5. Zeros(119 - m) = u \o v
    <3>1. 63 - m \in Nat /\ 56 \in Nat
      BY <1>2, <2>1
    <3>2. Zeros(63 - m) \o Zeros(56) = Zeros((63 - m) + 56)
      BY <3>1, ZerosJoin
    <3> QED
      BY <2>1, <2>3, <2>4, <3>2
  <2>6. all = blocks \o << marked \o u, v \o length >>
    BY <2>2, <2>3, <2>4
  <2>7. FlattenSeq(all) = ((f \o marked) \o (u \o v)) \o length
    <3>1. FlattensTwo(blocks, marked, u, v, length)
      BY <1>2, <1>4, <2>3, <2>4, FlattenTwo
    <3> QED
      BY <1>3, <2>6, <3>1 DEF FlattensTwo
  <2>8. Padded(message) = ((f \o marked) \o Zeros(119 - m)) \o length
    <3>1. (m + 1 + (119 - m) + 8) % 64 = 0
      BY <1>2
    <3> QED
      BY <1>8, <2>1, <3>1
  <2>9. \A k \in DOMAIN all : Len(all[k]) = 64
    <3>1. marked \o u \in Seq(S) /\ Len(marked \o u) = Len(marked) + Len(u)
      BY <1>2, <2>3, JoinType
    <3>2. v \o length \in Seq(S) /\ Len(v \o length) = Len(v) + Len(length)
      BY <1>4, <2>4, JoinType
    <3>3. PICK p \in Seq(S) : p = marked \o u /\ Len(p) = 64
      <4>1. Len(marked) + Len(u) = 64
        BY <1>2, <2>3
      <4> QED
        BY <3>1, <4>1
    <3>4. PICK q \in Seq(S) : q = v \o length /\ Len(q) = 64
      <4>1. Len(v) + Len(length) = 64
        <5>1. Len(v) = 56
          BY <2>4
        <5> QED
          BY <1>4, <5>1
      <4> QED
        BY <3>2, <4>1
    <3>5. AreBlocks(blocks)
      BY DEF Unfinished
    <3>6. AreBlocks(blocks \o <<p, q>>)
      BY <1>4, <3>3, <3>4, <3>5, TwoMoreBlocks
    <3> QED
      BY <2>6, <3>3, <3>4, <3>6 DEF AreBlocks
  <2> QED
    BY <1>4, <2>5, <2>7, <2>8, <2>9
<1>10. CASE m <= 55
  <2>1. 55 - m \in 0 .. 63
    BY <1>2, <1>10
  <2>2. AddedBlocks(length) = << (marked \o Zeros(55 - m)) \o length >>
    BY <1>1, <1>10, AddedBlocksAre DEF Unfinished
  <2>3. PICK u \in Seq(S) : u = Zeros(55 - m) /\ Len(u) = 55 - m
    BY <1>7, <2>1
  <2>4. all = blocks \o << (marked \o u) \o length >>
    BY <2>2, <2>3
  <2>5. FlattenSeq(all) = ((f \o marked) \o u) \o length
    <3>1. FlattensOne(blocks, marked, u, length)
      BY <1>2, <1>4, <2>3, FlattenOne
    <3> QED
      BY <1>3, <2>4, <3>1 DEF FlattensOne
  <2>6. Padded(message) = ((f \o marked) \o Zeros(55 - m)) \o length
    <3>1. (m + 1 + (55 - m) + 8) % 64 = 0
      BY <1>2
    <3> QED
      BY <1>8, <2>1, <3>1
  <2>7. \A k \in DOMAIN all : Len(all[k]) = 64
    <3>1. marked \o u \in Seq(S) /\ Len(marked \o u) = Len(marked) + Len(u)
      BY <1>2, <2>3, JoinType
    <3>2. PICK p \in Seq(S) : p = marked \o u /\ Len(p) = 56
      <4>1. Len(marked) + Len(u) = 56
        BY <1>2, <2>3
      <4> QED
        BY <3>1, <4>1
    <3>3. p \o length \in Seq(S) /\ Len(p \o length) = Len(p) + Len(length)
      BY <1>4, <3>2, JoinType
    <3>4. PICK q \in Seq(S) : q = p \o length /\ Len(q) = 64
      <4>1. Len(p) + Len(length) = 64
        BY <1>4, <3>2
      <4> QED
        BY <3>3, <4>1
    <3>5. AreBlocks(blocks)
      BY DEF Unfinished
    <3>6. AreBlocks(blocks \o <<q>>)
      BY <1>4, <3>4, <3>5, OneMoreBlock
    <3> QED
      BY <2>4, <3>2, <3>4, <3>6 DEF AreBlocks
  <2> QED
    BY <1>4, <2>3, <2>5, <2>6, <2>7
<1> QED
  BY <1>2, <1>9, <1>10

\* The message is what is in the blocks, in the buffer and in the stream.
Splits(S, bs, buf, rest, message) ==
    /\ bs \in Seq(Seq(S)) /\ AreBlocks(bs)
    /\ buf \in Seq(S) /\ Len(buf) \in 0 .. 63
    /\ rest \in Seq(S)
    /\ (FlattenSeq(bs) \o buf) \o rest = message

LEMMA TakesAll ==
  ASSUME NEW S, NEW bs, NEW buf, NEW rest, NEW message, Splits(S, bs, buf, rest, message),
         Len(buf \o rest) < 64
  PROVE  Splits(S, bs, buf \o rest, <<>>, message)
<1>1. PICK f \in Seq(S) : f = FlattenSeq(bs)
  BY FlattenType DEF Splits
<1>2. buf \in Seq(S) /\ rest \in Seq(S) /\ (f \o buf) \o rest = message
  BY <1>1 DEF Splits
<1>3. buf \o rest \in Seq(S) /\ Len(buf \o rest) \in 0 .. 63
  <2>1. buf \o rest \in Seq(S)
    BY <1>2, JoinType
  <2>2. PICK q \in Seq(S) : q = buf \o rest
    BY <2>1
  <2>3. PICK n \in Nat : n = Len(q)
    BY <2>2
  <2>4. n < 64
    BY <2>2, <2>3
  <2>5. n \in 0 .. 63
    BY <2>4
  <2> QED
    BY <2>2, <2>3, <2>5
<1>4. (f \o (buf \o rest)) \o <<>> = message
  <2>1. f \o (buf \o rest) = (f \o buf) \o rest
    <3>1. Regroups3(f, buf, rest)
      BY <1>2, Regroup3
    <3> QED
      BY <3>1 DEF Regroups3
  <2>2. f \o (buf \o rest) \in Seq(S)
    BY <1>3
  <2> QED
    BY <1>2, <2>1, <2>2, ConcatEmptySeq
<1>5. bs \in Seq(Seq(S)) /\ AreBlocks(bs) /\ <<>> \in Seq(S)
  BY DEF Splits
<1> QED
  BY <1>1, <1>3, <1>4, <1>5 DEF Splits

LEMMA FillsBlock ==
  ASSUME NEW S, NEW bs, NEW buf, NEW rest, NEW message, Splits(S, bs, buf, rest, message),
         NEW first \in Seq(S), NEW last \in Seq(S), rest = first \o last, Len(buf \o first) = 64
  PROVE  Splits(S, Append(bs, buf \o first), <<>>, last, message)
<1>1. PICK f \in Seq(S) : f = FlattenSeq(bs)
  BY FlattenType DEF Splits
<1>2. buf \in Seq(S) /\ bs \in Seq(Seq(S)) /\ AreBlocks(bs) /\ (f \o buf) \o (first \o last) = message
  BY <1>1 DEF Splits
<1>3. PICK p \in Seq(S) : p = buf \o first
  BY <1>2, JoinType
<1>4. FlattenSeq(Append(bs, p)) = f \o p
  BY <1>1, <1>2, <1>3, FlattenAppend
<1>5. ((f \o p) \o <<>>) \o last = message
  <2>1. f \o p \in Seq(S) /\ f \o buf \in Seq(S)
    BY <1>2, <1>3
  <2>2. (f \o p) \o <<>> = f \o p
    BY <2>1, ConcatEmptySeq
  <2>3. f \o p = (f \o buf) \o first
    BY <1>2, <1>3
  <2>4. ((f \o buf) \o first) \o last = (f \o buf) \o (first \o last)
    <3>1. Regroups3(f \o buf, first, last)
      BY <2>1, Regroup3
    <3> QED
      BY <3>1 DEF Regroups3
  <2> QED
    BY <1>2, <2>2, <2>3, <2>4
<1>6. Append(bs, p) = bs \o <<p>> /\ Append(bs, p) \in Seq(Seq(S))
  BY <1>2
<1>7. AreBlocks(bs \o <<p>>)
  BY <1>2, <1>3, OneMoreBlock
<1>8. Splits(S, Append(bs, p), <<>>, last, message)
  <2>1. <<>> \in Seq(S) /\ Len(<<>>) \in 0 .. 63
    OBVIOUS
  <2> QED
    BY <1>4, <1>5, <1>6, <1>7, <2>1 DEF Splits
<1> QED
  BY <1>3, <1>8

LEMMA UpdateSplits ==
  ASSUME NEW S, NEW message, Splits(S, blocks, buffer, stream, message), Update
  PROVE  /\ Splits(S, blocks', buffer', stream', message)
         /\ hashing' \in {"update", "final"}
         /\ hashing' = "final" => stream' = <<>>
<1>1. buffer \in Seq(S) /\ stream \in Seq(S) /\ BlockBytes = 64
  BY DEF Splits, BlockBytes
<1>2. PICK b \in 0 .. 63 : b = Len(buffer)
  BY DEF Splits
<1>3. PICK s \in Nat : s = Len(stream)
  BY <1>1
<1> DEFINE room   == 64 - b
           n      == IF room < s THEN room ELSE s
           first  == SubSeq(stream, 1, n)
           filled == buffer \o first
<1>4. /\ hashing = "update"
      /\ IF Len(filled) = 64
           THEN /\ blocks' = Append(blocks, filled) /\ buffer' = <<>>
                /\ stream' = SubSeq(stream, room + 1, s) /\ hashing' = hashing
           ELSE buffer' = filled /\ stream' = <<>> /\ hashing' = "final" /\ blocks' = blocks
  BY <1>1, <1>2, <1>3 DEF Update
<1>5. n \in 0 .. s /\ n <= room /\ (n # s => n = room) /\ room \in 1 .. 64
  OBVIOUS
<1> HIDE DEF n
<1>6. first \in Seq(S) /\ Len(first) = n
  BY <1>1, <1>3, <1>5
<1> HIDE DEF first
<1>7. filled \in Seq(S) /\ Len(filled) = b + n
  BY <1>1, <1>2, <1>6, JoinType
<1> HIDE DEF filled
<1>8. CASE Len(filled) = 64
  <2>1. n = room
    <3>1. b + n = 64
      BY <1>7, <1>8
    <3> QED
      BY <1>5, <3>1
  <2>2. PICK last \in Seq(S) : last = SubSeq(stream, room + 1, s)
    <3>1. room \in 1 .. 64 /\ room <= s
      BY <1>5, <2>1
    <3> HIDE DEF room
    <3>2. SubSeq(stream, room + 1, s) \in Seq(S)
      BY <1>1, <1>3, <3>1
    <3> QED
      BY <3>2
  <2>3. stream = first \o last
    <3>1. room \in 1 .. 64 /\ room <= s /\ room + 1 \in 1 .. s + 1 /\ room \in 1 - 1 .. s
          /\ 1 \in 1 .. s + 1 /\ s \in room .. s
      BY <1>5, <2>1
    <3>2. SubSeq(stream, 1, room) \o SubSeq(stream, room + 1, s) = SubSeq(stream, 1, s)
      <4> HIDE DEF room
      <4> QED
        BY <1>1, <1>3, <3>1, ConcatAdjacentSubSeq
    <3>3. SubSeq(stream, 1, s) = stream
      BY <1>1, <1>3, SubSeqFull
    <3> QED
      BY <2>1, <2>2, <3>2, <3>3 DEF first
  <2>4. Splits(S, Append(blocks, buffer \o first), <<>>, last, message)
    BY <1>6, <1>8, <2>2, <2>3, FillsBlock DEF filled
  <2>5. blocks' = Append(blocks, filled) /\ buffer' = <<>> /\ stream' = last /\ hashing' = "update"
    BY <1>4, <1>8, <2>2
  <2> QED
    BY <2>4, <2>5 DEF filled
<1>9. CASE Len(filled) # 64
  <2>1. n = s /\ Len(filled) < 64
    BY <1>5, <1>7, <1>9
  <2>2. first = stream
    <3>1. SubSeq(stream, 1, Len(stream)) = stream
      BY <1>1, SubSeqFull
    <3> QED
      BY <1>3, <2>1, <3>1 DEF first
  <2>3. Splits(S, blocks, buffer \o stream, <<>>, message)
    BY <2>1, <2>2, TakesAll DEF filled
  <2>4. buffer' = filled /\ stream' = <<>> /\ hashing' = "final" /\ blocks' = blocks
    BY <1>4, <1>9
  <2> QED
    BY <2>2, <2>3, <2>4 DEF filled
<1> QED
  BY <1>8, <1>9

\* At the start everything is in the stream.
LEMMA NothingRead ==
  ASSUME NEW S, NEW message \in Seq(S)
  PROVE  Splits(S, <<>>, <<>>, message, message)
<1>1. FlattenSeq(<<>>) = <<>>
  BY DEF FlattenSeq
<1>2. (<<>> \o <<>>) \o message = message
  OBVIOUS
<1>3. <<>> \in Seq(Seq(S)) /\ AreBlocks(<<>>) /\ <<>> \in Seq(S) /\ Len(<<>>) \in 0 .. 63
  BY DEF AreBlocks
<1> QED
  BY <1>1, <1>2, <1>3 DEF Splits

LEMMA FinalIsPadding ==
  ASSUME NEW S, NEW message \in Seq(S), Splits(S, blocks, buffer, <<>>, message), Final
  PROVE  /\ \A k \in DOMAIN blocks' : Len(blocks'[k]) = BlockBytes
         /\ FlattenSeq(blocks') = Padded(message)
<1> DEFINE length == LengthField(8 * Len(message))
<1>1. PICK L : length \in Seq(L) /\ Len(length) = 8
  BY LengthFieldType
<1> DEFINE T == (S \cup L) \cup {0, 128}
<1>2. \A s \in Seq(S) : s \in Seq(T)
  OBVIOUS
<1>3. blocks \in Seq(Seq(S)) /\ AreBlocks(blocks) /\ buffer \in Seq(S) /\ Len(buffer) \in 0 .. 63
  BY DEF Splits
<1>4. blocks \in Seq(Seq(T)) /\ buffer \in Seq(T)
  <2>1. \A k \in 1 .. Len(blocks) : blocks[k] \in Seq(T)
    <3> TAKE k \in 1 .. Len(blocks)
    <3>1. blocks[k] \in Seq(S)
      BY <1>3, Elements
    <3> QED
      BY <1>2, <3>1
  <2> HIDE DEF T
  <2> QED
    BY <1>2, <1>3, <2>1
<1>5. PICK f \in Seq(S) : f = FlattenSeq(blocks) /\ Len(f) = 64 * Len(blocks)
  <2>1. FlattenSeq(blocks) \in Seq(S)
    BY <1>3, FlattenType
  <2>2. Len(FlattenSeq(blocks)) = 64 * Len(blocks)
    <3>1. \A k \in 1 .. Len(blocks) : Len(blocks[k]) = 64
      BY <1>3 DEF AreBlocks
    <3> QED
      BY <1>3, <3>1, FlattenLen
  <2> QED
    BY <2>1, <2>2
<1>6. message = f \o buffer
  <2>1. (f \o buffer) \o <<>> = message
    BY <1>5 DEF Splits
  <2> QED
    BY <1>3, <2>1
<1>7. Len(blocks) * BlockBytes + Len(buffer) = Len(message)
  <2>1. Len(message) = Len(f) + Len(buffer)
    BY <1>3, <1>6, JoinType
  <2>2. PICK n \in Nat : n = Len(blocks)
    BY <1>3
  <2> QED
    BY <1>5, <2>1, <2>2 DEF BlockBytes
<1>8. blocks' = blocks \o AddedBlocks(length)
  BY <1>7 DEF Final, AddedBlocks
<1>9. Unfinished(T, message, length)
  <2>1. 128 \in T /\ 0 \in T /\ length \in Seq(T)
    <3> HIDE DEF length
    <3> QED
      BY <1>1
  <2> HIDE DEF T
  <2> QED
    BY <1>1, <1>3, <1>4, <1>5, <1>6, <2>1 DEF Unfinished
<1>10. PICK all : all = blocks'
  OBVIOUS
<1>11. all = blocks \o AddedBlocks(length)
  BY <1>8, <1>10
<1> HIDE DEF length, T
<1>12. /\ \A k \in DOMAIN all : Len(all[k]) = BlockBytes
       /\ FlattenSeq(all) = Padded(message)
  BY <1>9, <1>11, FinalPads
<1> QED
  BY <1>10, <1>12
-----------------------------------------------------------------------------
(* The values that the decoder makes                                       *)

\* Everything in V is a number, a string, or a list or dict of what is in V.
AreValues(V) ==
    \A v \in V : \/ \E n \in Int : v = IntOf(n)
                 \/ \E s \in Seq(Characters) : v = StrOf(s)
                 \/ \E s \in Seq(V) : v = ListOf(s)
                 \/ \E K \in SUBSET Seq(Characters) :
                       IsFiniteSet(K) /\ \E f \in [K -> V] : v = DictOf(f)

IsValue(v) == \E V : AreValues(V) /\ v \in V

Container(v) == Is("list", v) \/ Is("dict", v)

LEMMA Kinds ==
  ASSUME NEW V, AreValues(V), NEW v \in V
  PROVE  /\ Is("int", v) => v.int \in Int
         /\ Is("str", v) => v.str \in Seq(Characters)
         /\ Is("list", v) => \E s \in Seq(V) : v = ListOf(s)
         /\ Is("dict", v) => \E K \in SUBSET Seq(Characters) :
                                IsFiniteSet(K) /\ \E f \in [K -> V] : v = DictOf(f)
<1>1. CASE \E n \in Int : v = IntOf(n)
  <2>1. PICK n \in Int : v = IntOf(n)
    BY <1>1
  <2>2. v.int = n /\ DOMAIN v = {"int"}
    BY <2>1 DEF IntOf
  <2> QED
    BY <2>2 DEF Is
<1>2. CASE \E s \in Seq(Characters) : v = StrOf(s)
  <2>1. PICK s \in Seq(Characters) : v = StrOf(s)
    BY <1>2
  <2>2. v.str = s /\ DOMAIN v = {"str"}
    BY <2>1 DEF StrOf
  <2> QED
    BY <2>2 DEF Is
<1>3. CASE \E s \in Seq(V) : v = ListOf(s)
  <2>1. DOMAIN v = {"list"}
    BY <1>3 DEF ListOf
  <2> QED
    BY <1>3, <2>1 DEF Is
<1>4. CASE \E K \in SUBSET Seq(Characters) : IsFiniteSet(K) /\ \E f \in [K -> V] : v = DictOf(f)
  <2>1. DOMAIN v = {"dict"}
    BY <1>4 DEF DictOf
  <2> QED
    BY <1>4, <2>1 DEF Is
<1> QED
  BY <1>1, <1>2, <1>3, <1>4 DEF AreValues

\* A value more, of what there is.
Adds(V, v) == \E W : V \subseteq W /\ AreValues(W) /\ v \in W

LEMMA AddValue ==
  ASSUME NEW V, AreValues(V), NEW v,
         \/ \E n \in Int : v = IntOf(n)
         \/ \E s \in Seq(Characters) : v = StrOf(s)
         \/ \E s \in Seq(V) : v = ListOf(s)
         \/ \E K \in SUBSET Seq(Characters) : IsFiniteSet(K) /\ \E f \in [K -> V] : v = DictOf(f)
  PROVE  Adds(V, v)
<1> DEFINE W == V \cup {v}
<1>1. V \subseteq W /\ v \in W /\ \A w \in W : w \in V \/ w = v
  OBVIOUS
<1> HIDE DEF W
<1>2. \A s \in Seq(V) : s \in Seq(W)
  BY <1>1
<1>3. \A K : \A f \in [K -> V] : f \in [K -> W]
  BY <1>1
<1>4. AreValues(W)
  <2> SUFFICES ASSUME NEW w \in W
               PROVE  \/ \E n \in Int : w = IntOf(n)
                      \/ \E s \in Seq(Characters) : w = StrOf(s)
                      \/ \E s \in Seq(W) : w = ListOf(s)
                      \/ \E K \in SUBSET Seq(Characters) :
                            IsFiniteSet(K) /\ \E f \in [K -> W] : w = DictOf(f)
    BY DEF AreValues
  <2>1. \/ \E n \in Int : w = IntOf(n)
        \/ \E s \in Seq(Characters) : w = StrOf(s)
        \/ \E s \in Seq(V) : w = ListOf(s)
        \/ \E K \in SUBSET Seq(Characters) : IsFiniteSet(K) /\ \E f \in [K -> V] : w = DictOf(f)
    BY <1>1 DEF AreValues
  <2> QED
    BY <1>2, <1>3, <2>1
<1> QED
  BY <1>1, <1>4 DEF Adds

LEMMA InsertIsValue ==
  ASSUME NEW V, AreValues(V), NEW c \in V, Container(c), NEW k \in Seq(Characters), NEW v \in V
  PROVE  Adds(V, Insert(c, k, v)) /\ Container(Insert(c, k, v))
<1>1. CASE Is("list", c)
  <2>1. PICK s \in Seq(V) : c = ListOf(s)
    BY <1>1, Kinds
  <2>2. c.list = s
    BY <2>1 DEF ListOf
  <2>3. Insert(c, k, v) = ListOf(Append(s, v))
    BY <1>1, <2>2 DEF Insert
  <2>4. Append(s, v) \in Seq(V)
    BY <2>1
  <2>5. Container(Insert(c, k, v))
    BY <2>3 DEF Container, Is, ListOf
  <2>6. \E q \in Seq(V) : Insert(c, k, v) = ListOf(q)
    BY <2>3, <2>4
  <2>7. Adds(V, Insert(c, k, v))
    BY <2>6, AddValue
  <2> QED
    BY <2>5, <2>7
<1>2. CASE ~Is("list", c)
  <2>1. PICK K \in SUBSET Seq(Characters) : IsFiniteSet(K) /\ \E f \in [K -> V] : c = DictOf(f)
    BY <1>2, Kinds DEF Container
  <2>2. PICK f \in [K -> V] : c = DictOf(f)
    BY <2>1
  <2>3. c.dict = f
    BY <2>2 DEF DictOf
  <2> DEFINE g == [j \in K \cup {k} |-> IF j = k THEN v ELSE f[j]]
  <2>4. Insert(c, k, v) = DictOf(g)
    BY <1>2, <2>2, <2>3 DEF Insert
  <2>5. g \in [K \cup {k} -> V]
    BY <2>2
  <2>6. IsFiniteSet(K \cup {k}) /\ K \cup {k} \in SUBSET Seq(Characters)
    BY <2>1, FS_AddElement
  <2> HIDE DEF g
  <2>7. Container(Insert(c, k, v))
    BY <2>4 DEF Container, Is, DictOf
  <2>8. \E J \in SUBSET Seq(Characters) :
           IsFiniteSet(J) /\ \E h \in [J -> V] : Insert(c, k, v) = DictOf(h)
    BY <2>4, <2>5, <2>6
  <2>9. Adds(V, Insert(c, k, v))
    BY <2>8, AddValue
  <2> QED
    BY <2>7, <2>9
<1> QED
  BY <1>1, <1>2

Numbers == [for : {"int", "str", "key"}, sign : {-1, 1}, value : Int, count : Nat]

Frames(V) == [value : {v \in V : Container(v)}, key : Seq(Characters)]

Read(V) ==
    /\ AreValues(V)
    /\ result \in V
    /\ stack \in Seq(Frames(V))
    /\ key \in Seq(Characters)
    /\ chars \in Seq(Characters)
    /\ number \in Numbers

ValuesInv == \E V : Read(V)

LEMMA MoreFrames ==
  ASSUME NEW V, NEW W, V \subseteq W, NEW s \in Seq(Frames(V))
  PROVE  s \in Seq(Frames(W))
<1>1. Frames(V) \subseteq Frames(W)
  BY DEF Frames
<1>2. \A A, B : A \subseteq B => \A q \in Seq(A) : q \in Seq(B)
  OBVIOUS
<1> QED
  BY <1>1, <1>2

LEMMA ValuesInit == Init => ValuesInv
<1> SUFFICES ASSUME Init
             PROVE  ValuesInv
  OBVIOUS
<1>1. AreValues({})
  BY DEF AreValues
<1>2. \E n \in Int : IntOf(0) = IntOf(n)
  OBVIOUS
<1>3. PICK W : AreValues(W) /\ IntOf(0) \in W
  <2>1. Adds({}, IntOf(0))
    BY <1>1, <1>2, AddValue
  <2> QED
    BY <2>1 DEF Adds
<1>4. Read(W)
  BY <1>3 DEF Init, Read, Numbers
<1> QED
  BY <1>4 DEF ValuesInv
LEMMA TopFrame ==
  ASSUME NEW V, Read(V), stack # <<>>
  PROVE  /\ Top.value \in V /\ Container(Top.value) /\ Top.key \in Seq(Characters)
         /\ Tail(stack) \in Seq(Frames(V))
<1>1. stack \in Seq(Frames(V))
  BY DEF Read
<1>2. Head(stack) \in Frames(V) /\ Tail(stack) \in Seq(Frames(V))
  BY <1>1
<1> QED
  BY <1>2 DEF Top, Frames

LEMMA FrameWith ==
  ASSUME NEW V, NEW frame \in Frames(V), NEW W, NEW v \in W, Container(v)
  PROVE  [frame EXCEPT !.value = v] \in Frames(W)
BY DEF Frames

LEMMA PushFrame ==
  ASSUME NEW V, NEW frame \in Frames(V), NEW s \in Seq(Frames(V))
  PROVE  <<frame>> \o s \in Seq(Frames(V))
<1>1. \A A : \A a \in A, q \in Seq(A) : <<a>> \o q \in Seq(A)
  OBVIOUS
<1> QED
  BY <1>1

LEMMA CloseKeepsValues ==
  ASSUME ValuesInv, stack # <<>>, Close
  PROVE  ValuesInv'
<1>1. PICK V : Read(V)
  BY DEF ValuesInv
<1>2. UNCHANGED <<number, chars, key>>
  BY DEF Close
<1>3. Top.value \in V /\ Container(Top.value) /\ Top.key \in Seq(Characters)
  BY <1>1, TopFrame
<1>4. CASE Len(stack) = 1
  <2>1. result' = Top.value /\ stack' = <<>>
    BY <1>4 DEF Close
  <2>2. <<>> \in Seq(Frames(V))
    OBVIOUS
  <2> QED
    BY <1>1, <1>2, <1>3, <2>1, <2>2 DEF ValuesInv, Read
<1>5. CASE Len(stack) # 1
  <2>1. stack \in Seq(Frames(V))
    BY <1>1 DEF Read
  <2>2. Len(stack) \in Nat /\ Len(stack) > 1
    <3>1. Len(stack) \in Nat
      BY <2>1
    <3>2. Len(stack) # 0
      BY <2>1, EmptySeq
    <3>3. PICK n \in Nat : n = Len(stack)
      BY <3>1
    <3>4. n > 1
      BY <1>5, <3>2, <3>3
    <3> QED
      BY <3>3, <3>4
  <2>3. PICK outer \in Frames(V) : outer = stack[2]
    BY <2>1, <2>2
  <2>4. PICK rest \in Seq(Frames(V)) : rest = SubSeq(stack, 3, Len(stack))
    <3>1. SubSeq(stack, 3, Len(stack)) \in Seq(Frames(V))
      BY <2>1, <2>2
    <3> QED
      BY <3>1
  <2>5. outer.value \in V /\ Container(outer.value)
    BY DEF Frames
  <2> DEFINE v == Insert(outer.value, Top.key, Top.value)
  <2>6. stack' = <<[outer EXCEPT !.value = v]>> \o rest /\ result' = result
    BY <1>5, <2>3, <2>4 DEF Close
  <2>7. AreValues(V)
    BY <1>1 DEF Read
  <2>8. Adds(V, v) /\ Container(v)
    BY <1>3, <2>5, <2>7, InsertIsValue
  <2> HIDE DEF v
  <2>9. PICK W : V \subseteq W /\ AreValues(W) /\ v \in W
    BY <2>8 DEF Adds
  <2>10. [outer EXCEPT !.value = v] \in Frames(W)
    BY <2>8, <2>9, FrameWith
  <2>11. rest \in Seq(Frames(W))
    BY <2>9, MoreFrames
  <2>12. stack' \in Seq(Frames(W))
    BY <2>6, <2>10, <2>11, PushFrame
  <2>13. result' \in W /\ key' \in Seq(Characters) /\ chars' \in Seq(Characters) /\ number' \in Numbers
    BY <1>1, <1>2, <2>6, <2>9 DEF Read
  <2> QED
    BY <2>9, <2>12, <2>13 DEF ValuesInv, Read
<1> QED
  BY <1>4, <1>5

LEMMA FailKeepsValues ==
  ASSUME ValuesInv, Fail
  PROVE  ValuesInv'
BY DEF ValuesInv, Read, Fail

LEMMA StoreKeepsValues ==
  ASSUME ValuesInv, NEW v,
         \/ \E n \in Int : v = IntOf(n)
         \/ \E s \in Seq(Characters) : v = StrOf(s),
         chars' = chars, number' = number, Store(v)
  PROVE  ValuesInv'
<1>1. PICK V : Read(V)
  BY DEF ValuesInv
<1>2. PICK W : V \subseteq W /\ AreValues(W) /\ v \in W
  <2>1. AreValues(V)
    BY <1>1 DEF Read
  <2>2. Adds(V, v)
    BY <2>1, AddValue
  <2> QED
    BY <2>2 DEF Adds
<1>3. stack \in Seq(Frames(W))
  BY <1>1, <1>2, MoreFrames DEF Read
<1>4. /\ result \in W /\ key \in Seq(Characters) /\ chars \in Seq(Characters)
      /\ number \in Numbers
  BY <1>1, <1>2 DEF Read
<1>5. Read(W)
  BY <1>2, <1>3, <1>4 DEF Read
<1>6. CASE stack = <<>>
  <2>1. CASE result' = v /\ UNCHANGED <<key, stack>>
    BY <1>2, <1>3, <1>4, <2>1 DEF ValuesInv, Read
  <2>2. CASE Fail
    BY <2>2, FailKeepsValues
  <2> QED
    BY <1>6, <2>1, <2>2 DEF Store
<1>7. CASE stack # <<>>
  <2>1. CASE Fail
    BY <2>1, FailKeepsValues
  <2>2. CASE ~Fail
    <3> DEFINE x == Insert(Top.value, key, v)
    <3>1. /\ stack' = <<[Top EXCEPT !.value = x]>> \o Tail(stack)
          /\ UNCHANGED <<key, result>>
      BY <1>7, <2>2 DEF Store
    <3>2. Top.value \in W /\ Container(Top.value) /\ Tail(stack) \in Seq(Frames(W)) /\ Top \in Frames(W)
      <4>1. Top \in Frames(W)
        BY <1>3, <1>7 DEF Top
      <4> QED
        BY <1>5, <1>7, <4>1, TopFrame
    <3>3. Adds(W, x) /\ Container(x)
      BY <1>2, <1>4, <3>2, InsertIsValue
    <3> HIDE DEF x
    <3>4. PICK X : W \subseteq X /\ AreValues(X) /\ x \in X
      BY <3>3 DEF Adds
    <3>5. [Top EXCEPT !.value = x] \in Frames(X)
      BY <3>2, <3>3, <3>4, FrameWith
    <3>6. Tail(stack) \in Seq(Frames(X))
      BY <3>2, <3>4, MoreFrames
    <3>7. stack' \in Seq(Frames(X))
      BY <3>1, <3>5, <3>6, PushFrame
    <3>8. result' \in X /\ key' \in Seq(Characters) /\ chars' \in Seq(Characters) /\ number' \in Numbers
      BY <1>4, <3>1, <3>4
    <3> QED
      BY <3>4, <3>7, <3>8 DEF ValuesInv, Read
  <2> QED
    BY <2>1, <2>2
<1> QED
  BY <1>6, <1>7

LEMMA OpenKeepsValues ==
  ASSUME ValuesInv, NEW container, container = ListOf(<<>>) \/ container = EmptyDict, Open(container)
  PROVE  ValuesInv'
<1>1. PICK V : Read(V)
  BY DEF ValuesInv
<1>2. Adds(V, container) /\ Container(container)
  <2>1. AreValues(V)
    BY <1>1 DEF Read
  <2>2. CASE container = ListOf(<<>>)
    <3>1. \E s \in Seq(V) : container = ListOf(s)
      <4>1. <<>> \in Seq(V)
        OBVIOUS
      <4> QED
        BY <2>2, <4>1
    <3>2. Container(container)
      BY <2>2 DEF Container, Is, ListOf
    <3> QED
      BY <2>1, <3>1, <3>2, AddValue
  <2>3. CASE container = EmptyDict
    <3>1. \E K \in SUBSET Seq(Characters) :
             IsFiniteSet(K) /\ \E f \in [K -> V] : container = DictOf(f)
      <4>1. IsFiniteSet({}) /\ {} \in SUBSET Seq(Characters)
        BY FS_EmptySet
      <4>2. [k \in {} |-> 0] \in [{} -> V] /\ container = DictOf([k \in {} |-> 0])
        BY <2>3 DEF EmptyDict
      <4> QED
        BY <4>1, <4>2
    <3>2. Container(container)
      BY <2>3 DEF Container, Is, EmptyDict, DictOf
    <3> QED
      BY <2>1, <3>1, <3>2, AddValue
  <2> QED
    BY <2>2, <2>3
<1>3. PICK W : V \subseteq W /\ AreValues(W) /\ container \in W
  BY <1>2 DEF Adds
<1>4. CASE Fail
  BY <1>4, FailKeepsValues
<1>5. CASE ~Fail
  <2>1. /\ stack' = <<[value |-> container, key |-> key]>> \o stack
        /\ UNCHANGED <<number, chars, key, result>>
    BY <1>5 DEF Open
  <2>2. stack \in Seq(Frames(W))
    BY <1>1, <1>3, MoreFrames DEF Read
  <2>3. [value |-> container, key |-> key] \in Frames(W)
    BY <1>1, <1>2, <1>3 DEF Read, Frames
  <2>4. stack' \in Seq(Frames(W))
    BY <2>1, <2>2, <2>3, PushFrame
  <2>5. result' \in W /\ key' \in Seq(Characters) /\ chars' \in Seq(Characters) /\ number' \in Numbers
    BY <1>1, <1>3, <2>1 DEF Read
  <2> QED
    BY <1>3, <2>4, <2>5 DEF ValuesInv, Read
<1> QED
  BY <1>4, <1>5
LEMMA CharacterRead ==
  ASSUME NEW c \in Alphabet \union UNION {ToSet(t) : t \in Texts}
  PROVE  c \in Characters
<1>1. Alphabet \subseteq Characters /\ Texts \subseteq Seq(Characters)
  BY BencodeAssumption
<1>2. ASSUME NEW t \in Texts, c \in ToSet(t)
      PROVE  c \in Characters
  <2>1. t \in Seq(Characters)
    BY <1>1
  <2>2. \E i \in DOMAIN t : c = t[i]
    BY <1>2 DEF ToSet
  <2> QED
    BY <2>1, <2>2
<1> QED
  BY <1>1, <1>2

LEMMA StartKeepsValues ==
  ASSUME ValuesInv, NEW for \in {"int", "str", "key"}, NEW place, NEW value \in Int, NEW count \in Nat,
         StartNumber(for, place, value, count)
  PROVE  ValuesInv'
<1>1. PICK V : Read(V)
  BY DEF ValuesInv
<1>2. number' \in Numbers /\ UNCHANGED <<result, stack, key, chars>>
  BY DEF StartNumber, Numbers
<1> QED
  BY <1>1, <1>2 DEF ValuesInv, Read

LEMMA ReadValueKeepsValues ==
  ASSUME ValuesInv, NEW c \in Characters, ReadValue(c)
  PROVE  ValuesInv'
<1>1. CASE StartNumber("int", "sign", 0, 0)
  BY <1>1, StartKeepsValues
<1>2. CASE Open(ListOf(<<>>)) \/ Open(EmptyDict)
  BY <1>2, OpenKeepsValues
<1>3. CASE StartNumber("str", "number", c - Zero, 1)
  <2>1. c - Zero \in Int
    BY DEF Characters, Zero
  <2> QED
    BY <1>3, <2>1, StartKeepsValues
<1>4. CASE Fail
  BY <1>4, FailKeepsValues
<1> QED
  BY <1>1, <1>2, <1>3, <1>4 DEF ReadValue

LEMMA StringKeepsValues ==
  ASSUME ValuesInv, NEW s \in Seq(Characters), StringRead(s)
  PROVE  ValuesInv'
<1>1. CASE key' = s /\ UNCHANGED <<number, chars, stack, result>>
  <2>1. PICK V : Read(V)
    BY DEF ValuesInv
  <2> QED
    BY <1>1, <2>1 DEF ValuesInv, Read
<1>2. CASE Store(StrOf(s))
  <2>1. \E q \in Seq(Characters) : StrOf(s) = StrOf(q)
    OBVIOUS
  <2>2. chars' = chars /\ number' = number
    BY <1>2 DEF Store, Fail
  <2> QED
    BY <1>2, <2>1, <2>2, StoreKeepsValues
<1> QED
  BY <1>1, <1>2 DEF StringRead

LEMMA CharacterKeepsValues ==
  ASSUME ValuesInv, NEW c \in Characters,
         Turn(c) \/ ValueOfKey(c) \/ Sign(c) \/ Digit(c) \/ NumberEnds(c) \/ Byte(c)
  PROVE  ValuesInv'
<1>1. PICK V : Read(V)
  BY DEF ValuesInv
<1>2. c - Zero \in Int
  BY DEF Characters, Zero
<1>3. number \in Numbers /\ number.value \in Int /\ chars \in Seq(Characters)
  BY <1>1 DEF Read, Numbers
<1>4. CASE Turn(c)
  <2>1. CASE stack # <<>> /\ Close
    BY <2>1, CloseKeepsValues
  <2>2. CASE Fail
    BY <2>2, FailKeepsValues
  <2>3. CASE StartNumber("key", "number", c - Zero, 1)
    BY <1>2, <2>3, StartKeepsValues
  <2>4. CASE ReadValue(c)
    BY <2>4, ReadValueKeepsValues
  <2> QED
    BY <1>4, <2>1, <2>2, <2>3, <2>4 DEF Turn
<1>5. CASE ValueOfKey(c)
  BY <1>5, ReadValueKeepsValues DEF ValueOfKey
<1>6. CASE Sign(c)
  <2>1. number' = [number EXCEPT !.sign = -1] /\ UNCHANGED <<chars, key, stack, result>>
    BY <1>6 DEF Sign
  <2>2. number' \in Numbers
    BY <1>3, <2>1 DEF Numbers
  <2> QED
    BY <1>1, <2>1, <2>2 DEF ValuesInv, Read
<1>7. CASE Digit(c)
  <2>1. CASE Fail
    BY <2>1, FailKeepsValues
  <2>2. CASE ~Fail
    <3> DEFINE n == 10 * number.value + number.sign * (c - Zero)
    <3>1. /\ number' = [number EXCEPT !.value = n, !.count = @ + 1]
          /\ UNCHANGED <<chars, key, stack, result>>
      BY <1>7, <2>2 DEF Digit
    <3>2. n \in Int
      <4>1. number.sign \in Int
        BY <1>3 DEF Numbers
      <4>2. \A x, y, z \in Int : 10 * x + y * z \in Int
        OBVIOUS
      <4> QED
        BY <1>2, <1>3, <4>1, <4>2
    <3> HIDE DEF n
    <3>3. number' \in Numbers
      <4>1. number.count + 1 \in Nat
        BY <1>3 DEF Numbers
      <4> QED
        BY <1>3, <3>1, <3>2, <4>1 DEF Numbers
    <3> QED
      BY <1>1, <3>1, <3>3 DEF ValuesInv, Read
  <2> QED
    BY <2>1, <2>2
<1>8. CASE NumberEnds(c)
  <2>1. CASE Store(IntOf(number.value))
    <3>1. \E n \in Int : IntOf(number.value) = IntOf(n)
      BY <1>3
    <3>2. chars' = chars /\ number' = number
      BY <2>1 DEF Store, Fail
    <3> QED
      BY <2>1, <3>1, <3>2, StoreKeepsValues
  <2>2. CASE StringRead(<<>>)
    <3>1. <<>> \in Seq(Characters)
      OBVIOUS
    <3> QED
      BY <2>2, <3>1, StringKeepsValues
  <2>3. CASE chars' = <<>> /\ UNCHANGED <<number, key, stack, result>>
    <3>1. <<>> \in Seq(Characters)
      OBVIOUS
    <3> QED
      BY <1>1, <2>3, <3>1 DEF ValuesInv, Read
  <2>4. CASE Fail
    BY <2>4, FailKeepsValues
  <2> QED
    BY <1>8, <2>1, <2>2, <2>3, <2>4 DEF NumberEnds
<1>9. CASE Byte(c)
  <2>1. Append(chars, c) \in Seq(Characters)
    BY <1>3
  <2>2. CASE StringRead(Append(chars, c))
    BY <2>1, <2>2, StringKeepsValues
  <2>3. CASE chars' = Append(chars, c) /\ UNCHANGED <<number, key, stack, result>>
    BY <1>1, <2>1, <2>3 DEF ValuesInv, Read
  <2> QED
    BY <1>9, <2>2, <2>3 DEF Byte
<1> QED
  BY <1>4, <1>5, <1>6, <1>7, <1>8, <1>9
-----------------------------------------------------------------------------
(* What is read of a file                                                  *)

\* decode() has found the fields that are used.
HasFields(root) ==
    /\ Is("dict", root) /\ Info \in DOMAIN root.dict /\ Is("dict", InfoOf(root))
    /\ \A k \in 1 .. 4 : /\ InfoFields[k].name \in DOMAIN InfoOf(root).dict
                         /\ Is(InfoFields[k].type, InfoOf(root).dict[InfoFields[k].name])

Extracted == phase \in {"write", "open", "hash", "parse", "ready"}

FileInv ==
    /\ ValuesInv
    /\ outcome = "reading" <=> phase = "decode"
    /\ phase \notin {"decode", "terminated"} => outcome = "done"
    /\ Extracted => HasFields(result)

LEMMA NoDefect ==
  ASSUME NEW fields, NEW dict, Defect(fields, dict) = "none", NEW k \in DOMAIN fields
  PROVE  fields[k].name \in DOMAIN dict /\ Is(fields[k].type, dict[fields[k].name])
<1> DEFINE bad == {j \in DOMAIN fields :
                     fields[j].name \in DOMAIN dict => ~Is(fields[j].type, dict[fields[j].name])}
<1>1. bad = {}
  <2>1. bad # {} => Defect(fields, dict) \in {"terminated", "undefined"}
    BY DEF Defect
  <2> QED
    BY <2>1
<1> QED
  BY <1>1

LEMMA ExtractFindsFields ==
  ASSUME Extract, phase' = "write"
  PROVE  HasFields(result)
<1>1. /\ Is("dict", result) /\ Defect(RootFields, result.dict) = "none"
      /\ Defect(InfoFields, InfoOf(result).dict) = "none"
  <2>1. \A fields, dict : Defect(fields, dict) \in {"none", "terminated", "undefined"}
    BY DEF Defect
  <2> QED
    BY <2>1 DEF Extract, Goes
<1>2. DOMAIN RootFields = 1 .. 2 /\ DOMAIN InfoFields = 1 .. 4
  BY DEF RootFields, InfoFields
<1>3. 1 \in DOMAIN RootFields /\ RootFields[1].name = Info /\ RootFields[1].type = "dict"
  BY <1>2 DEF RootFields, Field
<1>4. Info \in DOMAIN result.dict /\ Is("dict", InfoOf(result))
  BY <1>1, <1>3, NoDefect DEF InfoOf
<1>5. \A k \in 1 .. 4 : /\ InfoFields[k].name \in DOMAIN InfoOf(result).dict
                        /\ Is(InfoFields[k].type, InfoOf(result).dict[InfoFields[k].name])
  BY <1>1, <1>2, NoDefect
<1> QED
  BY <1>1, <1>4, <1>5 DEF HasFields

LEMMA DecodeKeepsValues ==
  ASSUME ValuesInv, Decode
  PROVE  ValuesInv'
<1>1. CASE EndOfInput
  BY <1>1, FailKeepsValues DEF EndOfInput
<1>2. CASE ReadCharacter
  <2>1. PICK c \in Alphabet \union UNION {ToSet(t) : t \in Texts} :
           Turn(c) \/ ValueOfKey(c) \/ Sign(c) \/ Digit(c) \/ NumberEnds(c) \/ Byte(c)
    BY <1>2 DEF ReadCharacter
  <2>2. c \in Characters
    BY CharacterRead
  <2> QED
    BY <2>1, <2>2, CharacterKeepsValues
<1> QED
  BY <1>1, <1>2 DEF Decode

\* The decoder tells how it has ended.
LEMMA OutcomeStep ==
  ASSUME Decode
  PROVE  outcome = "reading" /\ outcome' \in {"reading", "done", "failed"}
<1>1. CASE EndOfInput
  BY <1>1 DEF EndOfInput, Fail
<1>2. ASSUME outcome = "reading", NEW c,
             Turn(c) \/ ValueOfKey(c) \/ Sign(c) \/ Digit(c) \/ NumberEnds(c) \/ Byte(c)
      PROVE  outcome' \in {"reading", "done", "failed"}
  <2>1. Fail => outcome' = "failed"
    BY DEF Fail
  <2>2. Close => outcome' \in {"reading", "done"}
    BY <1>2 DEF Close
  <2>3. \A v : Store(v) => outcome' \in {"reading", "done", "failed"}
    BY <1>2, <2>1 DEF Store
  <2>4. \A v : Open(v) => outcome' \in {"reading", "done", "failed"}
    BY <1>2, <2>1 DEF Open
  <2>5. \A f, p, v, n : StartNumber(f, p, v, n) => outcome' = outcome
    BY DEF StartNumber
  <2>6. ReadValue(c) => outcome' \in {"reading", "done", "failed"}
    BY <1>2, <2>1, <2>4, <2>5 DEF ReadValue
  <2>7. \A s : StringRead(s) => outcome' \in {"reading", "done", "failed"}
    BY <1>2, <2>3 DEF StringRead
  <2>8. CASE Turn(c)
    BY <1>2, <2>1, <2>2, <2>5, <2>6, <2>8 DEF Turn
  <2>9. CASE ValueOfKey(c)
    BY <2>6, <2>9 DEF ValueOfKey
  <2>10. CASE Sign(c) \/ Digit(c)
    BY <1>2, <2>1, <2>10 DEF Sign, Digit
  <2>11. CASE NumberEnds(c)
    BY <1>2, <2>1, <2>3, <2>7, <2>11 DEF NumberEnds
  <2>12. CASE Byte(c)
    BY <1>2, <2>7, <2>12 DEF Byte
  <2> QED
    BY <1>2, <2>8, <2>9, <2>10, <2>11, <2>12
<1> QED
  BY <1>1, <1>2 DEF Decode, ReadCharacter

LEMMA FileInvInit == TorrentInit => FileInv
BY ValuesInit DEF TorrentInit, FileInv, Extracted, Init

LEMMA FileInvNext ==
  ASSUME FileInv, [Next]_vars
  PROVE  FileInv'
<1>1. CASE ReadFile
  <2>1. Decode /\ phase = "decode" /\ phase' = (CASE outcome' = "done"   -> "extract"
                                                   [] outcome' = "failed" -> "terminated"
                                                   [] OTHER               -> "decode")
    BY <1>1 DEF ReadFile, Goes
  <2>2. ValuesInv'
    BY <2>1, DecodeKeepsValues DEF FileInv
  <2>3. outcome' \in {"reading", "done", "failed"}
    BY <2>1, OutcomeStep
  <2>4. \/ outcome' = "reading" /\ phase' = "decode"
        \/ outcome' = "done" /\ phase' = "extract"
        \/ outcome' = "failed" /\ phase' = "terminated"
    BY <2>1, <2>3
  <2> QED
    BY <2>2, <2>4 DEF FileInv, Extracted
<1>2. ASSUME UNCHANGED decoder, phase # "decode", phase' # "decode",
             phase' \notin {"decode", "terminated"} => phase \notin {"decode", "terminated"},
             Extracted' => HasFields(result)
      PROVE  FileInv'
  <2>1. UNCHANGED <<outcome, number, chars, key, stack, result>>
    BY <1>2 DEF decoder
  <2>2. ValuesInv'
    BY <2>1 DEF FileInv, ValuesInv, Read
  <2> QED
    BY <1>2, <2>1, <2>2 DEF FileInv
<1>3. CASE Extract
  <2>1. phase = "extract" /\ phase' \in {"terminated", "undefined", "write"} /\ UNCHANGED decoder
    <3>1. \A fields, dict : Defect(fields, dict) \in {"none", "terminated", "undefined"}
      BY DEF Defect
    <3> QED
      BY <1>3, <3>1 DEF Extract, Goes
  <2>2. phase' = "write" => HasFields(result)
    BY <1>3, ExtractFindsFields
  <2> QED
    BY <1>2, <2>1, <2>2 DEF Extracted
<1>4. CASE WriteTemp \/ WriteTempFails
  BY <1>2, <1>4 DEF WriteTemp, WriteTempFails, Goes, FileInv, Extracted
<1>5. CASE OtherClient
  BY <1>2, <1>5 DEF OtherClient, FileInv, Extracted
<1>6. CASE ReadTemp
  BY <1>2, <1>6 DEF ReadTemp, Goes, FileInv, Extracted
<1>7. CASE Hash
  BY <1>2, <1>7 DEF Hash, Goes, FileInv, Extracted
<1>8. CASE Parse
  <2>1. phase = "parse" /\ phase' \in {"terminated", "ready"} /\ UNCHANGED decoder
    BY <1>8 DEF Parse
  <2> QED
    BY <1>2, <2>1 DEF FileInv, Extracted
<1>9. CASE UNCHANGED vars
  <2>1. UNCHANGED <<outcome, number, chars, key, stack, result>> /\ phase' = phase
    BY <1>9 DEF vars, decoder
  <2>2. ValuesInv'
    BY <2>1 DEF FileInv, ValuesInv, Read
  <2> QED
    BY <2>1, <2>2 DEF FileInv, Extracted
<1>10. CASE Stopped
  BY <1>9, <1>10 DEF Stopped
<1> QED
  BY <1>1, <1>3, <1>4, <1>5, <1>6, <1>7, <1>8, <1>9, <1>10 DEF Next

\* The info dictionary is a value.
LEMMA InfoIsValue ==
  ASSUME FileInv, Extracted
  PROVE  IsValue(InfoOf(result))
<1>1. PICK V : Read(V)
  BY DEF FileInv, ValuesInv
<1>2. AreValues(V) /\ result \in V
  BY <1>1 DEF Read
<1>3. Is("dict", result) /\ Info \in DOMAIN result.dict
  BY DEF FileInv, HasFields
<1>4. PICK K \in SUBSET Seq(Characters) : \E f \in [K -> V] : result = DictOf(f)
  <2>1. Is("dict", result) => \E K \in SUBSET Seq(Characters) :
                                 IsFiniteSet(K) /\ \E f \in [K -> V] : result = DictOf(f)
    BY <1>2, Kinds
  <2> QED
    BY <1>3, <2>1
<1>5. PICK f \in [K -> V] : result = DictOf(f)
  BY <1>4
<1>6. result.dict = f
  BY <1>5 DEF DictOf
<1>7. InfoOf(result) \in V
  BY <1>3, <1>6 DEF InfoOf
<1> QED
  BY <1>2, <1>7 DEF IsValue

PadsInv ==
    /\ temp \in Seq(Characters)
    /\ hashing \in {"update", "final"} <=> phase = "hash"
    /\ hashing \in {"update", "final", "done"}
    /\ phase = "hash" => /\ Splits(Characters, blocks, buffer, stream, temp)
                         /\ hashing = "final" => stream = <<>>
    /\ Hashed => IsHashOf(temp)

\* The library is given the bytes of InfoHash.torrent, each once and in their
\* order, in whole blocks, with the padding of FIPS 180 and the number of bits
\* behind them, for a file of any length: also if the padding needs a block of
\* its own or the file ends with a full one.
THEOREM PaddedAsSpecified ==
  ASSUME \A v : IsValue(v) => Encoder(v) \in Seq(Characters)
  PROVE  Spec => []PadsMessage
<1>1. TorrentInit => PadsInv
  <2>1. TorrentInit => temp \in Seq(Characters)
    BY TorrentFileAssumption DEF TorrentInit
  <2> QED
    BY <2>1 DEF TorrentInit, HashInit, PadsInv, Hashed
<1>2. PadsInv /\ FileInv /\ [Next]_vars => PadsInv'
  <2> SUFFICES ASSUME PadsInv, FileInv, [Next]_vars
               PROVE  PadsInv'
    OBVIOUS
  <2>1. CASE Hash
    <3>1. phase = "hash" /\ Splits(Characters, blocks, buffer, stream, temp) /\ temp' = temp
          /\ temp \in Seq(Characters)
      BY <2>1 DEF Hash, Goes, PadsInv
    <3>2. CASE Update
      <4>1. /\ Splits(Characters, blocks', buffer', stream', temp)
            /\ hashing' \in {"update", "final"}
            /\ hashing' = "final" => stream' = <<>>
        BY <3>1, <3>2, UpdateSplits
      <4>2. phase' = "hash"
        BY <2>1, <4>1 DEF Hash, Goes
      <4> QED
        BY <3>1, <4>1, <4>2 DEF PadsInv, Hashed
    <3>3. CASE Final
      <4>1. hashing = "final" /\ hashing' = "done"
        BY <3>3 DEF Final
      <4>2. Splits(Characters, blocks, buffer, <<>>, temp)
        BY <3>1, <4>1 DEF PadsInv
      <4>3. /\ \A k \in DOMAIN blocks' : Len(blocks'[k]) = BlockBytes
            /\ FlattenSeq(blocks') = Padded(temp)
        BY <3>1, <3>3, <4>2, FinalIsPadding
      <4>4. phase' = "parse"
        BY <2>1, <4>1 DEF Hash, Goes
      <4> QED
        BY <3>1, <4>1, <4>3, <4>4 DEF PadsInv, Hashed, IsHashOf
    <3> QED
      BY <2>1, <3>2, <3>3 DEF Hash, HashNext
  <2>2. CASE ReadTemp
    <3>1. /\ blocks' = <<>> /\ buffer' = <<>> /\ stream' = temp /\ hashing' = "update"
          /\ phase' = "hash" /\ temp' = temp
      BY <2>2 DEF ReadTemp, Begin, Goes
    <3>2. Splits(Characters, <<>>, <<>>, temp, temp) /\ temp \in Seq(Characters)
      BY NothingRead DEF PadsInv
    <3> QED
      BY <3>1, <3>2 DEF PadsInv, Hashed
  <2>3. ASSUME UNCHANGED <<sha1, temp>>, phase' = "hash" <=> phase = "hash", Hashed' => Hashed
        PROVE  PadsInv'
    BY <2>3 DEF PadsInv, sha1, IsHashOf
  <2>4. ASSUME UNCHANGED sha1, temp' \in Seq(Characters), phase # "hash",
               phase' \notin {"hash", "parse", "ready"}
        PROVE  PadsInv'
    BY <2>4 DEF PadsInv, sha1, Hashed
  <2>5. CASE ReadFile
    BY <2>3, <2>5 DEF ReadFile, Goes, Hashed
  <2>6. CASE Extract
    <3>1. phase = "extract" /\ phase' \in {"terminated", "undefined", "write"} /\ UNCHANGED <<sha1, temp>>
      <4>1. \A fields, dict : Defect(fields, dict) \in {"none", "terminated", "undefined"}
        BY DEF Defect
      <4> QED
        BY <2>6, <4>1 DEF Extract, Goes
    <3> QED
      BY <2>3, <3>1 DEF Hashed
  <2>7. CASE WriteTemp
    <3>1. phase = "write" /\ phase' = "open" /\ temp' = Encoder(InfoOf(result)) /\ UNCHANGED sha1
      BY <2>7 DEF WriteTemp, Goes
    <3>2. temp' \in Seq(Characters)
      BY <3>1, InfoIsValue DEF Extracted
    <3> QED
      BY <2>4, <3>1, <3>2
  <2>8. CASE WriteTempFails
    BY <2>3, <2>8 DEF WriteTempFails, Goes, Hashed
  <2>9. CASE OtherClient
    <3>1. phase = "open" /\ phase' = phase /\ temp' \in Leftovers /\ UNCHANGED sha1
      BY <2>9 DEF OtherClient
    <3> QED
      BY <2>4, <3>1, TorrentFileAssumption
  <2>10. CASE Parse
    <3>1. phase = "parse" /\ phase' \in {"terminated", "ready"} /\ UNCHANGED <<sha1, temp>>
      BY <2>10 DEF Parse
    <3> QED
      BY <2>3, <3>1 DEF Hashed
  <2>11. CASE UNCHANGED vars
    BY <2>3, <2>11 DEF vars, Hashed
  <2>12. CASE Stopped
    BY <2>11, <2>12 DEF Stopped
  <2> QED
    BY <2>1, <2>2, <2>5, <2>6, <2>7, <2>8, <2>9, <2>10, <2>11, <2>12 DEF Next
<1>3. PadsInv => PadsMessage
  BY DEF PadsInv, PadsMessage
<1>4. FileInv /\ [Next]_vars => FileInv'
  BY FileInvNext
<1> QED
  BY <1>1, <1>2, <1>3, <1>4, FileInvInit, PTL DEF Spec
-----------------------------------------------------------------------------
(* The numbers that are read                                               *)

LEMMA NinesAre ==
  /\ Nines \in [0 .. IntDigits + SizeDigits -> Nat] /\ Nines[0] = 0
  /\ \A k \in 1 .. IntDigits + SizeDigits : Nines[k] = 10 * Nines[k - 1] + 9
<1>1. PICK n \in Nat : n = IntDigits + SizeDigits
  BY BencodeAssumption
<1> DEFINE NextN(f, k) == IF k = 0 THEN 0 ELSE 10 * f[k - 1] + 9
           IsN(f) == f = [k \in 0 .. n |-> NextN(f, k)]
           G == [kd \in (1 .. n) \X Nat |-> 10 * kd[2] + 9]
<1>2. Nines = CHOOSE f : IsN(f)
  BY <1>1 DEF Nines
<1>3. G \in [(1 .. n) \X Nat -> Nat] /\ \A k \in 1 .. n, d \in Nat : G[<<k, d>>] = 10 * d + 9
  OBVIOUS
<1> HIDE DEF G
<1>4. PICK f \in [0 .. n -> Nat] : f[0] = 0 /\ \A k \in 1 .. n : f[k] = G[<<k, f[k - 1]>>]
  <2>1. DefinedUpTo(n, Nat, 0, G)
    BY <1>3, StepByStep
  <2> QED
    BY <2>1 DEF DefinedUpTo
<1>5. IsN(f)
  <2> SUFFICES ASSUME NEW k \in 0 .. n
               PROVE  f[k] = NextN(f, k)
    BY <1>4
  <2>1. CASE k = 0
    BY <1>4, <2>1
  <2>2. CASE k # 0
    <3>1. k \in 1 .. n /\ k - 1 \in 0 .. n
      BY <2>2
    <3>2. f[k - 1] \in Nat
      BY <3>1
    <3> QED
      BY <1>3, <1>4, <2>2, <3>1, <3>2
  <2> QED
    BY <2>1, <2>2
<1>6. IsN(Nines)
  BY <1>2, <1>5
<1>7. \A k \in 0 .. n : Nines[k] = NextN(Nines, k)
  <2> HIDE DEF NextN
  <2> QED
    BY <1>6
<1>8. Nines[0] = 0
  BY <1>7
<1>9. \A k \in 1 .. n : Nines[k] = 10 * Nines[k - 1] + 9
  BY <1>7
<1>10. \A k \in 0 .. n : Nines[k] \in Nat
  <2>1. \A k \in 1 .. n : Nines[k - 1] \in Nat => Nines[k] = G[<<k, Nines[k - 1]>>]
    BY <1>3, <1>9
  <2>2. Nines[0] \in Nat
    BY <1>8
  <2> QED
    BY <1>3, <2>1, <2>2, StaysIn
<1>11. Nines \in [0 .. n -> Nat]
  BY <1>6, <1>10
<1> QED
  BY <1>1, <1>8, <1>9, <1>11

LEMMA NinesGrow ==
  ASSUME NEW b \in 1 .. IntDigits + SizeDigits, NEW a \in 0 .. b
  PROVE  Nines[a] \in Nat /\ Nines[b] \in Nat /\ Nines[a] <= Nines[b]
<1> DEFINE N == IntDigits + SizeDigits
           T == {k \in 0 .. N : k >= a => Nines[a] <= Nines[k]}
<1>1. N \in Nat
  BY BencodeAssumption
<1>2. Nines \in [0 .. N -> Nat] /\ \A k \in 1 .. N : Nines[k] = 10 * Nines[k - 1] + 9
  BY NinesAre
<1> HIDE DEF N
<1>3. b \in 1 .. N
  BY DEF N
<1>4. a \in 0 .. N /\ b \in 0 .. N /\ Nines[a] \in Nat /\ Nines[b] \in Nat
  <2>1. a \in 0 .. N /\ b \in 0 .. N
    BY <1>1, <1>3
  <2> QED
    BY <1>2, <2>1
<1>5. 0 \in T
  <2>1. 0 >= a => a = 0
    BY <1>4
  <2> QED
    BY <1>1, <1>4, <2>1
<1>6. ASSUME NEW k \in 1 .. N, k - 1 \in T
      PROVE  k \in T
  <2>1. k - 1 \in 0 .. N /\ k \in 0 .. N
    BY <1>1
  <2>2. Nines[k - 1] \in Nat /\ Nines[k] = 10 * Nines[k - 1] + 9
    BY <1>2, <2>1
  <2>3. CASE k = a
    BY <1>4, <2>1, <2>3
  <2>4. CASE k # a
    <3>1. k >= a => k - 1 >= a
      BY <1>4, <2>4
    <3>2. k >= a => Nines[a] <= Nines[k - 1]
      BY <1>6, <3>1
    <3>3. k >= a => Nines[a] <= Nines[k]
      BY <1>4, <2>2, <3>2
    <3> QED
      BY <2>1, <3>3
  <2> QED
    BY <2>3, <2>4
<1>7. \A k \in 0 .. N : k \in T
  <2> HIDE DEF T
  <2> QED
    BY <1>1, <1>5, <1>6, CountUp
<1>8. b >= a
  BY <1>3
<1> QED
  BY <1>4, <1>7, <1>8
\* What a number x may be: how many digits it has for sure, and its type.
SafeOf(x) == IF x.for = "int" THEN IntDigits ELSE SizeDigits
Ranges(x) == IF x.for = "int" THEN x.value \in -MaxInt - 1 .. MaxInt ELSE x.value <= MaxSize

\* Before the digit that is checked there is room for it: with at most SafeOf(x)
\* digits a number has no more than that many nines.
Counted(x, place) ==
    /\ x.for # "int" => x.sign = 1 /\ place = "number"
    /\ x.sign = 1 => x.value >= 0
    /\ x.sign = -1 => x.value <= 0
    /\ place = "sign" => x.sign = 1 /\ x.value = 0
    /\ x.count <= SafeOf(x) => x.value <= Nines[x.count] /\ -x.value <= Nines[x.count]

NumbersInv ==
    /\ number \in Numbers /\ chars \in Seq(Characters)
    /\ at \in {"sign", "number", "bytes"} => Ranges(number)
    /\ at \in {"sign", "number"} => Counted(number, at)
    /\ at = "bytes" => /\ number.for # "int"
                       /\ missing \in 1 .. MaxSize /\ Len(chars) + missing = number.value

LEMMA Limits ==
  ASSUME NEW x
  PROVE  /\ SafeOf(x) \in 1 .. IntDigits + SizeDigits
         /\ MaxInt \in Nat /\ MaxSize \in Nat
         /\ Nines[SafeOf(x)] \in Nat
         /\ x.for = "int" => Nines[SafeOf(x)] <= MaxInt
         /\ x.for # "int" => Nines[SafeOf(x)] <= MaxSize
<1>1. /\ IntDigits \in Nat \ {0} /\ SizeDigits \in Nat \ {0} /\ MaxInt \in Nat /\ MaxSize \in Nat
      /\ Nines[IntDigits] <= MaxInt /\ Nines[SizeDigits] <= MaxSize
  BY BencodeAssumption
<1>2. IntDigits \in 1 .. IntDigits + SizeDigits /\ SizeDigits \in 1 .. IntDigits + SizeDigits
  BY <1>1
<1>3. Nines[IntDigits] \in Nat /\ Nines[SizeDigits] \in Nat
  <2>1. Nines \in [0 .. IntDigits + SizeDigits -> Nat]
    BY NinesAre
  <2>2. IntDigits \in 0 .. IntDigits + SizeDigits /\ SizeDigits \in 0 .. IntDigits + SizeDigits
    BY <1>1
  <2> QED
    BY <2>1, <2>2
<1>4. CASE x.for = "int"
  BY <1>1, <1>2, <1>3, <1>4 DEF SafeOf
<1>5. CASE x.for # "int"
  BY <1>1, <1>2, <1>3, <1>5 DEF SafeOf
<1> QED
  BY <1>4, <1>5

LEMMA CountedInRange ==
  ASSUME NEW x \in Numbers, NEW place, Counted(x, place), x.count <= SafeOf(x)
  PROVE  Ranges(x)
<1>1. PICK v \in Int, c \in Nat, s \in Nat : v = x.value /\ c = x.count /\ s = SafeOf(x)
  BY Limits DEF Numbers
<1>2. PICK n \in Nat : n = Nines[s]
  BY <1>1, Limits
<1>3. PICK m \in Nat : m = Nines[c] /\ m <= n
  <2>1. s \in 1 .. IntDigits + SizeDigits /\ c \in 0 .. s
    BY <1>1, Limits
  <2>2. Nines[c] \in Nat /\ Nines[c] <= Nines[s]
    BY <2>1, NinesGrow
  <2> QED
    BY <1>2, <2>2
<1>4. v <= m /\ -v <= m
  BY <1>1, <1>3 DEF Counted
<1>5. CASE x.for = "int"
  <2>1. n <= MaxInt /\ MaxInt \in Nat
    BY <1>1, <1>2, <1>5, Limits
  <2>2. v \in -MaxInt - 1 .. MaxInt
    BY <1>3, <1>4, <2>1
  <2> QED
    BY <1>1, <1>5, <2>2 DEF Ranges
<1>6. CASE x.for # "int"
  <2>1. n <= MaxSize /\ MaxSize \in Nat
    BY <1>1, <1>2, <1>6, Limits
  <2>2. v <= MaxSize
    BY <1>3, <1>4, <2>1
  <2> QED
    BY <1>1, <1>6, <2>2 DEF Ranges
<1> QED
  BY <1>5, <1>6

LEMMA StartCounted ==
  ASSUME NEW for \in {"int", "str", "key"}, NEW place \in {"sign", "number"}, NEW d \in 0 .. 9,
         NEW count \in {0, 1}, place = "sign" <=> for = "int", count = 0 <=> for = "int",
         for = "int" => d = 0,
         NEW x, x = [for |-> for, sign |-> 1, value |-> d, count |-> count]
  PROVE  x \in Numbers /\ Counted(x, place) /\ Ranges(x)
<1>1. x \in Numbers /\ x.for = for /\ x.sign = 1 /\ x.value = d /\ x.count = count
  BY DEF Numbers
<1>2. Nines[0] = 0 /\ Nines[1] = 9
  <2>1. 1 \in 1 .. IntDigits + SizeDigits
    BY BencodeAssumption
  <2>2. Nines[1] = 10 * Nines[1 - 1] + 9
    BY <2>1, NinesAre
  <2>3. Nines[0] = 0 /\ 1 - 1 = 0
    BY NinesAre
  <2> QED
    BY <2>2, <2>3
<1>3. d <= Nines[count] /\ -d <= Nines[count]
  BY <1>2
<1>4. Counted(x, place)
  BY <1>1, <1>3 DEF Counted
<1>5. x.count <= SafeOf(x)
  <2>1. SafeOf(x) \in 1 .. IntDigits + SizeDigits
    BY Limits
  <2>2. PICK s \in Nat : s = SafeOf(x) /\ s >= 1
    BY <2>1
  <2> QED
    BY <1>1, <2>2
<1> QED
  BY <1>1, <1>4, <1>5, CountedInRange

\* A digit more: with fewer digits than are safe there is room for any, and of
\* the one behind them the code has seen that it fits.
LEMMA DigitCounted ==
  ASSUME NEW x \in Numbers, NEW place \in {"sign", "number"}, Counted(x, place), NEW d \in 0 .. 9,
         NEW n, n = 10 * x.value + x.sign * d,
         NEW y, y = [x EXCEPT !.value = n, !.count = @ + 1],
         \/ x.count < SafeOf(x)
         \/ x.count = SafeOf(x) /\ Ranges(y)
  PROVE  y \in Numbers /\ Counted(y, "number") /\ Ranges(y)
<1>1. PICK v \in Int, c \in Nat, s \in Nat, g \in {-1, 1} :
         v = x.value /\ c = x.count /\ s = SafeOf(x) /\ g = x.sign
  BY Limits DEF Numbers
<1>2. PICK k \in Int : k = n /\ k = 10 * v + g * d
  BY <1>1
<1>3. /\ y \in Numbers /\ y.for = x.for /\ y.sign = g /\ y.value = k /\ y.count = c + 1
      /\ SafeOf(y) = s
  <2>1. y \in Numbers /\ y.for = x.for /\ y.sign = x.sign /\ y.value = n /\ y.count = x.count + 1
    <3>1. n \in Int /\ x.count + 1 \in Nat
      BY <1>1, <1>2
    <3> QED
      BY <3>1 DEF Numbers
  <2> QED
    BY <1>1, <1>2, <2>1 DEF SafeOf
<1>4. (g = 1 => v >= 0) /\ (g = -1 => v <= 0) /\ (x.for # "int" => g = 1)
  BY <1>1 DEF Counted
<1>5. (g = 1 => k >= 0) /\ (g = -1 => k <= 0)
  <2>1. CASE g = 1
    BY <1>2, <1>4, <2>1
  <2>2. CASE g = -1
    BY <1>2, <1>4, <2>2
  <2> QED
    BY <2>1, <2>2
<1>6. ASSUME c + 1 <= s
      PROVE  k <= Nines[c + 1] /\ -k <= Nines[c + 1]
  <2>1. c \in 0 .. s /\ c + 1 \in 1 .. IntDigits + SizeDigits /\ (c + 1) - 1 = c
    <3>1. PICK N \in Nat : N = IntDigits + SizeDigits
      BY BencodeAssumption
    <3>2. s \in 1 .. N
      BY <1>1, <3>1, Limits
    <3>3. c \in 0 .. s /\ c + 1 \in 1 .. N
      BY <1>6, <3>2
    <3> QED
      BY <3>1, <3>3
  <2>2. Nines[c + 1] = 10 * Nines[c] + 9
    BY <2>1, NinesAre
  <2>3. PICK m \in Nat : m = Nines[c]
    <3>1. PICK N \in Nat : N = IntDigits + SizeDigits
      BY BencodeAssumption
    <3>2. c \in 0 .. N
      BY <2>1, <3>1
    <3>3. Nines \in [0 .. N -> Nat]
      BY <3>1, NinesAre
    <3> QED
      BY <3>2, <3>3
  <2>4. v <= m /\ -v <= m
    BY <1>1, <2>1, <2>3 DEF Counted
  <2>5. k <= 10 * m + 9 /\ -k <= 10 * m + 9
    <3>1. CASE g = 1
      BY <1>2, <2>4, <3>1
    <3>2. CASE g = -1
      BY <1>2, <2>4, <3>2
    <3> QED
      BY <3>1, <3>2
  <2> QED
    BY <2>2, <2>3, <2>5
<1>7. Counted(y, "number")
  <2>1. y.count <= SafeOf(y) => y.value <= Nines[y.count] /\ -y.value <= Nines[y.count]
    BY <1>3, <1>6
  <2> QED
    BY <1>3, <1>4, <1>5, <2>1 DEF Counted
<1>8. Ranges(y)
  <2>1. CASE c < s
    <3>1. y.count <= SafeOf(y)
      BY <1>3, <2>1
    <3> QED
      BY <1>3, <1>7, <3>1, CountedInRange
  <2>2. CASE ~(c < s)
    BY <1>1, <2>2
  <2> QED
    BY <2>1, <2>2
<1> QED
  BY <1>3, <1>7, <1>8

LEMMA NumbersInit == Init => NumbersInv
<1>1. <<>> \in Seq(Characters)
  OBVIOUS
<1> QED
  BY <1>1 DEF Init, NumbersInv, Numbers

LEMMA FailNumbers ==
  ASSUME NumbersInv, Fail
  PROVE  NumbersInv'
BY DEF NumbersInv, Fail

\* Between numbers and strings there is nothing to say.
LEMMA BetweenNumbers ==
  ASSUME NumbersInv, at' \in {"turn", "value"}, UNCHANGED <<number, chars>>
  PROVE  NumbersInv'
BY DEF NumbersInv

LEMMA StartNumbers ==
  ASSUME NumbersInv, NEW c \in Digits, NEW for \in {"str", "key"},
         StartNumber(for, "number", c - Zero, 1)
  PROVE  NumbersInv'
<1>1. PICK d \in 0 .. 9 : d = c - Zero
  BY DEF Digits, Zero
<1>2. /\ at' = "number" /\ UNCHANGED chars
      /\ number' = [for |-> for, sign |-> 1, value |-> d, count |-> 1]
  BY <1>1 DEF StartNumber
<1>3. PICK x : x = [for |-> for, sign |-> 1, value |-> d, count |-> 1]
  OBVIOUS
<1>4. x \in Numbers /\ Counted(x, "number") /\ Ranges(x)
  BY <1>3, StartCounted
<1> QED
  BY <1>2, <1>3, <1>4 DEF NumbersInv

LEMMA StartInteger ==
  ASSUME NumbersInv, StartNumber("int", "sign", 0, 0)
  PROVE  NumbersInv'
<1>1. /\ at' = "sign" /\ UNCHANGED chars
      /\ number' = [for |-> "int", sign |-> 1, value |-> 0, count |-> 0]
  BY DEF StartNumber
<1>2. PICK x : x = [for |-> "int", sign |-> 1, value |-> 0, count |-> 0]
  OBVIOUS
<1>3. x \in Numbers /\ Counted(x, "sign") /\ Ranges(x)
  BY <1>2, StartCounted
<1> QED
  BY <1>1, <1>2, <1>3 DEF NumbersInv

LEMMA StoreNumbers ==
  ASSUME NumbersInv, NEW v, Store(v), chars' = chars, number' = number
  PROVE  NumbersInv'
<1>1. at' = "turn" \/ Fail
  BY DEF Store
<1> QED
  BY <1>1, FailNumbers, BetweenNumbers

LEMMA OpenNumbers ==
  ASSUME NumbersInv, NEW v, Open(v)
  PROVE  NumbersInv'
<1>1. (at' = "turn" /\ UNCHANGED <<number, chars>>) \/ Fail
  BY DEF Open
<1> QED
  BY <1>1, FailNumbers, BetweenNumbers

LEMMA ReadValueNumbers ==
  ASSUME NumbersInv, NEW c, ReadValue(c)
  PROVE  NumbersInv'
<1>1. \/ StartNumber("int", "sign", 0, 0)
      \/ \E v : Open(v)
      \/ c \in Digits /\ StartNumber("str", "number", c - Zero, 1)
      \/ Fail
  BY DEF ReadValue
<1> QED
  BY <1>1, StartInteger, OpenNumbers, StartNumbers, FailNumbers

LEMMA StringNumbers ==
  ASSUME NumbersInv, NEW s, StringRead(s)
  PROVE  NumbersInv'
<1>1. \/ at' = "value" /\ UNCHANGED <<number, chars>>
      \/ Store(StrOf(s))
  BY DEF StringRead
<1>2. Store(StrOf(s)) => chars' = chars /\ number' = number
  BY DEF Store, Fail
<1> QED
  BY <1>1, <1>2, BetweenNumbers, StoreNumbers

LEMMA CharacterNumbers ==
  ASSUME NumbersInv, NEW c \in Characters,
         Turn(c) \/ ValueOfKey(c) \/ Sign(c) \/ Digit(c) \/ NumberEnds(c) \/ Byte(c)
  PROVE  NumbersInv'
<1>1. CASE Turn(c)
  <2>1. CASE Close
    BY <2>1, BetweenNumbers DEF Close
  <2>2. CASE c \in Digits /\ StartNumber("key", "number", c - Zero, 1)
    BY <2>2, StartNumbers
  <2>3. CASE ReadValue(c)
    BY <2>3, ReadValueNumbers
  <2>4. CASE Fail
    BY <2>4, FailNumbers
  <2> QED
    BY <1>1, <2>1, <2>2, <2>3, <2>4 DEF Turn
<1>2. CASE ValueOfKey(c)
  BY <1>2, ReadValueNumbers DEF ValueOfKey
<1>3. CASE Sign(c)
  <2>1. /\ at = "sign" /\ at' = "number" /\ number' = [number EXCEPT !.sign = -1]
        /\ UNCHANGED chars
    BY <1>3 DEF Sign
  <2>2. PICK y : y = [number EXCEPT !.sign = -1]
    OBVIOUS
  <2>3. number \in Numbers /\ Counted(number, "sign") /\ Ranges(number)
    BY <2>1 DEF NumbersInv
  <2>4. /\ y \in Numbers /\ y.for = number.for /\ y.sign = -1 /\ y.value = number.value
        /\ y.count = number.count
    BY <2>2, <2>3 DEF Numbers
  <2>5. number.for = "int" /\ number.value = 0
    BY <2>3 DEF Counted
  <2>6. Counted(y, "number") /\ Ranges(y)
    BY <2>3, <2>4, <2>5 DEF Counted, Ranges, SafeOf
  <2> QED
    BY <2>1, <2>2, <2>4, <2>6 DEF NumbersInv
<1>4. CASE Digit(c)
  <2>1. PICK d \in 0 .. 9 : d = c - Zero
    BY <1>4 DEF Digit, Digits, Zero
  <2>2. at \in {"sign", "number"} /\ number \in Numbers /\ Counted(number, at)
    BY <1>4 DEF Digit, NumbersInv
  <2>3. PICK n : n = 10 * number.value + number.sign * d
    OBVIOUS
  <2>4. CASE Fail
    BY <2>4, FailNumbers
  <2>5. CASE ~Fail
    <3>1. /\ Fits(n) /\ at' = "number" /\ UNCHANGED chars
          /\ number' = [number EXCEPT !.value = n, !.count = @ + 1]
      BY <1>4, <2>1, <2>3, <2>5 DEF Digit
    <3>2. PICK y : y = [number EXCEPT !.value = n, !.count = @ + 1]
      OBVIOUS
    <3>3. number.count = SafeOf(number) /\ InRange(n) => Ranges(y)
      <4>1. y.for = number.for /\ y.value = n
        BY <2>2, <3>2 DEF Numbers
      <4> QED
        BY <4>1 DEF InRange, Ranges
    <3>4. \/ number.count < SafeOf(number)
          \/ number.count = SafeOf(number) /\ Ranges(y)
      <4>1. SafeDigits = SafeOf(number)
        BY DEF SafeDigits, SafeOf
      <4> QED
        BY <3>1, <3>3, <4>1 DEF Fits
    <3>5. y \in Numbers /\ Counted(y, "number") /\ Ranges(y)
      BY <2>2, <2>3, <3>2, <3>4, DigitCounted
    <3> QED
      BY <3>1, <3>2, <3>5 DEF NumbersInv
  <2> QED
    BY <2>4, <2>5
<1>5. CASE NumberEnds(c)
  <2>1. CASE Store(IntOf(number.value))
    <3>1. chars' = chars /\ number' = number
      BY <2>1 DEF Store, Fail
    <3> QED
      BY <2>1, <3>1, StoreNumbers
  <2>2. CASE StringRead(<<>>)
    BY <2>2, StringNumbers
  <2>3. CASE /\ number.for # "int" /\ number.value > 0
             /\ at' = "bytes" /\ chars' = <<>> /\ missing' = number.value
             /\ UNCHANGED number
    <3>1. number \in Numbers /\ Ranges(number)
      BY <1>5 DEF NumberEnds, NumbersInv
    <3>2. number.value \in 1 .. MaxSize
      <4>1. number.value \in Int /\ number.value <= MaxSize /\ MaxSize \in Nat
        BY <2>3, <3>1, BencodeAssumption DEF Ranges, Numbers
      <4> QED
        BY <2>3, <4>1
    <3>3. <<>> \in Seq(Characters) /\ Len(<<>>) = 0
      OBVIOUS
    <3> QED
      BY <2>3, <3>1, <3>2, <3>3 DEF NumbersInv
  <2>4. CASE Fail
    BY <2>4, FailNumbers
  <2> QED
    BY <1>5, <2>1, <2>2, <2>3, <2>4 DEF NumberEnds
<1>6. CASE Byte(c)
  <2>1. CASE StringRead(Append(chars, c))
    BY <2>1, StringNumbers
  <2>2. CASE /\ missing > 1 /\ chars' = Append(chars, c) /\ missing' = missing - 1
             /\ UNCHANGED <<at, number>>
    <3>1. /\ at = "bytes" /\ number \in Numbers /\ chars \in Seq(Characters) /\ Ranges(number)
          /\ number.for # "int" /\ missing \in 1 .. MaxSize /\ Len(chars) + missing = number.value
      BY <1>6 DEF Byte, NumbersInv
    <3>2. Append(chars, c) \in Seq(Characters) /\ Len(Append(chars, c)) = Len(chars) + 1
      BY <3>1
    <3>3. missing - 1 \in 1 .. MaxSize /\ (Len(chars) + 1) + (missing - 1) = number.value
      <4>1. MaxSize \in Nat /\ Len(chars) \in Nat
        BY <3>1, BencodeAssumption
      <4> QED
        BY <2>2, <3>1, <4>1
    <3> QED
      BY <2>2, <3>1, <3>2, <3>3 DEF NumbersInv
  <2> QED
    BY <1>6, <2>1, <2>2 DEF Byte
<1> QED
  BY <1>1, <1>2, <1>3, <1>4, <1>5, <1>6

LEMMA DecodeNumbers ==
  ASSUME NumbersInv, Decode
  PROVE  NumbersInv'
<1>1. CASE EndOfInput
  BY <1>1, FailNumbers DEF EndOfInput
<1>2. CASE ReadCharacter
  <2>1. PICK c \in Alphabet \union UNION {ToSet(t) : t \in Texts} :
           Turn(c) \/ ValueOfKey(c) \/ Sign(c) \/ Digit(c) \/ NumberEnds(c) \/ Byte(c)
    BY <1>2 DEF ReadCharacter
  <2>2. c \in Characters
    BY CharacterRead
  <2> QED
    BY <2>1, <2>2, CharacterNumbers
<1> QED
  BY <1>1, <1>2 DEF Decode
-----------------------------------------------------------------------------
(* What is made of a file                                                  *)

\* Whole hashes fit into the string up to where they are cut out.
LEMMA ChunkPlace ==
  ASSUME NEW n \in Nat, NEW h \in Nat \ {0}, NEW k \in 1 .. n \div h
  PROVE  /\ (k - 1) * h \in Nat
         /\ k * h \in Nat
         /\ k * h = (k - 1) * h + h
         /\ k * h <= n
<1>1. PICK q \in Nat : q = n \div h /\ q * h <= n
  <2>1. n \div h \in Nat /\ n = h * (n \div h) + (n % h) /\ n % h \in 0 .. h - 1
    OBVIOUS
  <2> QED
    BY <2>1
<1>2. k \in 1 .. q
  BY <1>1
<1>3. (k - 1) * h \in Nat /\ k * h \in Nat /\ k * h = (k - 1) * h + h
  BY <1>2
<1>4. q * h = k * h + (q - k) * h /\ (q - k) * h \in Nat
  BY <1>2
<1> QED
  BY <1>1, <1>3, <1>4

LEMMA ChunksAre ==
  ASSUME NEW s \in Seq(Characters)
  PROVE  /\ Len(Chunks(s)) = Len(s) \div HashSize
         /\ \A k \in DOMAIN Chunks(s) : Len(Chunks(s)[k]) = HashSize
<1>1. PICK n \in Nat : n = Len(s)
  OBVIOUS
<1>2. PICK h \in Nat \ {0} : h = HashSize
  BY TorrentFileAssumption
<1>3. n \div h \in Nat
  OBVIOUS
<1>4. DOMAIN Chunks(s) = 1 .. n \div h
  BY <1>1, <1>2 DEF Chunks
<1>5. Len(Chunks(s)) = n \div h
  <2>1. Chunks(s) = [k \in 1 .. n \div h |-> SubSeq(s, (k - 1) * h + 1, k * h)]
    BY <1>1, <1>2 DEF Chunks
  <2> DEFINE S == {SubSeq(s, (k - 1) * h + 1, k * h) : k \in 1 .. n \div h}
  <2>2. Chunks(s) \in [1 .. n \div h -> S]
    BY <2>1
  <2> HIDE DEF S
  <2> QED
    BY <1>3, <2>2, FunctionIsSeq
<1>6. ASSUME NEW k \in 1 .. n \div h
      PROVE  Len(Chunks(s)[k]) = h
  <2>1. Chunks(s)[k] = SubSeq(s, (k - 1) * h + 1, k * h)
    BY <1>1, <1>2, <1>6 DEF Chunks
  <2>2. PICK a \in Nat, b \in Nat : a = (k - 1) * h /\ b = k * h /\ b = a + h /\ b <= n
    BY <1>6, ChunkPlace
  <2>3. Len(SubSeq(s, a + 1, b)) = h
    BY <1>1, <2>2
  <2> QED
    BY <2>1, <2>2, <2>3
<1> QED
  BY <1>1, <1>2, <1>4, <1>5, <1>6

\* The fields have the types that get<> asks for.
LEMMA FieldsAre ==
  ASSUME FileInv, Extracted
  PROVE  /\ InfoOf(result).dict[PieceLength].int \in Int
         /\ InfoOf(result).dict[Length].int \in Int
         /\ InfoOf(result).dict[Pieces].str \in Seq(Characters)
<1>1. PICK V : AreValues(V) /\ InfoOf(result) \in V
  BY InfoIsValue DEF IsValue
<1>2. PICK info : info = InfoOf(result)
  OBVIOUS
<1>3. /\ Is("dict", info)
      /\ \A k \in 1 .. 4 : InfoFields[k].name \in DOMAIN info.dict
                           /\ Is(InfoFields[k].type, info.dict[InfoFields[k].name])
  BY <1>2 DEF FileInv, HasFields
<1>4. \A k \in DOMAIN info.dict : info.dict[k] \in V
  <2>1. PICK K \in SUBSET Seq(Characters) : \E f \in [K -> V] : info = DictOf(f)
    <3>1. Is("dict", info) => \E K \in SUBSET Seq(Characters) :
                                 IsFiniteSet(K) /\ \E f \in [K -> V] : info = DictOf(f)
      BY <1>1, <1>2, Kinds
    <3> QED
      BY <1>3, <3>1
  <2>2. PICK f \in [K -> V] : info = DictOf(f)
    BY <2>1
  <2>3. info.dict = f
    BY <2>2 DEF DictOf
  <2> QED
    BY <2>3
<1>5. /\ InfoFields[2] = Field(PieceLength, "int")
      /\ InfoFields[3] = Field(Length, "int")
      /\ InfoFields[4] = Field(Pieces, "str")
  BY DEF InfoFields
<1>6. /\ PieceLength \in DOMAIN info.dict /\ Is("int", info.dict[PieceLength])
      /\ Length \in DOMAIN info.dict /\ Is("int", info.dict[Length])
      /\ Pieces \in DOMAIN info.dict /\ Is("str", info.dict[Pieces])
  BY <1>3, <1>5 DEF Field
<1>7. \A v \in V : (Is("int", v) => v.int \in Int) /\ (Is("str", v) => v.str \in Seq(Characters))
  BY <1>1, Kinds
<1> QED
  BY <1>2, <1>4, <1>6, <1>7
HashSizes(t) == \A k \in DOMAIN t.hashes : Len(t.hashes[k]) = HashSize

\* What is known once parse() has ended.
Parsed ==
    LET info == InfoOf(result).dict
    IN  /\ torrent.pieceLength = ToInt(info[PieceLength].int)
        /\ torrent.length = ToInt(info[Length].int)
        /\ torrent.hashes = Chunks(info[Pieces].str)

ParseInv ==
    /\ hashing \in {"update", "final", "done"}
    /\ phase = "hash" <=> hashing # "done"
    /\ HashSizes(torrent)
    /\ phase = "ready" => Parsed

LEMMA ParseInvInit == TorrentInit => ParseInv
<1> SUFFICES ASSUME TorrentInit
             PROVE  ParseInv
  OBVIOUS
<1>1. HashSizes(torrent)
  BY DEF TorrentInit, HashSizes
<1> QED
  BY <1>1 DEF TorrentInit, HashInit, ParseInv

LEMMA ParseInvNext ==
  ASSUME ParseInv, FileInv, [Next]_vars
  PROVE  ParseInv'
<1>1. ASSUME UNCHANGED <<sha1, torrent>>, phase # "hash", phase' \notin {"hash", "ready"}
      PROVE  ParseInv'
  <2>1. HashSizes(torrent)'
    BY <1>1 DEF ParseInv, HashSizes
  <2> QED
    BY <1>1, <2>1 DEF ParseInv, sha1
<1>2. CASE ReadFile
  <2>1. phase = "decode" /\ phase' \in {"decode", "extract", "terminated"}
    <3>1. outcome' \in {"reading", "done", "failed"}
      BY <1>2, OutcomeStep DEF ReadFile
    <3> QED
      BY <1>2, <3>1 DEF ReadFile, Goes
  <2> QED
    BY <1>1, <1>2, <2>1 DEF ReadFile
<1>3. CASE Extract
  <2>1. phase = "extract" /\ phase' \in {"terminated", "undefined", "write"}
    <3>1. \A fields, dict : Defect(fields, dict) \in {"none", "terminated", "undefined"}
      BY DEF Defect
    <3> QED
      BY <1>3, <3>1 DEF Extract, Goes
  <2> QED
    BY <1>1, <1>3, <2>1 DEF Extract
<1>4. CASE WriteTemp \/ WriteTempFails \/ OtherClient
  BY <1>1, <1>4 DEF WriteTemp, WriteTempFails, OtherClient, Goes
<1>5. CASE ReadTemp
  <2>1. phase' = "hash" /\ hashing' = "update" /\ UNCHANGED torrent
    BY <1>5 DEF ReadTemp, Begin, Goes
  <2>2. HashSizes(torrent)'
    BY <2>1 DEF ParseInv, HashSizes
  <2> QED
    BY <2>1, <2>2 DEF ParseInv
<1>6. CASE Hash
  <2>1. hashing' \in {"update", "final", "done"}
    BY <1>6 DEF Hash, HashNext, Update, Final
  <2>2. /\ hashing' = "done" => phase' = "parse"
        /\ hashing' # "done" => phase' = "hash"
    BY <1>6 DEF Hash, Goes
  <2>3. HashSizes(torrent)'
    BY <1>6 DEF Hash, ParseInv, HashSizes
  <2> QED
    BY <2>1, <2>2, <2>3 DEF ParseInv
<1>7. CASE Parse
  <2>1. phase = "parse" /\ hashing = "done" /\ UNCHANGED <<hashing, result>>
    BY <1>7 DEF Parse, ParseInv, sha1, decoder
  <2>2. PICK info : info = InfoOf(result).dict
    OBVIOUS
  <2>3. CASE phase' = "terminated" /\ UNCHANGED torrent
    <3>1. HashSizes(torrent)'
      BY <2>3 DEF ParseInv, HashSizes
    <3> QED
      BY <2>1, <2>3, <3>1 DEF ParseInv
  <2>4. CASE /\ phase' = "ready"
             /\ torrent' = [hashes |-> Chunks(info[Pieces].str),
                            pieceLength |-> ToInt(info[PieceLength].int),
                            length |-> ToInt(info[Length].int)]
    <3>1. info[Pieces].str \in Seq(Characters)
      BY <2>1, <2>2, FieldsAre DEF Extracted
    <3>2. \A k \in DOMAIN Chunks(info[Pieces].str) : Len(Chunks(info[Pieces].str)[k]) = HashSize
      BY <3>1, ChunksAre
    <3>3. HashSizes(torrent')
      BY <2>4, <3>2 DEF HashSizes
    <3>4. Parsed'
      <4>1. InfoOf(result') = InfoOf(result)
        BY <2>1
      <4> QED
        BY <2>2, <2>4, <4>1 DEF Parsed
    <3> QED
      BY <2>1, <2>4, <3>3, <3>4 DEF ParseInv
  <2> QED
    BY <1>7, <2>2, <2>3, <2>4 DEF Parse
<1>8. CASE UNCHANGED vars
  <2>1. UNCHANGED <<phase, hashing, torrent, result>>
    BY <1>8 DEF vars, sha1, decoder
  <2>2. HashSizes(torrent)'
    BY <2>1 DEF ParseInv, HashSizes
  <2>3. Parsed => Parsed'
    BY <2>1 DEF Parsed, InfoOf
  <2> QED
    BY <2>1, <2>2, <2>3 DEF ParseInv
<1>9. CASE Stopped
  BY <1>8, <1>9 DEF Stopped
<1> QED
  BY <1>2, <1>3, <1>4, <1>5, <1>6, <1>7, <1>8, <1>9 DEF Next

LEMMA NumbersNext ==
  ASSUME NumbersInv, [Next]_vars
  PROVE  NumbersInv'
<1>1. CASE ReadFile
  BY <1>1, DecodeNumbers DEF ReadFile
<1>2. CASE UNCHANGED decoder
  <2>1. UNCHANGED <<number, chars, at, missing>>
    BY <1>2 DEF decoder
  <2> QED
    BY <2>1 DEF NumbersInv
<1>3. ReadFile \/ UNCHANGED decoder
  BY DEF Next, Extract, WriteTemp, WriteTempFails, OtherClient, ReadTemp, Hash, Parse, Stopped, vars
<1> QED
  BY <1>1, <1>2, <1>3

\* No length and no integer in a file gets out of its C++ type while the decoder
\* multiplies and adds: with IntDigits and SizeDigits the numbers of digits that
\* fit for sure, decode_digits need only check the digit behind them.  The
\* decoder reads exactly the bytes that a string announces, every phase of
\* getTorrentFile has what the one before made, and the hashes of the pieces have
\* HashSize bytes.
THEOREM TypesCorrect == Spec => []TypeOK
<1>1. TorrentInit => NumbersInv
  BY NumbersInit DEF TorrentInit
<1>2. NumbersInv /\ [Next]_vars => NumbersInv'
  BY NumbersNext
<1>3. NumbersInv /\ FileInv /\ ParseInv => TypeOK
  <2> SUFFICES ASSUME NumbersInv, FileInv, ParseInv
               PROVE  TypeOK
    OBVIOUS
  <2>1. /\ outcome = "reading" <=> phase = "decode"
        /\ phase \notin {"decode", "terminated"} => outcome = "done"
    BY DEF FileInv
  <2>2. at \in {"sign", "number"} => InRange(number.value)
    BY DEF NumbersInv, Ranges, InRange
  <2>3. at = "bytes" => missing \in 1 .. MaxSize /\ Len(chars) + missing = number.value
    BY DEF NumbersInv
  <2>4. /\ \A k \in DOMAIN torrent.hashes : Len(torrent.hashes[k]) = HashSize
        /\ hashing \in {"update", "final"} <=> phase = "hash"
    BY DEF ParseInv, HashSizes
  <2> QED
    BY <2>1, <2>2, <2>3, <2>4 DEF TypeOK
<1>4. FileInv /\ [Next]_vars => FileInv'
  BY FileInvNext
<1>5. ParseInv /\ FileInv /\ [Next]_vars => ParseInv'
  BY ParseInvNext
<1> QED
  BY <1>1, <1>2, <1>3, <1>4, <1>5, FileInvInit, ParseInvInit, PTL DEF Spec

LEMMA LastPiece ==
  ASSUME NEW l \in Nat \ {0}, NEW p \in Nat \ {0}, NEW n \in Int, n = PiecesOf(l, p)
  PROVE  n \in Nat /\ l - (n - 1) * p \in 1 .. p
<1>1. PICK m \in Nat : m = l + (p - 1)
  OBVIOUS
<1>2. n = m \div p
  BY <1>1 DEF PiecesOf
<1>3. n \in Nat /\ m = p * n + (m % p) /\ m % p \in 0 .. p - 1
  BY <1>2
<1>4. (n - 1) * p = p * n - p
  BY <1>3
<1> QED
  BY <1>1, <1>3, <1>4

\* If the lengths of a file are positive and fit an int and there is a hash for
\* every piece that they make, the last piece, which download() computes from
\* the ints and the number of hashes, has 1 to PieceLength bytes.
THEOREM SizesFitTogether == Spec => []SizesFit
<1>1. FileInv /\ ParseInv => SizesFit
  <2> SUFFICES ASSUME FileInv, ParseInv, phase = "ready"
               PROVE  SizesFit
    BY DEF SizesFit
  <2>1. PICK l, p, s : /\ l = InfoOf(result).dict[Length].int
                       /\ p = InfoOf(result).dict[PieceLength].int
                       /\ s = InfoOf(result).dict[Pieces].str
    OBVIOUS
  <2>2. s \in Seq(Characters)
    BY <2>1, FieldsAre DEF Extracted
  <2>3. ASSUME {l, p} \subseteq 1 .. IntLimit - 1, Len(s) = HashSize * PiecesOf(l, p)
        PROVE  torrent.length - (Len(torrent.hashes) - 1) * torrent.pieceLength
                 \in 1 .. torrent.pieceLength
    <3>1. PICK i \in Nat \ {0}, h \in Nat \ {0} : i = IntLimit /\ h = HashSize
      BY TorrentFileAssumption
    <3>2. l \in Nat \ {0} /\ p \in Nat \ {0} /\ l < i /\ p < i
      BY <2>3, <3>1
    <3>3. \A x \in Nat : x < i => ToInt(x) = x
      <4>1. ASSUME NEW x \in Nat, x < i
            PROVE  (x + i) % (2 * i) = x + i
        BY <3>1, <4>1
      <4> QED
        BY <3>1, <4>1 DEF ToInt
    <3>4. torrent.length = l /\ torrent.pieceLength = p /\ torrent.hashes = Chunks(s)
      BY <2>1, <3>2, <3>3 DEF ParseInv, Parsed
    <3>5. PICK n \in Int : n = PiecesOf(l, p)
      BY <3>2 DEF PiecesOf
    <3>6. n \in Nat /\ l - (n - 1) * p \in 1 .. p
      BY <3>2, <3>5, LastPiece
    <3>7. Len(Chunks(s)) = n
      <4>1. Len(s) = h * n
        BY <2>3, <3>1, <3>5
      <4>2. (h * n) \div h = n
        BY <3>6
      <4> QED
        BY <2>2, <3>1, <4>1, <4>2, ChunksAre
    <3> QED
      BY <3>4, <3>6, <3>7
  <2> QED
    BY <2>1, <2>3 DEF SizesFit
<1>2. FileInv /\ [Next]_vars => FileInv'
  BY FileInvNext
<1>3. ParseInv /\ FileInv /\ [Next]_vars => ParseInv'
  BY ParseInvNext
<1> QED
  BY <1>1, <1>2, <1>3, FileInvInit, ParseInvInit, PTL DEF Spec
-----------------------------------------------------------------------------
(* What is read means what the text says                                   *)

Strings == Seq(Characters)

Numerals == Seq(Digits)

\* What NumberOf has after each of the digits.
NumberUpTo(f, s) ==
    /\ f \in [0 .. Len(s) -> Int]
    /\ f[0] = 0
    /\ \A k \in 1 .. Len(s) : f[k] = 10 * f[k - 1] + (s[k] - Zero)

LEMMA NumberMade ==
  ASSUME NEW s \in Numerals
  PROVE  \E f : NumberUpTo(f, s) /\ NumberOf(s) = f[Len(s)]
<1>1. PICK n \in Nat : n = Len(s)
  BY DEF Numerals
<1> DEFINE NextN(f, k) == IF k = 0 THEN 0 ELSE 10 * f[k - 1] + (s[k] - Zero)
           IsN(f) == f = [k \in 0 .. n |-> NextN(f, k)]
           G == [kd \in (1 .. n) \X Int |-> 10 * kd[2] + (s[kd[1]] - Zero)]
           F == CHOOSE f : IsN(f)
<1>2. NumberOf(s) = F[n]
  BY <1>1 DEF NumberOf
<1>3. /\ G \in [(1 .. n) \X Int -> Int]
      /\ \A k \in 1 .. n, d \in Int : G[<<k, d>>] = 10 * d + (s[k] - Zero)
  <2>1. \A k \in 1 .. n : s[k] - Zero \in Int
    BY <1>1 DEF Numerals, Digits, Zero
  <2>2. \A x, d \in Int : 10 * d + x \in Int
    OBVIOUS
  <2> QED
    BY <2>1, <2>2
<1> HIDE DEF G
<1>4. PICK f \in [0 .. n -> Int] : f[0] = 0 /\ \A k \in 1 .. n : f[k] = G[<<k, f[k - 1]>>]
  <2>1. 0 \in Int
    OBVIOUS
  <2>2. DefinedUpTo(n, Int, 0, G)
    BY <1>3, <2>1, StepByStep
  <2> QED
    BY <2>2 DEF DefinedUpTo
<1>5. IsN(f)
  <2> SUFFICES ASSUME NEW k \in 0 .. n
               PROVE  f[k] = NextN(f, k)
    BY <1>4
  <2>1. CASE k = 0
    BY <1>4, <2>1
  <2>2. CASE k # 0
    <3>1. k \in 1 .. n /\ k - 1 \in 0 .. n
      BY <2>2
    <3>2. f[k - 1] \in Int
      BY <3>1
    <3> QED
      BY <1>3, <1>4, <2>2, <3>1, <3>2
  <2> QED
    BY <2>1, <2>2
<1>6. IsN(F)
  BY <1>5
<1> HIDE DEF F
<1>7. \A k \in 0 .. n : F[k] = NextN(F, k)
  <2> HIDE DEF NextN
  <2> QED
    BY <1>6
<1>8. F[0] = 0
  BY <1>7
<1>9. \A k \in 1 .. n : F[k] = 10 * F[k - 1] + (s[k] - Zero)
  <2> SUFFICES ASSUME NEW k \in 1 .. n
               PROVE  F[k] = 10 * F[k - 1] + (s[k] - Zero)
    OBVIOUS
  <2>1. k \in 0 .. n /\ k # 0
    OBVIOUS
  <2>2. F[k] = NextN(F, k)
    BY <1>7, <2>1
  <2> QED
    BY <2>1, <2>2
<1>10. \A k \in 0 .. n : F[k] \in Int
  <2>1. \A k \in 1 .. n : F[k - 1] \in Int => F[k] = G[<<k, F[k - 1]>>]
    BY <1>3, <1>9
  <2>2. F[0] \in Int
    BY <1>8
  <2> QED
    BY <1>3, <2>1, <2>2, StaysIn
<1>11. F \in [0 .. n -> Int]
  BY <1>6, <1>10
<1>12. NumberUpTo(F, s)
  BY <1>1, <1>8, <1>9, <1>11 DEF NumberUpTo
<1> QED
  BY <1>1, <1>2, <1>12

LEMMA NumberOfNone == NumberOf(<<>>) = 0
<1>1. <<>> \in Numerals /\ Len(<<>>) = 0
  BY DEF Numerals
<1>2. PICK f : NumberUpTo(f, <<>>) /\ NumberOf(<<>>) = f[Len(<<>>)]
  BY <1>1, NumberMade
<1> QED
  BY <1>1, <1>2 DEF NumberUpTo

LEMMA NumberOfMore ==
  ASSUME NEW s \in Numerals, NEW c \in Digits
  PROVE  /\ NumberOf(s) \in Int
         /\ NumberOf(Append(s, c)) = 10 * NumberOf(s) + (c - Zero)
<1>1. PICK n \in Nat : n = Len(s)
  BY DEF Numerals
<1>2. PICK t : t = Append(s, c)
  OBVIOUS
<1>3. t \in Numerals /\ Len(t) = n + 1 /\ t[n + 1] = c /\ \A k \in 1 .. n : t[k] = s[k]
  BY <1>1, <1>2 DEF Numerals
<1>4. PICK f : NumberUpTo(f, s) /\ NumberOf(s) = f[n]
  BY <1>1, NumberMade
<1>5. PICK g : NumberUpTo(g, t) /\ NumberOf(t) = g[n + 1]
  <2>1. \E g : NumberUpTo(g, t) /\ NumberOf(t) = g[Len(t)]
    BY <1>3, NumberMade
  <2> QED
    BY <1>3, <2>1
<1> DEFINE T == {k \in 0 .. n : g[k] = f[k]}
<1>6. 0 \in T
  BY <1>4, <1>5 DEF NumberUpTo
<1>7. ASSUME NEW k \in 1 .. n, k - 1 \in T
      PROVE  k \in T
  <2>1. g[k - 1] = f[k - 1]
    BY <1>7
  <2>2. f[k] = 10 * f[k - 1] + (s[k] - Zero)
    BY <1>1, <1>4 DEF NumberUpTo
  <2>3. g[k] = 10 * g[k - 1] + (t[k] - Zero)
    <3>1. k \in 1 .. n + 1
      OBVIOUS
    <3> QED
      BY <1>3, <1>5, <3>1 DEF NumberUpTo
  <2>4. t[k] = s[k]
    BY <1>3
  <2>5. g[k] = f[k]
    BY <2>1, <2>2, <2>3, <2>4
  <2> QED
    BY <2>5
<1>8. g[n] = f[n]
  <2> HIDE DEF T
  <2>1. \A k \in 0 .. n : k \in T
    BY <1>6, <1>7, CountUp
  <2>2. n \in T
    BY <2>1
  <2> QED
    BY <2>2 DEF T
<1>9. g[n + 1] = 10 * g[n] + (c - Zero)
  <2>1. n + 1 \in 1 .. n + 1 /\ (n + 1) - 1 = n
    OBVIOUS
  <2>2. g[n + 1] = 10 * g[(n + 1) - 1] + (t[n + 1] - Zero)
    BY <1>3, <1>5, <2>1 DEF NumberUpTo
  <2> QED
    BY <1>3, <2>1, <2>2
<1>10. f[n] \in Int
  BY <1>1, <1>4 DEF NumberUpTo
<1> QED
  BY <1>2, <1>4, <1>5, <1>8, <1>9, <1>10
-----------------------------------------------------------------------------
(* The rules, for texts that are put together                              *)

LEMMA Slices ==
  ASSUME NEW S, NEW x \in Seq(S), NEW y \in Seq(S)
  PROVE  /\ x \o y \in Seq(S) /\ Len(x \o y) = Len(x) + Len(y)
         /\ SubSeq(x \o y, 1, Len(x)) = x
         /\ SubSeq(x \o y, Len(x) + 1, Len(x \o y)) = y
<1>1. PICK m \in Nat : m = Len(x)
  OBVIOUS
<1>2. PICK n \in Nat : n = Len(y)
  OBVIOUS
<1>3. PICK t \in Seq(S) : t = x \o y
  <2>1. x \o y \in Seq(S)
    OBVIOUS
  <2> QED
    BY <2>1
<1>4. /\ Len(t) = m + n
      /\ \A i \in 1 .. m : t[i] = x[i]
      /\ \A i \in 1 .. n : t[m + i] = y[i]
  BY <1>1, <1>2, <1>3
<1>5. SubSeq(t, 1, m) = x
  BY <1>1, <1>3
<1>6. SubSeq(t, m + 1, m + n) = y
  <2>1. PICK r \in Seq(S) : r = SubSeq(t, m + 1, m + n)
    <3>1. \A i \in m + 1 .. m + n : i \in 1 .. Len(t)
      BY <1>4
    <3>2. SubSeq(t, m + 1, m + n) \in Seq(S)
      <4>1. \A i \in m + 1 .. m + n : t[i] \in S
        BY <3>1, Elements
      <4>2. m + 1 \in Int /\ m + n \in Int
        OBVIOUS
      <4> QED
        BY <4>1, <4>2, SubSeqProperties
    <3> QED
      BY <3>2
  <2>2. Len(r) = n /\ \A i \in 1 .. n : r[i] = t[m + i]
    BY <1>4, <2>1
  <2>3. \A i \in 1 .. n : r[i] = y[i]
    BY <1>4, <2>2
  <2>4. r = y
    BY <1>2, <2>2, <2>3
  <2> QED
    BY <2>1, <2>4
<1> QED
  BY <1>1, <1>2, <1>3, <1>4, <1>5, <1>6

LEMMA StringOfDigits ==
  ASSUME NEW ds \in Numerals
  PROVE  ds \in Strings /\ AllDigits(ds) /\ NumberOf(ds) \in Int
<1>1. Digits \subseteq Characters
  BY DEF Digits, Characters
<1>2. \A A, B : A \subseteq B => \A q \in Seq(A) : q \in Seq(B)
  OBVIOUS
<1>3. ds \in Strings
  BY <1>1, <1>2 DEF Numerals, Strings
<1>4. AllDigits(ds)
  BY DEF AllDigits, Numerals
<1>5. 48 \in Digits
  BY DEF Digits
<1> QED
  BY <1>3, <1>4, <1>5, NumberOfMore

LEMMA JoinStrings ==
  ASSUME NEW x \in Strings, NEW y \in Strings
  PROVE  x \o y \in Strings /\ Len(x \o y) = Len(x) + Len(y)
BY JoinType DEF Strings

LEMMA AppendStrings ==
  ASSUME NEW x \in Strings, NEW c \in Characters
  PROVE  Append(x, c) \in Strings /\ Len(Append(x, c)) = Len(x) + 1
BY DEF Strings

LEMMA JoinAppended ==
  ASSUME NEW x \in Strings, NEW y \in Strings, NEW c \in Characters
  PROVE  Append(x \o y, c) = x \o Append(y, c)
BY DEF Strings

LEMMA Ruled ==
  ASSUME GrammarRules, NEW t \in Strings, NEW v
  PROVE  (Derives(t, v, Begins) => Means(t, v)) /\ (Starts(t, v, Means, Begins) => Begins(t, v))
<1>1. t \in Seq(Characters)
  BY DEF Strings
<1> QED
  BY <1>1, Zenon DEF GrammarRules

LEMMA MeansInteger ==
  ASSUME GrammarRules, NEW w \in Strings, NEW n \in Int, IsNumeral(w, n)
  PROVE  Means(Append(<<CharI>> \o w, CharE), IntOf(n))
<1>1. CharI \in Characters /\ CharE \in Characters
  BY DEF CharI, CharE, Characters
<1>2. PICK k \in Nat : k = Len(w)
  BY DEF Strings
<1>3. PICK t \in Strings : t = Append(<<CharI>> \o w, CharE)
  <2>1. <<CharI>> \in Strings
    BY <1>1 DEF Strings
  <2>2. Append(<<CharI>> \o w, CharE) \in Strings
    BY <1>1, <2>1, JoinStrings, AppendStrings
  <2> QED
    BY <2>2
<1>4. /\ Len(t) = k + 2 /\ t[1] = CharI /\ t[k + 2] = CharE
      /\ \A i \in 1 .. k : t[i + 1] = w[i]
  BY <1>1, <1>2, <1>3 DEF Strings
<1>5. SubSeq(t, 2, k + 1) = w
  <2>1. PICK r \in Strings : r = SubSeq(t, 2, k + 1)
    <3>1. SubSeq(t, 2, k + 1) \in Strings
      BY <1>4 DEF Strings
    <3> QED
      BY <3>1
  <2>2. Len(r) = k /\ \A i \in 1 .. k : r[i] = t[i + 1]
    BY <1>4, <2>1 DEF Strings
  <2> QED
    BY <1>2, <1>4, <2>1, <2>2 DEF Strings
<1>6. t # <<>> /\ Head(t) = CharI /\ Last(t) = CharE /\ Len(t) - 1 = k + 1
  BY <1>4 DEF Last, Strings
<1>7. Is("int", IntOf(n)) /\ IntOf(n).int = n
  BY DEF Is, IntOf
<1>8. Derives(t, IntOf(n), Begins)
  BY <1>5, <1>6, <1>7 DEF Derives
<1> QED
  BY <1>3, <1>8, Ruled

LEMMA MeansString ==
  ASSUME GrammarRules, NEW ds \in Numerals, ds # <<>>, NEW s \in Strings, NumberOf(ds) = Len(s)
  PROVE  Means(Append(ds, Colon) \o s, StrOf(s))
<1>1. ds \in Strings /\ AllDigits(ds)
  BY StringOfDigits
<1>2. PICK k \in Nat \ {0} : k = Len(ds)
  <2>1. Len(ds) \in Nat /\ Len(ds) # 0
    BY <1>1, EmptySeq DEF Strings
  <2> QED
    BY <2>1
<1>3. PICK x \in Strings : x = Append(ds, Colon)
  <2>1. Colon \in Characters
    BY DEF Colon, Characters
  <2>2. Append(ds, Colon) \in Strings
    BY <1>1, <2>1, AppendStrings
  <2> QED
    BY <2>2
<1>4. Len(x) = k + 1 /\ x[k + 1] = Colon /\ \A i \in 1 .. k : x[i] = ds[i]
  BY <1>1, <1>2, <1>3 DEF Strings
<1>5. PICK m \in Nat : m = Len(s)
  BY DEF Strings
<1>6. PICK t \in Strings : t = x \o s
  <2>1. x \o s \in Strings
    BY JoinStrings
  <2> QED
    BY <2>1
<1>7. Len(t) = (k + 1) + m /\ \A i \in 1 .. k + 1 : t[i] = x[i]
  <2>1. Len(t) = (k + 1) + m
    BY <1>4, <1>5, <1>6, JoinStrings
  <2>2. \A i \in 1 .. Len(x) : (x \o s)[i] = x[i]
    BY DEF Strings
  <2> QED
    BY <1>4, <1>6, <2>1, <2>2
<1>8. Behind(t, k + 1) = s
  <2>1. SubSeq(t, Len(x) + 1, Len(t)) = s
    BY <1>6, Slices DEF Strings
  <2> QED
    BY <1>4, <2>1 DEF Behind
<1>9. UpTo(t, k) = ds
  <2>1. PICK r \in Strings : r = SubSeq(t, 1, k)
    <3>1. SubSeq(t, 1, k) \in Strings
      BY <1>7 DEF Strings
    <3> QED
      BY <3>1
  <2>2. Len(r) = k /\ \A i \in 1 .. k : r[i] = t[i]
    BY <1>7, <2>1 DEF Strings
  <2>3. \A i \in 1 .. k : r[i] = ds[i]
    BY <1>4, <1>7, <2>2
  <2>4. r = ds
    BY <1>1, <1>2, <2>2, <2>3 DEF Strings
  <2> QED
    BY <2>1, <2>4 DEF UpTo
<1>10. /\ k + 1 \in 2 .. Len(t) /\ (k + 1) - 1 = k /\ Len(t) - (k + 1) = m
       /\ t[k + 1] = Colon
  BY <1>4, <1>7
<1>11. Is("str", StrOf(s)) /\ StrOf(s).str = s
  BY DEF Is, StrOf
<1>12. \E j \in 2 .. Len(t) : /\ t[j] = Colon /\ AllDigits(UpTo(t, j - 1))
                              /\ NumberOf(UpTo(t, j - 1)) = Len(t) - j
                              /\ Behind(t, j) = s
  BY <1>1, <1>5, <1>8, <1>9, <1>10
<1>13. Derives(t, StrOf(s), Begins)
  BY <1>11, <1>12 DEF Derives
<1> QED
  BY <1>3, <1>6, <1>13, Ruled

LEMMA MeansContainer ==
  ASSUME GrammarRules, NEW q \in Strings, NEW c, Begins(q, c)
  PROVE  Means(Append(q, CharE), c)
<1>1. CharE \in Characters
  BY DEF CharE, Characters
<1>2. PICK t \in Strings : t = Append(q, CharE)
  <2>1. Append(q, CharE) \in Strings
    BY <1>1, AppendStrings
  <2> QED
    BY <2>1
<1>3. t # <<>> /\ Last(t) = CharE
  BY <1>1, <1>2 DEF Strings, Last
<1>4. Front(t) = q
  <2>1. Len(t) - 1 = Len(q)
    BY <1>1, <1>2 DEF Strings
  <2>2. SubSeq(t, 1, Len(q)) = q
    BY <1>1, <1>2 DEF Strings
  <2> QED
    BY <2>1, <2>2 DEF Front
<1>5. Derives(t, c, Begins)
  BY <1>3, <1>4 DEF Derives
<1> QED
  BY <1>2, <1>5, Ruled

LEMMA BeginsEmpty ==
  ASSUME GrammarRules
  PROVE  Begins(<<CharL>>, ListOf(<<>>)) /\ Begins(<<CharD>>, EmptyDict)
<1>1. <<CharL>> \in Strings /\ <<CharD>> \in Strings
  BY DEF CharL, CharD, Characters, Strings
<1>2. Starts(<<CharL>>, ListOf(<<>>), Means, Begins) /\ Starts(<<CharD>>, EmptyDict, Means, Begins)
  BY DEF Starts
<1> QED
  BY <1>1, <1>2, Ruled

LEMMA BeginsList ==
  ASSUME GrammarRules, NEW q \in Strings, q # <<>>, NEW u \in Strings, NEW V, NEW s \in Seq(V),
         NEW v \in V, Begins(q, ListOf(s)), Means(u, v)
  PROVE  Begins(q \o u, ListOf(Append(s, v)))
<1>1. PICK t \in Strings : t = q \o u
  <2>1. q \o u \in Strings
    BY JoinStrings
  <2> QED
    BY <2>1
<1>2. PICK k \in Nat : k = Len(q)
  BY DEF Strings
<1>3. k \in 1 .. Len(t)
  <2>1. k # 0
    BY <1>2, EmptySeq DEF Strings
  <2>2. Len(t) = k + Len(u) /\ Len(u) \in Nat
    BY <1>1, <1>2 DEF Strings
  <2> QED
    BY <1>2, <2>1, <2>2
<1>4. UpTo(t, k) = q /\ Behind(t, k) = u
  BY <1>1, <1>2, Slices DEF UpTo, Behind, Strings
<1>5. PICK l : l = ListOf(Append(s, v))
  OBVIOUS
<1>6. Is("list", l) /\ l.list = Append(s, v)
  BY <1>5 DEF Is, ListOf
<1>7. l.list # <<>> /\ Last(l.list) = v /\ Front(l.list) = s
  <2>1. /\ Append(s, v) # <<>> /\ Len(Append(s, v)) = Len(s) + 1
        /\ Append(s, v)[Len(s) + 1] = v
    BY AppendProperties
  <2>2. SubSeq(Append(s, v), 1, Len(s)) = s /\ (Len(s) + 1) - 1 = Len(s)
    OBVIOUS
  <2> QED
    BY <1>6, <2>1, <2>2 DEF Last, Front
<1>8. Starts(t, l, Means, Begins)
  BY <1>3, <1>4, <1>6, <1>7 DEF Starts
<1> QED
  BY <1>1, <1>5, <1>8, Ruled

LEMMA BeginsDict ==
  ASSUME GrammarRules, NEW q \in Strings, q # <<>>, NEW a \in Strings, NEW u \in Strings,
         NEW V, NEW K, NEW f \in [K -> V], NEW name, name \notin K, NEW v,
         Begins(q, DictOf(f)), Means(a, StrOf(name)), Means(u, v),
         NEW g, DOMAIN g = K \cup {name}, g[name] = v, \A j \in K : g[j] = f[j]
  PROVE  Begins((q \o a) \o u, DictOf(g))
<1>1. PICK p \in Strings : p = q \o a
  <2>1. q \o a \in Strings
    BY JoinStrings
  <2> QED
    BY <2>1
<1>2. PICK t \in Strings : t = p \o u
  <2>1. p \o u \in Strings
    BY JoinStrings
  <2> QED
    BY <2>1
<1>3. PICK i \in Nat : i = Len(q)
  BY DEF Strings
<1>4. PICK k \in Nat : k = Len(p)
  BY DEF Strings
<1>5. i \in 1 .. k /\ k \in 1 .. Len(t)
  <2>1. i # 0
    BY <1>3, EmptySeq DEF Strings
  <2>2. k = i + Len(a) /\ Len(a) \in Nat
    BY <1>1, <1>3, <1>4 DEF Strings
  <2>3. Len(t) = k + Len(u) /\ Len(u) \in Nat
    BY <1>2, <1>4 DEF Strings
  <2> QED
    BY <1>3, <2>1, <2>2, <2>3
<1>6. UpTo(t, k) = p /\ Behind(t, k) = u
  BY <1>2, <1>4, Slices DEF UpTo, Behind, Strings
<1>7. SubSeq(p, 1, i) = q /\ SubSeq(p, i + 1, k) = a
  BY <1>1, <1>3, <1>4, Slices DEF Strings
<1>8. UpTo(t, i) = q /\ SubSeq(t, i + 1, k) = a
  <2>1. Len(t) \in Nat /\ Len(p) = k /\ \A j \in 1 .. k : t[j] = p[j]
    BY <1>2, <1>4 DEF Strings
  <2>2. SubSeq(t, 1, i) = SubSeq(p, 1, i)
    BY <1>5, <2>1 DEF Strings
  <2>3. SubSeq(t, i + 1, k) = SubSeq(p, i + 1, k)
    BY <1>5, <2>1 DEF Strings
  <2> QED
    BY <1>7, <2>2, <2>3 DEF UpTo
<1>9. PICK d : d = DictOf(g)
  OBVIOUS
<1>10. Is("dict", d) /\ d.dict = g
  BY <1>9 DEF Is, DictOf
<1>11. name \in DOMAIN g /\ g[name] = v /\ Without(g, name) = f
  <2>1. DOMAIN g = K \cup {name} /\ g[name] = v /\ \A j \in K : g[j] = f[j]
    OBVIOUS
  <2>2. DOMAIN g \ {name} = K
    BY <2>1
  <2>3. Without(g, name) = [j \in K |-> g[j]]
    BY <2>2 DEF Without
  <2>4. [j \in K |-> g[j]] = f
    BY <2>1
  <2> QED
    BY <2>1, <2>3, <2>4
<1>12. \E n \in DOMAIN g, j \in 1 .. Len(t) :
          /\ Means(Behind(t, j), g[n])
          /\ \E m \in 1 .. j : /\ Means(SubSeq(t, m + 1, j), StrOf(n))
                               /\ Begins(UpTo(t, m), DictOf(Without(g, n)))
  BY <1>5, <1>6, <1>8, <1>11
<1>13. Starts(t, d, Means, Begins)
  BY <1>10, <1>12 DEF Starts
<1> QED
  BY <1>1, <1>2, <1>9, <1>13, Ruled
-----------------------------------------------------------------------------
(* What has been read of the open lists and dicts                          *)

IsBegun(q, c) == q \in Strings /\ q # <<>> /\ Begins(q, c)

\* The text of the key of an element of c, and that c has none with this key.
KeyText(c, k, a) ==
    /\ a \in Strings
    /\ Is("dict", c) => Means(a, StrOf(k))
    /\ ~Is("dict", c) => a = <<>>
Free(c, k) == Is("dict", c) => k \notin DOMAIN c.dict

\* From the text in front of the container c to that in front of its next element.
Link(c, k, t0, t1) ==
    /\ Free(c, k)
    /\ \E q, a \in Strings : IsBegun(q, c) /\ KeyText(c, k, a) /\ t1 = t0 \o (q \o a)

\* The text t is in front of the container on top of the stack s, and there are
\* texts b in front of the others.
Fronts(b, s, t) ==
    /\ b \in Seq(Strings) /\ Len(b) = Len(s)
    /\ b[1] = t /\ b[Len(s)] = <<>>
    /\ \A j \in 1 .. Len(s) - 1 : Link(s[j + 1].value, s[j].key, b[j + 1], b[j])
Base(s, t) == \E b : Fronts(b, s, t)

\* The text t goes up to the end of what the top of the stack has.
PlacedIn(s, t) ==
    IF s = <<>> THEN t = <<>>
    ELSE \E t0, q \in Strings :
            Base(s, t0) /\ IsBegun(q, Head(s).value) /\ t = t0 \o q

\* The text goes up to the value of the key k, or of no key.
KeyOf(s, k, a) == IF s = <<>> THEN a = <<>> ELSE KeyText(Head(s).value, k, a)
Ready(s, k, x) == \E t, a \in Strings : PlacedIn(s, t) /\ KeyOf(s, k, a) /\ x = t \o a

LEMMA BaseOfOne ==
  ASSUME NEW frame
  PROVE  Base(<<frame>>, <<>>)
<1>1. PICK b : b = << <<>> >>
  OBVIOUS
<1>2. <<>> \in Strings
  BY DEF Strings
<1>3. b \in Seq(Strings) /\ Len(b) = 1 /\ b[1] = <<>>
  BY <1>1, <1>2
<1>4. Len(<<frame>>) = 1
  OBVIOUS
<1>5. Fronts(b, <<frame>>, <<>>)
  BY <1>3, <1>4 DEF Fronts
<1> QED
  BY <1>5 DEF Base

LEMMA BaseIsString ==
  ASSUME NEW F, NEW s \in Seq(F), s # <<>>, NEW t, Base(s, t)
  PROVE  t \in Strings /\ (Len(s) = 1 => t = <<>>)
<1>1. PICK b : Fronts(b, s, t)
  BY DEF Base
<1>2. Len(s) \in Nat /\ Len(s) # 0
  BY EmptySeq
<1>3. 1 \in 1 .. Len(s)
  BY <1>2
<1> QED
  BY <1>1, <1>3, Elements DEF Fronts

LEMMA BaseSame ==
  ASSUME NEW F, NEW s \in Seq(F), NEW G, NEW r \in Seq(G), NEW t, Base(s, t),
         Len(r) = Len(s), r[1].key = s[1].key,
         \A j \in 2 .. Len(s) : r[j] = s[j]
  PROVE  Base(r, t)
<1>1. PICK n \in Nat : n = Len(s)
  OBVIOUS
<1>2. PICK b : Fronts(b, s, t)
  BY DEF Base
<1>3. ASSUME NEW j \in 1 .. n - 1
      PROVE  Link(r[j + 1].value, r[j].key, b[j + 1], b[j])
  <2>1. Link(s[j + 1].value, s[j].key, b[j + 1], b[j])
    BY <1>1, <1>2 DEF Fronts
  <2>2. j + 1 \in 2 .. n /\ (j = 1 \/ j \in 2 .. n)
    OBVIOUS
  <2>3. r[j + 1] = s[j + 1] /\ r[j].key = s[j].key
    BY <1>1, <2>2
  <2> QED
    BY <2>1, <2>3
<1>4. Fronts(b, r, t)
  BY <1>1, <1>2, <1>3 DEF Fronts
<1> QED
  BY <1>4 DEF Base

LEMMA PushBase ==
  ASSUME NEW F, NEW s \in Seq(F), s # <<>>, NEW frame \in F, NEW t0, NEW t1 \in Strings,
         Base(s, t0), Link(Head(s).value, frame.key, t0, t1)
  PROVE  Base(<<frame>> \o s, t1)
<1>1. PICK n \in Nat \ {0} : n = Len(s)
  <2>1. Len(s) \in Nat /\ Len(s) # 0
    BY EmptySeq
  <2> QED
    BY <2>1
<1>2. PICK b : Fronts(b, s, t0)
  BY DEF Base
<1>3. /\ b \in Seq(Strings) /\ Len(b) = n /\ b[1] = t0 /\ b[n] = <<>>
      /\ \A j \in 1 .. n - 1 : Link(s[j + 1].value, s[j].key, b[j + 1], b[j])
  BY <1>1, <1>2 DEF Fronts
<1>4. PICK d : d = <<t1>> \o b
  OBVIOUS
<1>5. /\ d \in Seq(Strings) /\ Len(d) = n + 1 /\ d[1] = t1
      /\ \A j \in 1 .. n : d[j + 1] = b[j]
  BY <1>3, <1>4
<1>6. PICK r : r = <<frame>> \o s
  OBVIOUS
<1>7. Len(r) = n + 1 /\ r[1] = frame /\ \A j \in 1 .. n : r[j + 1] = s[j]
  BY <1>1, <1>6
<1>8. ASSUME NEW j \in 1 .. n
      PROVE  Link(r[j + 1].value, r[j].key, d[j + 1], d[j])
  <2>1. CASE j = 1
    <3>1. Head(s) = s[1]
      OBVIOUS
    <3>2. r[j + 1] = Head(s) /\ r[j] = frame /\ d[j + 1] = t0 /\ d[j] = t1
      BY <1>3, <1>5, <1>7, <2>1, <3>1
    <3> QED
      BY <3>2
  <2>2. CASE j # 1
    <3>1. PICK i \in 1 .. n - 1 : i = j - 1
      BY <2>2
    <3>2. i + 1 = j /\ i \in 1 .. n
      BY <3>1
    <3>3. r[j + 1] = s[i + 1] /\ r[j] = s[i] /\ d[j + 1] = b[i + 1] /\ d[j] = b[i]
      BY <1>5, <1>7, <3>2
    <3> QED
      BY <1>3, <3>3
  <2> QED
    BY <2>1, <2>2
<1>9. d[n + 1] = <<>>
  BY <1>3, <1>5
<1>10. (n + 1) - 1 = n
  OBVIOUS
<1>11. Fronts(d, r, t1)
  BY <1>5, <1>7, <1>8, <1>9, <1>10 DEF Fronts
<1> QED
  BY <1>6, <1>11 DEF Base

LEMMA PopBase ==
  ASSUME NEW F, NEW s \in Seq(F), Len(s) > 1, NEW t, Base(s, t)
  PROVE  \E t0 \in Strings : Base(Tail(s), t0) /\ Link(Head(Tail(s)).value, Head(s).key, t0, t)
<1>1. PICK n \in Nat : n = Len(s) /\ n > 1
  OBVIOUS
<1>2. PICK b : Fronts(b, s, t)
  BY DEF Base
<1>3. /\ b \in Seq(Strings) /\ Len(b) = n /\ b[1] = t /\ b[n] = <<>>
      /\ \A j \in 1 .. n - 1 : Link(s[j + 1].value, s[j].key, b[j + 1], b[j])
  BY <1>1, <1>2 DEF Fronts
<1>4. PICK d : d = Tail(b)
  OBVIOUS
<1>5. d \in Seq(Strings) /\ Len(d) = n - 1 /\ \A j \in 1 .. n - 1 : d[j] = b[j + 1]
  BY <1>1, <1>3, <1>4
<1>6. PICK r : r = Tail(s)
  OBVIOUS
<1>7. Len(r) = n - 1 /\ (\A j \in 1 .. n - 1 : r[j] = s[j + 1]) /\ Head(r) = r[1]
  BY <1>1, <1>6
<1>8. ASSUME NEW j \in 1 .. (n - 1) - 1
      PROVE  Link(r[j + 1].value, r[j].key, d[j + 1], d[j])
  <2>1. j \in 1 .. n - 1 /\ j + 1 \in 1 .. n - 1
    BY <1>1
  <2>2. Link(s[(j + 1) + 1].value, s[j + 1].key, b[(j + 1) + 1], b[j + 1])
    BY <1>3, <2>1
  <2> QED
    BY <1>5, <1>7, <2>1, <2>2
<1>9. d[n - 1] = <<>> /\ d[1] = b[2]
  <2>1. n - 1 \in 1 .. n - 1 /\ 1 \in 1 .. n - 1 /\ (n - 1) + 1 = n /\ 1 + 1 = 2
    BY <1>1
  <2> QED
    BY <1>3, <1>5, <2>1
<1>10. Fronts(d, r, b[2])
  BY <1>5, <1>7, <1>8, <1>9 DEF Fronts
<1>11. b[2] \in Strings
  <2>1. 2 \in 1 .. Len(b)
    BY <1>1, <1>3
  <2> QED
    BY <1>3, <2>1, Elements
<1>12. Link(Head(r).value, Head(s).key, b[2], t)
  <2>1. 1 \in 1 .. n - 1 /\ 1 + 1 = 2
    BY <1>1
  <2>2. Link(s[2].value, s[1].key, b[2], b[1])
    BY <1>3, <2>1
  <2>3. Head(r) = s[2] /\ Head(s) = s[1]
    BY <1>1, <1>7, <2>1
  <2> QED
    BY <1>3, <2>2, <2>3
<1> QED
  BY <1>6, <1>10, <1>11, <1>12 DEF Base
LEMMA Inserted ==
  ASSUME GrammarRules, NEW V, AreValues(V), NEW c \in V, Container(c), NEW k \in Strings, NEW v,
         NEW q, IsBegun(q, c), NEW a, KeyText(c, k, a), Free(c, k), NEW u \in Strings, Means(u, v)
  PROVE  IsBegun(q \o (a \o u), Insert(c, k, v))
<1>1. q \in Strings /\ q # <<>> /\ a \in Strings
  BY DEF IsBegun, KeyText
<1>2. PICK p : p = q \o (a \o u)
  OBVIOUS
<1>3. p = (q \o a) \o u
  <2>1. Regroups3(q, a, u)
    BY <1>1, Regroup3 DEF Strings
  <2> QED
    BY <1>2, <2>1 DEF Regroups3
<1>4. p \in Strings /\ p # <<>>
  <2>1. a \o u \in Strings
    BY <1>1, JoinStrings
  <2>2. p \in Strings /\ Len(p) = Len(q) + Len(a \o u)
    BY <1>1, <1>2, <2>1, JoinStrings
  <2>3. Len(q) \in Nat /\ Len(q) # 0 /\ Len(a \o u) \in Nat
    BY <1>1, <2>1, EmptySeq DEF Strings
  <2>4. Len(p) # 0
    BY <2>2, <2>3
  <2> QED
    BY <2>2, <2>4
<1>5. CASE Is("list", c)
  <2>1. PICK s \in Seq(V) : c = ListOf(s)
    BY <1>5, Kinds
  <2>2. c.list = s /\ ~Is("dict", c)
    BY <2>1 DEF ListOf, Is
  <2>3. Insert(c, k, v) = ListOf(Append(s, v))
    BY <1>5, <2>2 DEF Insert
  <2>4. a = <<>>
    BY <2>2 DEF KeyText
  <2>5. p = q \o u
    BY <1>1, <1>3, <2>4 DEF Strings
  <2>6. PICK W : W = V \cup {v}
    OBVIOUS
  <2>7. s \in Seq(W) /\ v \in W
    <3>1. V \subseteq W /\ v \in W
      BY <2>6
    <3>2. \A A, B : A \subseteq B => \A r \in Seq(A) : r \in Seq(B)
      OBVIOUS
    <3> QED
      BY <3>1, <3>2
  <2>8. Begins(q, ListOf(s))
    BY <2>1 DEF IsBegun
  <2>9. Begins(q \o u, ListOf(Append(s, v)))
    BY <1>1, <2>7, <2>8, BeginsList
  <2> QED
    BY <1>2, <1>4, <2>3, <2>5, <2>9 DEF IsBegun
<1>6. CASE ~Is("list", c)
  <2>1. Is("dict", c)
    BY <1>6 DEF Container
  <2>2. PICK K \in SUBSET Seq(Characters) : IsFiniteSet(K) /\ \E f \in [K -> V] : c = DictOf(f)
    BY <2>1, Kinds
  <2>3. PICK f \in [K -> V] : c = DictOf(f)
    BY <2>2
  <2>4. c.dict = f
    BY <2>3 DEF DictOf
  <2>5. k \notin K
    BY <2>1, <2>3, <2>4 DEF Free
  <2>6. Means(a, StrOf(k))
    BY <2>1 DEF KeyText
  <2>7. PICK g : g = [j \in K \cup {k} |-> IF j = k THEN v ELSE f[j]]
    OBVIOUS
  <2>8. Begins(q, DictOf(f))
    BY <2>3 DEF IsBegun
  <2>9. Insert(c, k, v) = DictOf(g)
    BY <1>6, <2>3, <2>4, <2>7 DEF Insert
  <2>10. DOMAIN g = K \cup {k} /\ g[k] = v /\ \A j \in K : g[j] = f[j]
    BY <2>5, <2>7
  <2>11. Begins((q \o a) \o u, DictOf(g))
    BY <1>1, <2>3, <2>5, <2>6, <2>8, <2>10, BeginsDict
  <2> QED
    BY <1>2, <1>3, <1>4, <2>9, <2>11 DEF IsBegun
<1> QED
  BY <1>5, <1>6

\* The stack s with one more element in its top.
Filled(s, k, v) == <<[Head(s) EXCEPT !.value = Insert(@, k, v)]>> \o Tail(s)

LEMMA FilledIs ==
  ASSUME NEW V, NEW s \in Seq(Frames(V)), s # <<>>, NEW k, NEW v
  PROVE  /\ Filled(s, k, v) # <<>>
         /\ \E G : Filled(s, k, v) \in Seq(G)
         /\ Len(Filled(s, k, v)) = Len(s)
         /\ Filled(s, k, v)[1].key = s[1].key
         /\ Head(Filled(s, k, v)).value = Insert(Head(s).value, k, v)
         /\ \A j \in 2 .. Len(s) : Filled(s, k, v)[j] = s[j]
<1>1. PICK x : x = Insert(Head(s).value, k, v)
  OBVIOUS
<1>2. PICK frame : frame = [Head(s) EXCEPT !.value = x]
  OBVIOUS
<1>3. Head(s) \in Frames(V) /\ Head(s) = s[1]
  OBVIOUS
<1>4. frame.value = x /\ frame.key = s[1].key
  BY <1>2, <1>3 DEF Frames
<1>5. PICK n \in Nat \ {0} : n = Len(s)
  <2>1. Len(s) \in Nat /\ Len(s) # 0
    BY EmptySeq
  <2> QED
    BY <2>1
<1>6. PICK r \in Seq(Frames(V)) : r = Tail(s)
  <2>1. Tail(s) \in Seq(Frames(V))
    OBVIOUS
  <2> QED
    BY <2>1
<1>7. Len(r) = n - 1 /\ \A j \in 1 .. n - 1 : r[j] = s[j + 1]
  BY <1>5, <1>6
<1>8. PICK G : G = Frames(V) \cup {frame}
  OBVIOUS
<1>9. r \in Seq(G) /\ frame \in G
  <2>1. Frames(V) \subseteq G /\ frame \in G
    BY <1>8
  <2>2. \A A, B : A \subseteq B => \A q \in Seq(A) : q \in Seq(B)
    OBVIOUS
  <2> QED
    BY <2>1, <2>2
<1>10. PICK t : t = <<frame>> \o r
  OBVIOUS
<1>11. /\ t \in Seq(G) /\ Len(t) = n /\ t[1] = frame /\ Head(t) = frame /\ t # <<>>
       /\ \A j \in 1 .. n - 1 : t[j + 1] = r[j]
  BY <1>5, <1>7, <1>9, <1>10
<1>12. \A j \in 2 .. n : t[j] = s[j]
  <2> SUFFICES ASSUME NEW j \in 2 .. n
               PROVE  t[j] = s[j]
    OBVIOUS
  <2>1. PICK i \in 1 .. n - 1 : i = j - 1
    BY <1>5
  <2>2. i + 1 = j
    BY <2>1
  <2> QED
    BY <1>7, <1>11, <2>2
<1>13. Filled(s, k, v) = t
  BY <1>1, <1>2, <1>6, <1>10 DEF Filled
<1> QED
  BY <1>1, <1>4, <1>5, <1>11, <1>12, <1>13

\* An element of the top of a stack is read.
LEMMA ElementRead ==
  ASSUME GrammarRules, NEW V, AreValues(V), NEW s \in Seq(Frames(V)), s # <<>>,
         NEW k \in Strings, NEW v, NEW x, Ready(s, k, x), Free(Head(s).value, k),
         NEW u \in Strings, Means(u, v)
  PROVE  PlacedIn(Filled(s, k, v), x \o u)
<1>1. PICK c : c = Head(s).value
  OBVIOUS
<1>2. c \in V /\ Container(c)
  <2>1. Head(s) \in Frames(V)
    OBVIOUS
  <2> QED
    BY <1>1, <2>1 DEF Frames
<1>3. PICK t \in Strings, a \in Strings : PlacedIn(s, t) /\ KeyOf(s, k, a) /\ x = t \o a
  BY DEF Ready
<1>4. KeyText(c, k, a)
  BY <1>1, <1>3 DEF KeyOf
<1>5. PICK t0 \in Strings, q \in Strings : Base(s, t0) /\ IsBegun(q, c) /\ t = t0 \o q
  BY <1>1, <1>3 DEF PlacedIn
<1>6. PICK p : p = q \o (a \o u)
  OBVIOUS
<1>7. IsBegun(p, Insert(c, k, v))
  <2>1. Free(c, k)
    BY <1>1
  <2> QED
    BY <1>2, <1>4, <1>5, <1>6, <2>1, Inserted
<1>8. x \o u = t0 \o p
  <2>1. Regroups4(t0, q, a, u)
    BY <1>3, <1>5, Regroup4 DEF Strings
  <2>2. t0 \o ((q \o a) \o u) = ((t0 \o q) \o a) \o u
    BY <2>1 DEF Regroups4
  <2>3. q \o (a \o u) = (q \o a) \o u
    <3>1. Regroups3(q, a, u)
      BY <1>3, <1>5, Regroup3 DEF Strings
    <3> QED
      BY <3>1 DEF Regroups3
  <2> QED
    BY <1>3, <1>5, <1>6, <2>2, <2>3
<1>9. PICK r : r = Filled(s, k, v)
  OBVIOUS
<1>10. /\ r # <<>> /\ (\E G : r \in Seq(G)) /\ Len(r) = Len(s)
       /\ r[1].key = s[1].key /\ Head(r).value = Insert(c, k, v)
       /\ \A j \in 2 .. Len(s) : r[j] = s[j]
  BY <1>1, <1>9, FilledIs
<1>11. Base(r, t0)
  <2>1. PICK G : r \in Seq(G)
    BY <1>10
  <2> QED
    BY <1>5, <1>10, <2>1, BaseSame
<1>12. p \in Strings
  BY <1>7 DEF IsBegun
<1>13. PlacedIn(r, x \o u)
  BY <1>5, <1>7, <1>8, <1>10, <1>11, <1>12 DEF PlacedIn
<1> QED
  BY <1>9, <1>13

\* A container is opened.
LEMMA ContainerOpened ==
  ASSUME NEW V, NEW s \in Seq(Frames(V)), NEW k, NEW x, Ready(s, k, x),
         s # <<>> => Free(Head(s).value, k),
         NEW v, NEW q, IsBegun(q, v), [value |-> v, key |-> k] \in Frames(V)
  PROVE  PlacedIn(<<[value |-> v, key |-> k]>> \o s, x \o q)
<1>1. PICK t \in Strings, a \in Strings : PlacedIn(s, t) /\ KeyOf(s, k, a) /\ x = t \o a
  BY DEF Ready
<1>2. x \in Strings /\ q \in Strings
  BY <1>1, JoinStrings DEF IsBegun
<1>3. PICK frame \in Frames(V) : frame = [value |-> v, key |-> k]
  OBVIOUS
<1>4. PICK r : r = <<frame>> \o s
  OBVIOUS
<1>5. r # <<>> /\ Head(r) = frame
  BY <1>4
<1>6. Base(r, x)
  <2>1. CASE s = <<>>
    <3>1. t = <<>> /\ a = <<>>
      BY <1>1, <2>1 DEF PlacedIn, KeyOf
    <3>2. x = <<>>
      BY <1>1, <3>1
    <3>3. r = <<frame>>
      BY <1>4, <2>1
    <3> QED
      BY <3>2, <3>3, BaseOfOne
  <2>2. CASE s # <<>>
    <3>1. PICK t0 \in Strings, p \in Strings :
             Base(s, t0) /\ IsBegun(p, Head(s).value) /\ t = t0 \o p
      BY <1>1, <2>2 DEF PlacedIn
    <3>2. x = t0 \o (p \o a)
      <4>1. Regroups3(t0, p, a)
        BY <1>1, <3>1, Regroup3 DEF Strings
      <4> QED
        BY <1>1, <3>1, <4>1 DEF Regroups3
    <3>3. KeyText(Head(s).value, k, a)
      BY <1>1, <2>2 DEF KeyOf
    <3>4. Link(Head(s).value, k, t0, x)
      BY <1>1, <2>2, <3>1, <3>2, <3>3 DEF Link
    <3>5. frame.key = k
      BY <1>3
    <3> QED
      BY <1>2, <1>4, <2>2, <3>1, <3>4, <3>5, PushBase
  <2> QED
    BY <2>1, <2>2
<1>7. Head(r).value = v
  BY <1>3, <1>5
<1>8. PlacedIn(r, x \o q)
  BY <1>2, <1>5, <1>6, <1>7 DEF PlacedIn
<1> QED
  BY <1>3, <1>4, <1>8-----------------------------------------------------------------------------
(* What has been read of a number or a string                              *)

\* The digits, with their sign, of the number x.
Spelled(w, x) ==
    IF x.sign = 1 THEN w \in Numerals /\ x.value = NumberOf(w)
    ELSE \E ds \in Numerals : w = <<Minus>> \o ds /\ x.value = -NumberOf(ds)

IntText(u, x, place) ==
    \E w \in Strings : u = <<CharI>> \o w /\ Spelled(w, x) /\ (place = "sign" => w = <<>>)
LengthText(u, x) == u # <<>> /\ Spelled(u, x)
StringText(u, x, cs) ==
    \E ds \in Numerals : ds # <<>> /\ NumberOf(ds) = x.value /\ u = Append(ds, Colon) \o cs

HalfRead(u, x, place, cs) ==
    IF place = "bytes" THEN StringText(u, x, cs)
    ELSE IF x.for = "int" THEN IntText(u, x, place)
    ELSE LengthText(u, x)

\* The text goes up to something that is read for a key, or for a value.
Leads(for, s, k, before) ==
    IF for = "key" THEN s # <<>> /\ Is("dict", Head(s).value) /\ PlacedIn(s, before)
    ELSE Ready(s, k, before)

Halfway(t, s, k, x, place, cs) ==
    \E before, u \in Strings :
       t = before \o u /\ Leads(x.for, s, k, before) /\ HalfRead(u, x, place, cs)

GrammarInv ==
    /\ text \in Strings
    /\ outcome = "done" => Means(text, result)
    /\ outcome = "reading" /\ at = "turn" => PlacedIn(stack, text)
    /\ outcome = "reading" /\ at = "value" => InDict /\ Ready(stack, key, text)
    /\ outcome = "reading" /\ at \in {"sign", "number", "bytes"} =>
          Halfway(text, stack, key, number, at, chars)

LEMMA GrammarInit == Init => GrammarInv
<1> SUFFICES ASSUME Init
             PROVE  GrammarInv
  OBVIOUS
<1>1. text = <<>> /\ outcome = "reading" /\ at = "turn" /\ stack = <<>>
  BY DEF Init
<1>2. text \in Strings
  BY <1>1 DEF Strings
<1>3. PlacedIn(stack, text)
  BY <1>1 DEF PlacedIn
<1> QED
  BY <1>1, <1>2, <1>3 DEF GrammarInv

\* Nothing is pending in front of an element of a list or of the root.
LEMMA NothingPending ==
  ASSUME NEW s, NEW k, NEW t \in Strings, PlacedIn(s, t),
         s # <<>> => ~Is("dict", Head(s).value)
  PROVE  Ready(s, k, t)
<1>1. <<>> \in Strings
  BY DEF Strings
<1>2. KeyOf(s, k, <<>>)
  BY <1>1 DEF KeyOf, KeyText
<1>3. t = t \o <<>>
  BY DEF Strings
<1> QED
  BY <1>1, <1>2, <1>3 DEF Ready

LEMMA FailGrammar ==
  ASSUME Fail, text' \in Strings
  PROVE  GrammarInv'
BY DEF Fail, GrammarInv

LEMMA ReadyIsString ==
  ASSUME NEW s, NEW k, NEW x, Ready(s, k, x)
  PROVE  x \in Strings
BY JoinStrings DEF Ready

LEMMA StoreGrammar ==
  ASSUME GrammarRules, ValuesInv, outcome = "reading", NEW x, Ready(stack, key, x),
         NEW u \in Strings, NEW v, Means(u, v), text' = x \o u, Store(v)
  PROVE  GrammarInv'
<1>1. PICK V : Read(V)
  BY DEF ValuesInv
<1>2. AreValues(V) /\ stack \in Seq(Frames(V)) /\ key \in Strings
  BY <1>1 DEF Read, Strings
<1>3. text' \in Strings
  BY ReadyIsString, JoinStrings
<1>4. CASE Fail
  BY <1>3, <1>4, FailGrammar
<1>5. CASE ~Fail /\ stack = <<>>
  <2>1. result' = v /\ outcome' = "done"
    BY <1>5 DEF Store
  <2>2. PICK t \in Strings, a \in Strings : PlacedIn(stack, t) /\ KeyOf(stack, key, a) /\ x = t \o a
    BY DEF Ready
  <2>3. t = <<>> /\ a = <<>>
    BY <1>5, <2>2 DEF PlacedIn, KeyOf
  <2>4. text' = u
    BY <2>2, <2>3 DEF Strings
  <2> QED
    BY <1>3, <2>1, <2>4 DEF GrammarInv
<1>6. CASE ~Fail /\ stack # <<>>
  <2>1. /\ ~Taken /\ at' = "turn" /\ outcome' = "reading"
        /\ stack' = <<[Top EXCEPT !.value = Insert(@, key, v)]>> \o Tail(stack)
    BY <1>6 DEF Store
  <2>2. stack' = Filled(stack, key, v)
    BY <2>1 DEF Filled, Top
  <2>3. Free(Head(stack).value, key)
    BY <1>6, <2>1 DEF Taken, InDict, Free, Top
  <2>4. PlacedIn(Filled(stack, key, v), x \o u)
    BY <1>2, <1>6, <2>3, ElementRead
  <2>5. PlacedIn(stack', text')
    BY <2>2, <2>4
  <2> QED
    BY <1>3, <2>1, <2>5 DEF GrammarInv
<1> QED
  BY <1>4, <1>5, <1>6

LEMMA OpenGrammar ==
  ASSUME GrammarRules, ValuesInv, outcome = "reading", Ready(stack, key, text),
         NEW v, Container(v), NEW c \in Characters, Begins(<<c>>, v),
         text' = Append(text, c), Open(v), v = ListOf(<<>>) \/ v = EmptyDict
  PROVE  GrammarInv'
<1>1. text \in Strings
  BY ReadyIsString
<1>2. text' \in Strings
  BY <1>1, AppendStrings
<1>3. CASE Fail
  BY <1>2, <1>3, FailGrammar
<1>4. CASE ~Fail
  <2>1. /\ ~Taken /\ at' = "turn" /\ outcome' = "reading"
        /\ stack' = <<[value |-> v, key |-> key]>> \o stack
    BY <1>4 DEF Open
  <2>2. \E W : stack \in Seq(Frames(W)) /\ [value |-> v, key |-> key] \in Frames(W)
    <3>1. PICK V : Read(V)
      BY DEF ValuesInv
    <3>2. PICK W : W = V \cup {v}
      OBVIOUS
    <3>3. V \subseteq W /\ v \in W
      BY <3>2
    <3>4. stack \in Seq(Frames(W))
      BY <3>1, <3>3, MoreFrames DEF Read
    <3>5. [value |-> v, key |-> key] \in Frames(W)
      BY <3>1, <3>3 DEF Read, Frames
    <3> QED
      BY <3>4, <3>5
  <2>3. PICK W : stack \in Seq(Frames(W)) /\ [value |-> v, key |-> key] \in Frames(W)
    BY <2>2
  <2>4. stack # <<>> => Free(Head(stack).value, key)
    BY <2>1 DEF Taken, InDict, Free, Top
  <2>5. IsBegun(<<c>>, v)
    <3>1. <<c>> \in Strings /\ <<c>> # <<>>
      BY DEF Strings
    <3> QED
      BY <3>1 DEF IsBegun
  <2>6. PlacedIn(<<[value |-> v, key |-> key]>> \o stack, text \o <<c>>)
    BY <2>3, <2>4, <2>5, ContainerOpened
  <2>7. text' = text \o <<c>>
    BY <1>1 DEF Strings
  <2> QED
    BY <1>2, <2>1, <2>6, <2>7 DEF GrammarInv
<1> QED
  BY <1>3, <1>4

LEMMA CloseGrammar ==
  ASSUME GrammarRules, ValuesInv, outcome = "reading", stack # <<>>, PlacedIn(stack, text),
         text \in Strings, text' = Append(text, CharE), Close
  PROVE  GrammarInv'
<1>1. PICK V : Read(V)
  BY DEF ValuesInv
<1>2. AreValues(V) /\ stack \in Seq(Frames(V)) /\ Top.key \in Strings
  BY <1>1, TopFrame DEF Read, Strings
<1>3. CharE \in Characters
  BY DEF CharE, Characters
<1>4. PICK t0 \in Strings, q \in Strings : Base(stack, t0) /\ IsBegun(q, Top.value) /\ text = t0 \o q
  BY DEF PlacedIn, Top
<1>5. PICK u : u = Append(q, CharE)
  OBVIOUS
<1>6. u \in Strings /\ text' = t0 \o u
  <2>1. Append(t0 \o q, CharE) = t0 \o Append(q, CharE)
    BY <1>3, JoinAppended
  <2> QED
    BY <1>3, <1>4, <1>5, <2>1, AppendStrings
<1>7. Means(u, Top.value)
  BY <1>4, <1>5, MeansContainer DEF IsBegun
<1>8. text' \in Strings
  BY <1>3, AppendStrings
<1>9. CASE Len(stack) = 1
  <2>1. result' = Top.value /\ outcome' = "done"
    BY <1>9 DEF Close
  <2>2. t0 = <<>>
    BY <1>2, <1>4, <1>9, BaseIsString
  <2>3. text' = u
    BY <1>6, <2>2 DEF Strings
  <2> QED
    BY <1>7, <1>8, <2>1, <2>3 DEF GrammarInv
<1>10. CASE Len(stack) # 1
  <2>1. PICK n \in Nat : n = Len(stack) /\ n > 1
    <3>1. PICK n \in Nat : n = Len(stack)
      BY <1>2
    <3>2. n # 0 /\ n # 1
      BY <1>2, <1>10, <3>1, EmptySeq
    <3> QED
      BY <3>1, <3>2
  <2>2. PICK s : s = Tail(stack)
    OBVIOUS
  <2>3. s \in Seq(Frames(V)) /\ s # <<>> /\ Head(s) = stack[2]
    <3>1. s \in Seq(Frames(V)) /\ Len(s) = n - 1 /\ \A j \in 1 .. n - 1 : s[j] = stack[j + 1]
      BY <1>2, <2>1, <2>2
    <3>2. 1 \in 1 .. n - 1 /\ 1 + 1 = 2
      BY <2>1
    <3>3. s # <<>>
      BY <2>1, <3>1
    <3> QED
      BY <3>1, <3>2, <3>3
  <2>4. Tail(s) = SubSeq(stack, 3, Len(stack))
    BY <1>2, <2>1, <2>2
  <2>5. PICK t1 \in Strings : Base(s, t1) /\ Link(Head(s).value, Top.key, t1, t0)
    <3>1. \E t1 \in Strings : Base(Tail(stack), t1)
                              /\ Link(Head(Tail(stack)).value, Head(stack).key, t1, t0)
      BY <1>2, <1>4, <2>1, PopBase
    <3> QED
      BY <2>2, <3>1 DEF Top
  <2>6. PICK p \in Strings, a \in Strings :
           IsBegun(p, Head(s).value) /\ KeyText(Head(s).value, Top.key, a) /\ t0 = t1 \o (p \o a)
    BY <2>5 DEF Link
  <2>7. Ready(s, Top.key, t0)
    <3>1. t1 \o p \in Strings
      BY JoinStrings
    <3>2. PlacedIn(s, t1 \o p)
      BY <2>3, <2>5, <2>6 DEF PlacedIn
    <3>3. KeyOf(s, Top.key, a)
      BY <2>3, <2>6 DEF KeyOf
    <3>4. t0 = (t1 \o p) \o a
      <4>1. Regroups3(t1, p, a)
        BY Regroup3 DEF Strings
      <4> QED
        BY <2>6, <4>1 DEF Regroups3
    <3> QED
      BY <3>1, <3>2, <3>3, <3>4 DEF Ready
  <2>8. Free(Head(s).value, Top.key)
    BY <2>5 DEF Link
  <2>9. PlacedIn(Filled(s, Top.key, Top.value), t0 \o u)
    BY <1>2, <1>6, <1>7, <2>3, <2>7, <2>8, ElementRead
  <2>10. stack' = <<[Head(s) EXCEPT !.value = Insert(@, Top.key, Top.value)]>> \o Tail(s)
    BY <1>10, <2>3, <2>4 DEF Close
  <2>11. at' = "turn" /\ outcome' = "reading"
    BY <1>10 DEF Close
  <2>12. PlacedIn(stack', text')
    BY <1>6, <2>9, <2>10 DEF Filled
  <2> QED
    BY <1>8, <2>11, <2>12 DEF GrammarInv
<1> QED
  BY <1>9, <1>10
LEMMA FirstDigit ==
  ASSUME NEW c \in Digits
  PROVE  /\ c \in Characters /\ <<c>> \in Numerals /\ <<c>> \in Strings /\ <<c>> # <<>>
         /\ NumberOf(<<c>>) = c - Zero
<1>1. c \in Characters /\ c - Zero \in Int
  BY DEF Digits, Characters, Zero
<1>2. <<>> \in Numerals /\ <<c>> \in Numerals /\ <<c>> \in Strings /\ <<c>> # <<>>
  BY <1>1 DEF Numerals, Strings
<1>3. Append(<<>>, c) = <<c>>
  OBVIOUS
<1>4. NumberOf(<<c>>) = 10 * NumberOf(<<>>) + (c - Zero)
  BY <1>2, <1>3, NumberOfMore
<1>5. 10 * 0 + (c - Zero) = c - Zero
  BY <1>1
<1> QED
  BY <1>1, <1>2, <1>4, <1>5, NumberOfNone

LEMMA SpelledIsNumeral ==
  ASSUME NEW w \in Strings, NEW x, Spelled(w, x)
  PROVE  IsNumeral(w, x.value)
<1>1. CASE x.sign = 1
  <2>1. w \in Numerals /\ x.value = NumberOf(w)
    BY <1>1 DEF Spelled
  <2>2. AllDigits(w)
    BY <2>1, StringOfDigits
  <2> QED
    BY <2>1, <2>2 DEF IsNumeral
<1>2. CASE x.sign # 1
  <2>1. PICK ds \in Numerals : w = <<Minus>> \o ds /\ x.value = -NumberOf(ds)
    BY <1>2 DEF Spelled
  <2>2. AllDigits(ds) /\ ds \in Strings
    BY StringOfDigits
  <2>3. w # <<>> /\ Head(w) = Minus /\ Tail(w) = ds
    <3>1. \A m \in Int : \A s \in Seq(Characters) :
             <<m>> \o s # <<>> /\ Head(<<m>> \o s) = m /\ Tail(<<m>> \o s) = s
      <4>1. Characters \subseteq Int
        BY DEF Characters
      <4>2. \A A, B : A \subseteq B => \A q \in Seq(A) : q \in Seq(B)
        OBVIOUS
      <4>3. \A m \in Int : \A s \in Seq(Int) :
               <<m>> \o s # <<>> /\ Head(<<m>> \o s) = m /\ Tail(<<m>> \o s) = s
        OBVIOUS
      <4> QED
        BY <4>1, <4>2, <4>3
    <3>2. Minus \in Int
      BY DEF Minus
    <3> QED
      BY <2>1, <2>2, <3>1, <3>2 DEF Strings
  <2> QED
    BY <2>1, <2>2, <2>3 DEF IsNumeral
<1> QED
  BY <1>1, <1>2

LEMMA SpelledMore ==
  ASSUME NEW w \in Strings, NEW x \in Numbers, Spelled(w, x), NEW c \in Digits,
         NEW y, y.sign = x.sign, y.value = 10 * x.value + x.sign * (c - Zero)
  PROVE  Spelled(Append(w, c), y)
<1>1. PICK d \in Int : d = c - Zero
  <2>1. c - Zero \in Int
    BY DEF Digits, Zero
  <2> QED
    BY <2>1
<1>2. CASE x.sign = 1
  <2>1. w \in Numerals /\ x.value = NumberOf(w)
    BY <1>2 DEF Spelled
  <2>2. Append(w, c) \in Numerals
    BY <2>1 DEF Numerals
  <2>3. NumberOf(w) \in Int /\ NumberOf(Append(w, c)) = 10 * NumberOf(w) + d
    BY <1>1, <2>1, NumberOfMore
  <2>4. y.value = NumberOf(Append(w, c))
    BY <1>1, <1>2, <2>1, <2>3
  <2> QED
    BY <1>2, <2>2, <2>4 DEF Spelled
<1>3. CASE x.sign # 1
  <2>1. x.sign = -1
    BY <1>3 DEF Numbers
  <2>2. PICK ds \in Numerals : w = <<Minus>> \o ds /\ x.value = -NumberOf(ds)
    BY <1>3 DEF Spelled
  <2>3. PICK es : es = Append(ds, c)
    OBVIOUS
  <2>4. es \in Numerals
    BY <2>3 DEF Numerals
  <2>5. PICK n \in Int : n = NumberOf(ds)
    BY NumberOfMore
  <2>6. NumberOf(es) = 10 * n + d
    BY <1>1, <2>3, <2>5, NumberOfMore
  <2>7. y.value = 10 * (-n) + (-1) * d
    BY <1>1, <2>1, <2>2, <2>5
  <2>8. y.value = -NumberOf(es)
    BY <2>6, <2>7
  <2>9. Append(w, c) = <<Minus>> \o es
    <3>1. c \in Characters /\ ds \in Strings
      BY FirstDigit, StringOfDigits
    <3>2. <<Minus>> \in Strings
      BY DEF Strings, Minus, Characters
    <3>3. \A s \in Strings : Append(s \o ds, c) = s \o Append(ds, c)
      BY <3>1, JoinAppended
    <3> QED
      BY <2>2, <2>3, <3>2, <3>3
  <2>10. y.sign # 1
    BY <1>3
  <2> QED
    BY <2>4, <2>8, <2>9, <2>10 DEF Spelled
<1> QED
  BY <1>2, <1>3

LEMMA HalfwayGrammar ==
  ASSUME outcome' = "reading", at' \in {"sign", "number", "bytes"},
         NEW before \in Strings, NEW u \in Strings, text' = before \o u,
         Leads(number.for', stack', key', before), HalfRead(u, number', at', chars')
  PROVE  GrammarInv'
<1>1. text' \in Strings
  BY JoinStrings
<1>2. Halfway(text', stack', key', number', at', chars')
  BY DEF Halfway
<1> QED
  BY <1>1, <1>2 DEF GrammarInv

\* A character more of what is being read.
LEMMA OneMore ==
  ASSUME NEW t \in Strings, NEW u \in Strings, NEW c \in Characters
  PROVE  /\ Append(t \o u, c) = t \o Append(u, c) /\ Append(u, c) \in Strings
         /\ Append(t, c) = t \o <<c>> /\ <<c>> \in Strings
<1>1. Append(t \o u, c) = t \o Append(u, c)
  BY JoinAppended
<1>2. Append(t, c) = t \o <<c>> /\ <<c>> \in Strings
  BY DEF Strings
<1> QED
  BY <1>1, <1>2, AppendStrings

LEMMA IntegerStarts ==
  ASSUME text \in Strings, outcome = "reading", Ready(stack, key, text),
         text' = Append(text, CharI), StartNumber("int", "sign", 0, 0)
  PROVE  GrammarInv'
<1>1. /\ at' = "sign" /\ number' = [for |-> "int", sign |-> 1, value |-> 0, count |-> 0]
      /\ outcome' = "reading" /\ UNCHANGED <<stack, key>>
  BY DEF StartNumber
<1>2. CharI \in Characters
  BY DEF CharI, Characters
<1>3. text' = text \o <<CharI>> /\ <<CharI>> \in Strings
  BY <1>2, OneMore
<1>4. <<>> \in Strings /\ <<>> \in Numerals /\ <<CharI>> = <<CharI>> \o <<>>
  BY <1>3 DEF Strings, Numerals
<1>5. number'.for = "int" /\ Spelled(<<>>, number')
  BY <1>1, <1>4, NumberOfNone DEF Spelled
<1>6. IntText(<<CharI>>, number', at')
  BY <1>4, <1>5 DEF IntText
<1>7. HalfRead(<<CharI>>, number', at', chars')
  BY <1>1, <1>5, <1>6 DEF HalfRead
<1>8. Leads(number.for', stack', key', text)
  BY <1>1, <1>5 DEF Leads
<1> QED
  BY <1>1, <1>3, <1>7, <1>8, HalfwayGrammar

LEMMA LengthStarts ==
  ASSUME text \in Strings, outcome = "reading", NEW for, for # "int", Leads(for, stack, key, text),
         NEW c \in Digits, text' = Append(text, c), StartNumber(for, "number", c - Zero, 1)
  PROVE  GrammarInv'
<1>1. /\ at' = "number" /\ number' = [for |-> for, sign |-> 1, value |-> c - Zero, count |-> 1]
      /\ outcome' = "reading" /\ UNCHANGED <<stack, key>>
  BY DEF StartNumber
<1>2. c \in Characters /\ <<c>> \in Numerals /\ <<c>> # <<>> /\ NumberOf(<<c>>) = c - Zero
  BY FirstDigit
<1>3. text' = text \o <<c>> /\ <<c>> \in Strings
  BY <1>2, OneMore
<1>4. number'.for = for /\ Spelled(<<c>>, number')
  BY <1>1, <1>2 DEF Spelled
<1>5. HalfRead(<<c>>, number', at', chars')
  BY <1>1, <1>2, <1>4 DEF HalfRead, LengthText
<1>6. Leads(number.for', stack', key', text)
  BY <1>1, <1>4
<1> QED
  BY <1>1, <1>3, <1>5, <1>6, HalfwayGrammar

LEMMA ReadValueGrammar ==
  ASSUME GrammarRules, ValuesInv, outcome = "reading", Ready(stack, key, text),
         NEW c \in Characters, text' = Append(text, c), ReadValue(c)
  PROVE  GrammarInv'
<1>1. text \in Strings /\ text' \in Strings
  BY ReadyIsString, AppendStrings
<1>2. CASE c = CharI /\ StartNumber("int", "sign", 0, 0)
  BY <1>1, <1>2, IntegerStarts
<1>3. CASE c = CharL /\ Open(ListOf(<<>>))
  <2>1. Container(ListOf(<<>>))
    BY DEF Container, Is, ListOf
  <2>2. Begins(<<c>>, ListOf(<<>>))
    BY <1>3, BeginsEmpty
  <2> QED
    BY <1>3, <2>1, <2>2, OpenGrammar
<1>4. CASE c = CharD /\ Open(EmptyDict)
  <2>1. Container(EmptyDict)
    BY DEF Container, Is, EmptyDict, DictOf
  <2>2. Begins(<<c>>, EmptyDict)
    BY <1>4, BeginsEmpty
  <2> QED
    BY <1>4, <2>1, <2>2, OpenGrammar
<1>5. CASE c \in Digits /\ StartNumber("str", "number", c - Zero, 1)
  <2>1. Leads("str", stack, key, text)
    BY DEF Leads
  <2> QED
    BY <1>1, <1>5, <2>1, LengthStarts
<1>6. CASE Fail
  BY <1>1, <1>6, FailGrammar
<1> QED
  BY <1>2, <1>3, <1>4, <1>5, <1>6 DEF ReadValue
LEMMA StringGrammar ==
  ASSUME GrammarRules, ValuesInv, outcome = "reading", number.for # "int",
         NEW before \in Strings, Leads(number.for, stack, key, before),
         NEW ds \in Numerals, ds # <<>>, NEW s \in Strings, NumberOf(ds) = Len(s),
         text' = before \o (Append(ds, Colon) \o s), StringRead(s)
  PROVE  GrammarInv'
<1>1. PICK u : u = Append(ds, Colon) \o s
  OBVIOUS
<1>2. u \in Strings
  <2>1. Colon \in Characters /\ ds \in Strings
    BY StringOfDigits DEF Colon, Characters
  <2> QED
    BY <1>1, <2>1, AppendStrings, JoinStrings
<1>3. Means(u, StrOf(s))
  BY <1>1, MeansString
<1>4. text' = before \o u /\ text' \in Strings
  BY <1>1, <1>2, JoinStrings
<1>5. CASE number.for = "key"
  <2>1. key' = s /\ at' = "value" /\ outcome' = "reading" /\ stack' = stack
    BY <1>5 DEF StringRead
  <2>2. stack # <<>> /\ Is("dict", Head(stack).value) /\ PlacedIn(stack, before)
    BY <1>5 DEF Leads
  <2>3. KeyOf(stack, s, u)
    BY <1>2, <1>3, <2>2 DEF KeyOf, KeyText
  <2>4. Ready(stack', key', text')
    BY <1>2, <1>4, <2>1, <2>2, <2>3 DEF Ready
  <2>5. InDict'
    BY <2>1, <2>2 DEF InDict, Top
  <2> QED
    BY <1>4, <2>1, <2>4, <2>5 DEF GrammarInv
<1>6. CASE number.for # "key"
  <2>1. Ready(stack, key, before)
    BY <1>6 DEF Leads
  <2>2. Store(StrOf(s))
    BY <1>6 DEF StringRead
  <2> QED
    BY <1>2, <1>3, <1>4, <2>1, <2>2, StoreGrammar
<1> QED
  BY <1>5, <1>6

LEMMA TurnGrammar ==
  ASSUME GrammarRules, ValuesInv, GrammarInv, outcome = "reading",
         NEW c \in Characters, text' = Append(text, c), Turn(c)
  PROVE  GrammarInv'
<1>1. PlacedIn(stack, text) /\ text \in Strings /\ text' \in Strings
  BY AppendStrings DEF Turn, GrammarInv
<1>2. CASE c = CharE /\ stack # <<>> /\ Close
  BY <1>1, <1>2, CloseGrammar
<1>3. CASE Fail
  BY <1>1, <1>3, FailGrammar
<1>4. CASE InDict /\ c \in Digits /\ StartNumber("key", "number", c - Zero, 1)
  <2>1. Leads("key", stack, key, text)
    BY <1>1, <1>4 DEF Leads, InDict, Top
  <2> QED
    BY <1>1, <1>4, <2>1, LengthStarts
<1>5. CASE ~InDict /\ ReadValue(c)
  <2>1. Ready(stack, key, text)
    BY <1>1, <1>5, NothingPending DEF InDict, Top
  <2> QED
    BY <1>5, <2>1, ReadValueGrammar
<1> QED
  BY <1>2, <1>3, <1>4, <1>5 DEF Turn

LEMMA SignGrammar ==
  ASSUME NumbersInv, outcome = "reading", NEW before \in Strings, NEW u \in Strings,
         text = before \o u, Leads(number.for, stack, key, before),
         HalfRead(u, number, at, chars), text' = Append(text, Minus), Sign(Minus)
  PROVE  GrammarInv'
<1>1. /\ at = "sign" /\ at' = "number" /\ number' = [number EXCEPT !.sign = -1]
      /\ outcome' = "reading" /\ UNCHANGED <<stack, key>>
  BY DEF Sign
<1>2. number \in Numbers /\ Counted(number, "sign")
  BY <1>1 DEF NumbersInv
<1>3. number.for = "int" /\ number.value = 0
  BY <1>2 DEF Counted
<1>4. number'.for = "int" /\ number'.sign = -1 /\ number'.value = 0
  BY <1>1, <1>2, <1>3 DEF Numbers
<1>5. u = <<CharI>> \o <<>>
  BY <1>1, <1>3 DEF HalfRead, IntText
<1>6. Minus \in Characters /\ <<CharI>> \in Strings /\ <<>> \in Numerals /\ <<>> \in Strings
  BY DEF Minus, CharI, Characters, Strings, Numerals
<1>7. PICK w : w = <<Minus>> \o <<>>
  OBVIOUS
<1>8. w \in Strings /\ w = <<Minus>>
  BY <1>6, <1>7 DEF Strings
<1>9. Spelled(w, number')
  <2>1. NumberOf(<<>>) = 0 /\ number'.value = 0 /\ number'.sign # 1
    BY <1>4, NumberOfNone
  <2>2. number'.value = -NumberOf(<<>>)
    BY <2>1
  <2> QED
    BY <1>6, <1>7, <2>1, <2>2 DEF Spelled
<1>10. PICK t : t = Append(u, Minus)
  OBVIOUS
<1>11. t \in Strings /\ text' = before \o t
  BY <1>6, <1>10, OneMore
<1>12. t = <<CharI>> \o w
  BY <1>5, <1>6, <1>8, <1>10 DEF Strings
<1>13. IntText(t, number', at')
  BY <1>1, <1>8, <1>9, <1>12 DEF IntText
<1>14. HalfRead(t, number', at', chars')
  BY <1>1, <1>4, <1>13 DEF HalfRead
<1>15. Leads(number.for', stack', key', before)
  BY <1>1, <1>3, <1>4
<1> QED
  BY <1>1, <1>11, <1>14, <1>15, HalfwayGrammar

LEMMA DigitGrammar ==
  ASSUME NumbersInv, outcome = "reading", NEW before \in Strings, NEW u \in Strings,
         text = before \o u, Leads(number.for, stack, key, before),
         HalfRead(u, number, at, chars), NEW c \in Digits, text' = Append(text, c), Digit(c)
  PROVE  GrammarInv'
<1>1. c \in Characters
  BY FirstDigit
<1>2. PICK t : t = Append(u, c)
  OBVIOUS
<1>3. t \in Strings /\ text' = before \o t /\ t # <<>>
  <2>1. t # <<>>
    BY <1>1, <1>2 DEF Strings
  <2> QED
    BY <1>1, <1>2, <2>1, OneMore
<1>4. CASE Fail
  <2>1. text' \in Strings
    BY <1>3, JoinStrings
  <2> QED
    BY <1>4, <2>1, FailGrammar
<1>5. CASE ~Fail
  <2>1. PICK n : n = 10 * number.value + number.sign * (c - Zero)
    OBVIOUS
  <2>2. /\ at' = "number" /\ number' = [number EXCEPT !.value = n, !.count = @ + 1]
        /\ outcome' = "reading" /\ UNCHANGED <<chars, key, stack>>
    BY <1>5, <2>1 DEF Digit
  <2>3. at \in {"sign", "number"} /\ number \in Numbers
    BY DEF Digit, NumbersInv
  <2>4. number'.for = number.for /\ number'.sign = number.sign /\ number'.value = n
    BY <2>2, <2>3 DEF Numbers
  <2>5. CASE number.for = "int"
    <3>1. PICK w \in Strings : u = <<CharI>> \o w /\ Spelled(w, number)
      BY <2>3, <2>5 DEF HalfRead, IntText
    <3>2. Spelled(Append(w, c), number')
      BY <2>1, <2>3, <2>4, <3>1, SpelledMore
    <3>3. t = <<CharI>> \o Append(w, c) /\ Append(w, c) \in Strings
      <4>1. <<CharI>> \in Strings
        BY DEF CharI, Characters, Strings
      <4> QED
        BY <1>1, <1>2, <3>1, <4>1, OneMore
    <3>4. IntText(t, number', at')
      BY <2>2, <3>2, <3>3 DEF IntText
    <3> QED
      BY <1>3, <2>2, <2>4, <2>5, <3>4, HalfwayGrammar DEF HalfRead
  <2>6. CASE number.for # "int"
    <3>1. Spelled(u, number)
      BY <2>3, <2>6 DEF HalfRead, LengthText
    <3>2. Spelled(t, number')
      BY <1>2, <2>1, <2>3, <2>4, <3>1, SpelledMore
    <3>3. HalfRead(t, number', at', chars')
      BY <1>3, <2>2, <2>4, <2>6, <3>2 DEF HalfRead, LengthText
    <3>4. Leads(number.for', stack', key', before)
      BY <2>2, <2>4
    <3> QED
      BY <1>3, <2>2, <3>3, <3>4, HalfwayGrammar
  <2> QED
    BY <2>5, <2>6
<1> QED
  BY <1>4, <1>5

LEMMA NumberEndsGrammar ==
  ASSUME GrammarRules, ValuesInv, NumbersInv, outcome = "reading",
         NEW before \in Strings, NEW u \in Strings,
         text = before \o u, Leads(number.for, stack, key, before),
         HalfRead(u, number, at, chars), NEW c \in Characters, text' = Append(text, c), NumberEnds(c)
  PROVE  GrammarInv'
<1>1. PICK t : t = Append(u, c)
  OBVIOUS
<1>2. t \in Strings /\ text' = before \o t /\ text' \in Strings
  BY <1>1, OneMore, JoinStrings
<1>3. at \in {"sign", "number"} /\ number \in Numbers /\ Counted(number, at)
  BY DEF NumberEnds, NumbersInv
<1>4. CASE number.for = "int" /\ c = CharE /\ Store(IntOf(number.value))
  <2>1. PICK w \in Strings : u = <<CharI>> \o w /\ Spelled(w, number)
    BY <1>3, <1>4 DEF HalfRead, IntText
  <2>2. IsNumeral(w, number.value) /\ number.value \in Int
    BY <1>3, <2>1, SpelledIsNumeral DEF Numbers
  <2>3. Means(Append(<<CharI>> \o w, CharE), IntOf(number.value))
    BY <2>2, MeansInteger
  <2>4. Means(t, IntOf(number.value))
    BY <1>1, <1>4, <2>1, <2>3
  <2>5. Ready(stack, key, before)
    BY <1>4 DEF Leads
  <2> QED
    BY <1>2, <1>4, <2>4, <2>5, StoreGrammar
<1>5. CASE Fail
  BY <1>2, <1>5, FailGrammar
<1>6. ASSUME number.for # "int", c = Colon
      PROVE  /\ u \in Numerals /\ u # <<>> /\ NumberOf(u) = number.value
             /\ text' = before \o (Append(u, Colon) \o <<>>)
  <2>1. LengthText(u, number) /\ number.sign = 1
    BY <1>3, <1>6 DEF HalfRead, Counted
  <2>2. u \in Numerals /\ u # <<>> /\ NumberOf(u) = number.value
    BY <2>1 DEF LengthText, Spelled
  <2>3. t = t \o <<>>
    BY <1>2 DEF Strings
  <2> QED
    BY <1>1, <1>2, <1>6, <2>2, <2>3
<1>7. CASE number.for # "int" /\ c = Colon /\ number.value = 0 /\ StringRead(<<>>)
  <2>1. <<>> \in Strings /\ Len(<<>>) = 0
    BY DEF Strings
  <2>2. NumberOf(u) = Len(<<>>)
    BY <1>6, <1>7, <2>1
  <2> QED
    BY <1>6, <1>7, <2>1, <2>2, StringGrammar
<1>8. CASE /\ number.for # "int" /\ c = Colon /\ number.value > 0
           /\ at' = "bytes" /\ chars' = <<>> /\ missing' = number.value
           /\ UNCHANGED <<outcome, number, key, stack, result>>
  <2>1. PICK v : v = Append(u, Colon) \o <<>>
    OBVIOUS
  <2>2. text' = before \o v
    BY <1>6, <1>8, <2>1
  <2>3. v \in Strings
    <3>1. v = t \o <<>>
      BY <1>1, <1>8, <2>1
    <3>2. <<>> \in Strings
      BY DEF Strings
    <3> QED
      BY <1>2, <3>1, <3>2, JoinStrings
  <2>4. StringText(v, number', chars')
    BY <1>6, <1>8, <2>1 DEF StringText
  <2>5. HalfRead(v, number', at', chars')
    BY <1>8, <2>4 DEF HalfRead
  <2>6. Leads(number.for', stack', key', before)
    BY <1>8
  <2>7. outcome' = "reading" /\ at' = "bytes"
    BY <1>8
  <2> QED
    BY <2>2, <2>3, <2>5, <2>6, <2>7, HalfwayGrammar
<1> QED
  BY <1>4, <1>5, <1>7, <1>8 DEF NumberEnds

LEMMA ByteGrammar ==
  ASSUME GrammarRules, ValuesInv, NumbersInv, outcome = "reading",
         NEW before \in Strings, NEW u \in Strings,
         text = before \o u, Leads(number.for, stack, key, before),
         HalfRead(u, number, at, chars), NEW c \in Characters, text' = Append(text, c), Byte(c)
  PROVE  GrammarInv'
<1>1. PICK t : t = Append(u, c)
  OBVIOUS
<1>2. t \in Strings /\ text' = before \o t /\ text' \in Strings
  BY <1>1, OneMore, JoinStrings
<1>3. /\ at = "bytes" /\ number.for # "int" /\ chars \in Strings
      /\ missing \in 1 .. MaxSize /\ Len(chars) + missing = number.value
  BY DEF Byte, NumbersInv, Strings
<1>4. PICK ds \in Numerals :
         ds # <<>> /\ NumberOf(ds) = number.value /\ u = Append(ds, Colon) \o chars
  BY <1>3 DEF HalfRead, StringText
<1>5. PICK s : s = Append(chars, c)
  OBVIOUS
<1>6. s \in Strings /\ Len(s) = Len(chars) + 1
  BY <1>3, <1>5, AppendStrings
<1>7. t = Append(ds, Colon) \o s
  <2>1. Append(ds, Colon) \in Strings
    <3>1. Colon \in Characters /\ ds \in Strings
      BY StringOfDigits DEF Colon, Characters
    <3> QED
      BY <3>1, AppendStrings
  <2> QED
    BY <1>1, <1>3, <1>4, <1>5, <2>1, JoinAppended
<1>8. CASE missing = 1 /\ StringRead(Append(chars, c))
  <2>1. NumberOf(ds) = Len(s)
    BY <1>3, <1>4, <1>6, <1>8
  <2>2. StringRead(s)
    BY <1>5, <1>8
  <2> QED
    BY <1>2, <1>3, <1>4, <1>6, <1>7, <2>1, <2>2, StringGrammar
<1>9. CASE /\ missing > 1
           /\ chars' = Append(chars, c) /\ missing' = missing - 1
           /\ UNCHANGED <<outcome, at, number, key, stack, result>>
  <2>1. StringText(t, number', chars')
    BY <1>4, <1>5, <1>7, <1>9 DEF StringText
  <2>2. HalfRead(t, number', at', chars')
    BY <1>3, <1>9, <2>1 DEF HalfRead
  <2>3. Leads(number.for', stack', key', before)
    BY <1>9
  <2>4. outcome' = "reading" /\ at' = "bytes"
    BY <1>3, <1>9
  <2> QED
    BY <1>2, <2>2, <2>3, <2>4, HalfwayGrammar
<1> QED
  BY <1>8, <1>9 DEF Byte

LEMMA CharacterGrammar ==
  ASSUME GrammarRules, ValuesInv, NumbersInv, GrammarInv, outcome = "reading",
         NEW c \in Characters, text' = Append(text, c),
         Turn(c) \/ ValueOfKey(c) \/ Sign(c) \/ Digit(c) \/ NumberEnds(c) \/ Byte(c)
  PROVE  GrammarInv'
<1>1. CASE Turn(c)
  BY <1>1, TurnGrammar
<1>2. CASE ValueOfKey(c)
  <2>1. Ready(stack, key, text)
    BY <1>2 DEF ValueOfKey, GrammarInv
  <2> QED
    BY <1>2, <2>1, ReadValueGrammar DEF ValueOfKey
<1>3. CASE at \in {"sign", "number", "bytes"}
  <2>1. PICK before \in Strings, u \in Strings :
           /\ text = before \o u /\ Leads(number.for, stack, key, before)
           /\ HalfRead(u, number, at, chars)
    BY <1>3 DEF GrammarInv, Halfway
  <2>2. CASE Sign(c)
    <3>1. c = Minus
      BY <2>2 DEF Sign
    <3> QED
      BY <2>1, <2>2, <3>1, SignGrammar
  <2>3. CASE Digit(c)
    <3>1. c \in Digits
      BY <2>3 DEF Digit
    <3> QED
      BY <2>1, <2>3, <3>1, DigitGrammar
  <2>4. CASE NumberEnds(c)
    BY <2>1, <2>4, NumberEndsGrammar
  <2>5. CASE Byte(c)
    BY <2>1, <2>5, ByteGrammar
  <2> QED
    BY <1>1, <1>2, <2>2, <2>3, <2>4, <2>5
<1>4. at \in {"sign", "number", "bytes"} \/ Turn(c) \/ ValueOfKey(c)
  BY DEF Sign, Digit, NumberEnds, Byte
<1> QED
  BY <1>1, <1>2, <1>3, <1>4

LEMMA GrammarNext ==
  ASSUME GrammarRules, ValuesInv, NumbersInv, GrammarInv, [Next]_vars
  PROVE  GrammarInv'
<1>1. CASE ReadFile
  <2>1. text \in Strings
    BY DEF GrammarInv
  <2>2. CASE EndOfInput
    BY <2>1, <2>2, FailGrammar DEF EndOfInput
  <2>3. CASE ReadCharacter
    <3>1. PICK c \in Alphabet \union UNION {ToSet(t) : t \in Texts} :
             /\ text' = Append(text, c)
             /\ Turn(c) \/ ValueOfKey(c) \/ Sign(c) \/ Digit(c) \/ NumberEnds(c) \/ Byte(c)
      BY <2>3 DEF ReadCharacter
    <3>2. c \in Characters
      BY CharacterRead
    <3>3. outcome = "reading"
      BY <2>3 DEF ReadCharacter
    <3> QED
      BY <3>1, <3>2, <3>3, CharacterGrammar
  <2> QED
    BY <1>1, <2>2, <2>3 DEF ReadFile, Decode
<1>2. CASE UNCHANGED decoder
  <2>1. UNCHANGED <<text, outcome, at, number, chars, key, stack, result>>
    BY <1>2 DEF decoder
  <2> QED
    BY <2>1 DEF GrammarInv, InDict, Top
<1>3. ReadFile \/ UNCHANGED decoder
  BY DEF Next, Extract, WriteTemp, WriteTempFails, OtherClient, ReadTemp, Hash, Parse, Stopped, vars
<1> QED
  BY <1>1, <1>2, <1>3

\* What the decoder returns follows, by the rules of the grammar, from the text
\* it has read, whatever is nested in whatever: a list or dict that is closed has
\* in its text the texts of its elements, each behind its key.
THEOREM DecodesAsMeant ==
  ASSUME GrammarRules
  PROVE  Spec => []DecodesGrammar
<1>1. TorrentInit => GrammarInv /\ NumbersInv
  BY GrammarInit, NumbersInit DEF TorrentInit
<1>2. FileInv => ValuesInv
  BY DEF FileInv
<1>3. ValuesInv /\ NumbersInv /\ GrammarInv /\ [Next]_vars => GrammarInv'
  BY GrammarNext
<1>4. NumbersInv /\ [Next]_vars => NumbersInv'
  BY NumbersNext
<1>5. FileInv /\ [Next]_vars => FileInv'
  BY FileInvNext
<1>6. GrammarInv => DecodesGrammar
  BY DEF GrammarInv, DecodesGrammar
<1> QED
  BY <1>1, <1>2, <1>3, <1>4, <1>5, <1>6, FileInvInit, PTL DEF Spec
===============================================================================
