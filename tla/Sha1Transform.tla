------------------------------ MODULE Sha1Transform ------------------------------
(***************************************************************************)
(* The arithmetic of sha1.hpp: transform and what it is made of.  A word   *)
(* of 32 bits is the set of the positions of its ones.                     *)
(***************************************************************************)
EXTENDS Integers, Sequences, SequencesExt

Positions == 0 .. 31
Words == SUBSET Positions
Digests == [1 .. 5 -> Words]
Blocks == [0 .. 15 -> Words]

\* A number of 32 bits by its two halves.
Word(high, low) ==
    {b \in Positions : ((IF b > 15 THEN high ELSE low) \div 2 ^ (b % 16)) % 2 = 1}

Xor(A, B) == (A \ B) \cup (B \ A)

rol(value, bits) == {(b + bits) % 32 : b \in value}

\* Addition modulo 2^32: a carry comes to b from a position below where both have
\* a one, over positions where one of them has.
Carry(A, B, b) == \E k \in A \cap B : k < b /\ k + 1 .. b - 1 \subseteq A \cup B

Add(A, B) == {b \in Positions : b \in Xor(A, B) <=> ~Carry(A, B, b)}

SumOf(v, w, x, y, z) == Add(Add(Add(Add(v, w), x), y), z)

\* reset(): where every digest starts, 67452301 efcdab89 98badcfe 10325476
\* c3d2e1f0.
Start == << Word(26437, 8961), Word(61389, 43913), Word(39098, 56574),
            Word(4146, 21622), Word(50130, 57840) >>

\* buffer_to_block, for the word at i of 0 .. 15; the bytes are numbers below 256.
buffer_to_block(buffer) ==
    [i \in 0 .. 15 |-> Word(256 * buffer[4 * i + 1] + buffer[4 * i + 2],
                            256 * buffer[4 * i + 3] + buffer[4 * i + 4])]

\* Mutant of blk: without the rotation, which the first version of the standard
\* did not have.
blkUnrotated(block, i) ==
    Xor(Xor(block[(i + 13) % 16], block[(i + 8) % 16]), Xor(block[(i + 2) % 16], block[i]))

blk(block, i) ==
    rol(Xor(Xor(block[(i + 13) % 16], block[(i + 8) % 16]), Xor(block[(i + 2) % 16], block[i])), 1)

\* What R0 and R1, R2, R3 and R4 make of w, x and y, and what they add.
Mix(t, w, x, y) ==
    CASE t < 20            -> Xor(w \cap Xor(x, y), y)
      [] t \in 40 .. 59    -> ((w \cup x) \cap y) \cup (w \cap x)
      [] OTHER             -> Xor(Xor(w, x), y)

\* 5a827999, 6ed9eba1, 8f1bbcdc and ca62c1d6.
Addend(t) ==
    CASE t < 20            -> Word(23170, 31129)
      [] t \in 20 .. 39    -> Word(28377, 60321)
      [] t \in 40 .. 59    -> Word(36635, 48348)
      [] OTHER             -> Word(51810, 49622)

\* What the calls of transform work on.
States == [block : Blocks, vars : [0 .. 4 -> Words]]

\* The call at place t of transform: the working variables a .. e are 0 .. 4,
\* and v, w, x, y, z are handed on by one from call to call.  All but the first
\* 16 put a new word into the block before they use it.
R[call \in (0 .. 79) \X States] ==
    LET t == call[1]
        state == call[2]
        i == t % 16
        block == IF t < 16 THEN state.block ELSE [state.block EXCEPT ![i] = blk(state.block, i)]
        At(k) == (k + 80 - t) % 5
        var(k) == state.vars[At(k)]
    IN  [block |-> block,
         vars |-> [state.vars EXCEPT
                     ![At(4)] = SumOf(@, Mix(t, var(1), var(2), var(3)), block[i], Addend(t),
                                      rol(var(0), 5)),
                     ![At(1)] = rol(@, 30)]]

transform[call \in Digests \X Blocks] ==
    LET digest == call[1]
        block == call[2]
        start == [block |-> block, vars |-> [k \in 0 .. 4 |-> digest[k + 1]]]
        after[t \in 0 .. 80] == IF t = 0 THEN start ELSE R[<<t - 1, after[t - 1]>>]
    IN  [k \in 1 .. 5 |-> Add(digest[k], after[80].vars[k - 1])]

\* The four bytes of a word.
BytesOf(word) ==
    [k \in 1 .. 4 |-> MapThenSumSet(LAMBDA b : 2 ^ (b % 8), {b \in word : b \div 8 = 4 - k})]

-----------------------------------------------------------------------------
(* FIPS 180: 80 words are made of the block first; the five variables move  *)
(* on by one in each step.                                                 *)

Ch(x, y, z) == (x \cap y) \cup (z \ x)
Parity(x, y, z) == Xor(x, Xor(y, z))
Maj(x, y, z) == Xor(x \cap y, Xor(x \cap z, y \cap z))

Schedule(block) ==
    LET made[n \in 0 .. 64] ==
          IF n = 0 THEN [k \in 1 .. 16 |-> block[k - 1]]
          ELSE LET w == made[n - 1]
                   Back(k) == w[(Len(w) + 1) - k]
               IN  Append(w, rol(Xor(Xor(Back(3), Back(8)), Xor(Back(14), Back(16))), 1))
    IN  made[64]

\* A step on the variables a .. e, with the word for it.
Step[call \in (0 .. 79) \X Words \X Digests] ==
    LET t == call[1]
        word == call[2]
        vars == call[3]
        f == CASE t \in 0 .. 19  -> Ch(vars[2], vars[3], vars[4])
               [] t \in 40 .. 59 -> Maj(vars[2], vars[3], vars[4])
               [] OTHER          -> Parity(vars[2], vars[3], vars[4])
    IN  << SumOf(rol(vars[1], 5), f, vars[5], word, Addend(t)),
           vars[1], rol(vars[2], 30), vars[3], vars[4] >>

Compressed[call \in Digests \X Blocks] ==
    LET digest == call[1]
        block == call[2]
        words == Schedule(block)
        after[t \in 0 .. 80] == IF t = 0 THEN digest ELSE Step[<<t - 1, words[t], after[t - 1]>>]
    IN  [k \in 1 .. 5 |-> Add(digest[k], after[80][k])]

\* The digest of a message that is padded and cut into blocks of bytes.
DigestOf(blocks) ==
    LET after[k \in 0 .. Len(blocks)] ==
          IF k = 0 THEN Start ELSE Compressed[<<after[k - 1], buffer_to_block(blocks[k])>>]
    IN  after[Len(blocks)]

==================================================================================
