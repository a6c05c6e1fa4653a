-------------------------- MODULE DifficultyTarget --------------------------
(* Which difficulty a session should have: getSuggestedDifficulty and       *)
(* nearestPowerOfTwo of StratumV1ClientStatistics. A difficulty is a whole  *)
(* number of units, Scale of them making a difficulty of one.               *)
(*                                                                          *)
(* nearestPowerOfTwo works on the bits of a word, to which JavaScript cuts   *)
(* the number: a word is the set of the positions of its ones, WordBits - 1 *)
(* being the sign.                                                          *)
EXTENDS Integers, FiniteSetsExt

CONSTANTS
    Scale,          \* the units of a difficulty of one
    Factor,         \* 100: by what a number too small is multiplied
    MinDifficulty,  \* MIN_DIFF, in units
    WordBits,       \* 32: the bits of the word
    MaxTarget,      \* bound on the targets and difficulties
    MaxDepth        \* bound: the recursions tried; Factor being a multiple of
                    \* four, after WordBits / 2 and some the word is zero for good

\* The powers of b up to the n-th.
Powers(b, n) ==
    LET power[k \in 0 .. n] == IF k = 0 THEN 1 ELSE b * power[k - 1]
    IN power

Two == Powers(2, WordBits)
Factors == Powers(Factor, MaxDepth)

\* The shifts of nearestPowerOfTwo are enough for words of up to 64 bits. Anything from
\* the smallest difficulty on is multiplied until it is one, and what is then divided
\* by the same factors is a whole number of units.
ASSUME TargetAssumption ==
    /\ Scale \in Nat \ {0}
    /\ WordBits \in 2 .. 64
    /\ MaxDepth \in Nat
    /\ Factor \in 2 .. Two[WordBits - 1]
    /\ MaxTarget \in Nat /\ Two[WordBits - 1] * Scale <= MaxTarget
    /\ MinDifficulty \in 1 .. MaxTarget
    /\ MinDifficulty * Factors[MaxDepth] >= Scale
    /\ \A d \in 1 .. MaxDepth :
          MinDifficulty * Factors[d - 1] < Scale => Scale % Factors[d] = 0

Null == -1
Diverged == -2

Bits == 0 .. WordBits - 1

Word(n) == {i \in Bits : (n \div Two[i]) % 2 = 1}

\* The sum of the powers of two at the positions of w below n.
Sum(w, n) ==
    LET sum[k \in 0 .. n] ==
            IF k = 0 THEN 0 ELSE sum[k - 1] + IF k - 1 \in w THEN Two[k - 1] ELSE 0
    IN sum[n]

\* The number a word stands for, and the word shifted right by k, which the
\* sign fills. As in JavaScript, only k modulo the length of the word counts.
Signed(w) ==
    Sum(w, WordBits - 1) - IF WordBits - 1 \in w THEN Two[WordBits - 1] ELSE 0

ShiftRight(w, k) ==
    {i \in Bits : LET from == i + (k % WordBits)
                  IN IF from < WordBits THEN from \in w ELSE WordBits - 1 \in w}

\* x | (x >> k)
Spread(w, k) == w \cup ShiftRight(w, k)

\* Mutant: one of the shifts is missing.
SmearedButOne(n) ==
    Spread(Spread(Spread(Spread(Spread(Word(n), 1), 4), 8), 16), 32)

\* All positions below the highest one become ones; what is left after taking
\* half of it away is the highest one.
Smeared(n) ==
    Spread(Spread(Spread(Spread(Spread(Spread(Word(n), 1), 2), 4), 8), 16), 32)

\* Mutant: the lower half is not taken away.
AllOnes(n) == Signed(Smeared(n))

HighestOne(n) == Signed(Smeared(n)) - Signed(ShiftRight(Smeared(n), 1))

\* v after d recursions, without its fraction.
Multiplied(v, d) == (v * Factors[d]) \div Scale

\* The recursions after which there is something left of v.
Enough(v) == {d \in 0 .. MaxDepth : HighestOne(Multiplied(v, d)) # 0}

\* nearestPowerOfTwo, for v # 0. Diverged is a recursion without end.
NearestPowerOfTwo ==
    [v \in 0 .. MaxTarget |->
        IF v < MinDifficulty THEN MinDifficulty
        ELSE IF Enough(v) = {} THEN Diverged
        ELSE LET d == Min(Enough(v))
             IN (HighestOne(Multiplied(v, d)) * Scale) \div Factors[d]]

\* What the last submissions say: there are fewer than five and the session is
\* older than a minute, or they call for a certain difficulty.
Few == 0

\* The difficulty asked of nearestPowerOfTwo for a session that has difficulty
\* d, or Null if d is to stay.
Wanted(d, measured) ==
    IF measured = Few THEN (IF d = 0 THEN Null ELSE d \div 6)
    ELSE IF 2 * d < measured \/ d > 2 * measured THEN measured
    ELSE Null
=============================================================================
