------------------------- MODULE ElkLineProofs -------------------------
(***************************************************************************)
(* What holds of the ASCII line to the panel: of ElkFrame, its frames, for *)
(* every report, request, noise and length of a read, and of ElkConnection *)
(* for every set of replies, every resync and every bound.                 *)
(***************************************************************************)
EXTENDS ElkConnection, ElkFrame, SequenceTheorems, FiniteSetTheorems, NaturalsInduction,
        WellFoundedInduction, TLAPS

-----------------------------------------------------------------------------
(***************************************************************************)
(* Loops: what a recursive function computes, by induction up to a number. *)
(***************************************************************************)

\* A set of naturals that has an element has a least one.
LEMMA LeastNatural ==
  ASSUME NEW T \in SUBSET Nat, T # {}
  PROVE  \E k \in T : \A j \in T : k <= j
<1> DEFINE R == OpToRel(<, Nat)
<1>1. IsWellFoundedOn(R, Nat)
  BY NatLessThanWellFounded, Zenon
<1>2. PICK k \in T : \A j \in T : ~(<<j, k>> \in R)
  BY <1>1, WFMin, Zenon
<1>3. R = {pair \in Nat \X Nat : pair[1] < pair[2]}
  BY Zenon DEF OpToRel
<1> HIDE DEF R
<1>4. ASSUME NEW j \in T PROVE k <= j
  <2>1. j \in Nat /\ k \in Nat /\ ~(j < k)
    BY <1>2, <1>3
  <2> QED
    BY <2>1
<1> QED
  BY <1>4

\* Induction up to n, over a set of numbers instead of a predicate.
LEMMA InductionUpTo ==
  ASSUME NEW n \in Nat, NEW T, 0 \in T, \A i \in 1..n : i - 1 \in T => i \in T
  PROVE  0..n \subseteq T
<1> DEFINE missing == {i \in 0..n : i \notin T}
<1> SUFFICES ASSUME missing # {} PROVE FALSE
  OBVIOUS
<1>1. missing \in SUBSET Nat
  OBVIOUS
<1>2. PICK k \in missing : \A j \in missing : k <= j
  BY <1>1, LeastNatural, Zenon
<1>3. k \in 1..n /\ k - 1 \in 0..n /\ ~(k <= k - 1)
  BY <1>2
<1>4. k - 1 \in T
  BY <1>2, <1>3
<1> QED
  BY <1>2, <1>3, <1>4

\* What a loop computes: a value for each number of rounds.
Rounds(g, n, start, step) ==
  g = [i \in 0..n |-> IF i = 0 THEN start ELSE step[i][g[i - 1]]]

\* A loop over 1..n with a step of each number has a run.
LEMMA LoopRuns ==
  ASSUME NEW n \in Nat, NEW S, NEW start \in S, NEW step \in [1..n -> [S -> S]]
  PROVE  \E g \in [0..n -> S] : Rounds(g, n, start, step)
<1> DEFINE T == {k \in 0..n : \E g \in [0..k -> S] : Rounds(g, k, start, step)}
<1>1. 0 \in T
  <2>1. [i \in 0..0 |-> start] \in [0..0 -> S] /\ Rounds([i \in 0..0 |-> start], 0, start, step)
    BY DEF Rounds
  <2> QED
    BY <2>1
<1>2. ASSUME NEW k \in 1..n, k - 1 \in T PROVE k \in T
  <2>1. PICK g \in [0..k - 1 -> S] : Rounds(g, k - 1, start, step)
    BY <1>2
  <2> DEFINE next == step[k][g[k - 1]]
             h == [i \in 0..k |-> IF i = k THEN next ELSE g[i]]
  <2>2. next \in S /\ \A i \in 0..k - 1 : g[i] = IF i = 0 THEN start ELSE step[i][g[i - 1]]
    BY <2>1 DEF Rounds
  <2>3. h \in [0..k -> S]
    BY <2>1, <2>2
  <2>4. ASSUME NEW i \in 0..k PROVE h[i] = IF i = 0 THEN start ELSE step[i][h[i - 1]]
    <3>1. CASE i = k
      BY <3>1
    <3>2. CASE i # k
      <4>1. i \in 0..k - 1 /\ h[i] = g[i] /\ (i # 0 => i - 1 \in 0..k - 1 /\ h[i - 1] = g[i - 1])
        BY <3>2
      <4> QED
        BY <2>2, <3>2, <4>1
    <3> QED
      BY <3>1, <3>2
  <2>5. Rounds(h, k, start, step)
    <3> HIDE DEF h, next
    <3>1. h = [i \in 0..k |-> h[i]]
      BY <2>3
    <3>2. [i \in 0..k |-> h[i]] = [i \in 0..k |-> IF i = 0 THEN start ELSE step[i][h[i - 1]]]
      BY <2>4
    <3> QED
      BY <3>1, <3>2 DEF Rounds
  <2> QED
    BY <2>3, <2>5
<1>3. 0..n \subseteq T
  <2> HIDE DEF T
  <2> QED
    BY <1>1, <1>2, InductionUpTo
<1> QED
  BY <1>3

\* Sum is the last of the running sums, which are integers.
LEMMA SumIsLoop ==
  ASSUME NEW s \in Seq(Int)
  PROVE  \E g \in [0..Len(s) -> Int] :
           /\ Sum(s) = g[Len(s)]
           /\ \A i \in 0..Len(s) : g[i] = IF i = 0 THEN 0 ELSE g[i - 1] + s[i]
<1> DEFINE n == Len(s)
           step == [i \in 1..n |-> [x \in Int |-> x + s[i]]]
           E(g) == g = [i \in 0..n |-> IF i = 0 THEN 0 ELSE g[i - 1] + s[i]]
           c == CHOOSE g : E(g)
<1>1. n \in Nat /\ \A i \in 1..n : s[i] \in Int
  BY LenProperties, ElementOfSeq
<1>2. step \in [1..n -> [Int -> Int]]
  BY <1>1
<1>3. PICK g \in [0..n -> Int] : Rounds(g, n, 0, step)
  <2>1. n \in Nat /\ 0 \in Int
    BY <1>1
  <2> HIDE DEF n, step
  <2> QED
    BY <1>2, <2>1, LoopRuns, Zenon
<1>4. E(g)
  <2>1. ASSUME NEW i \in 1..n PROVE step[i][g[i - 1]] = g[i - 1] + s[i]
    <3>1. g[i - 1] \in Int
      <4>1. n \in Nat
        BY <1>1
      <4> HIDE DEF n, step
      <4> QED
        BY <1>3, <4>1
    <3> QED
      BY <3>1
  <2>2. g = [i \in 0..n |-> IF i = 0 THEN 0 ELSE step[i][g[i - 1]]]
    BY <1>3, Zenon DEF Rounds
  <2>3. n \in Nat
    BY <1>1
  <2> HIDE DEF step, n
  <2>4. [i \in 0..n |-> IF i = 0 THEN 0 ELSE step[i][g[i - 1]]] = [i \in 0..n |-> IF i = 0 THEN 0 ELSE g[i - 1] + s[i]]
    <3>1. \A i \in 0..n : i # 0 => i \in 1..n
      BY <2>3
    <3>2. \A i \in 0..n : (IF i = 0 THEN 0 ELSE step[i][g[i - 1]]) = (IF i = 0 THEN 0 ELSE g[i - 1] + s[i])
      BY <2>1, <3>1, Zenon
    <3> QED
      BY <3>2, ZenonT(40)
  <2> QED
    BY <2>2, <2>4, Zenon
<1>5. E(c)
  BY <1>4
<1>6. Sum(s) = c[n]
  BY DEF Sum
<1> HIDE DEF c
<1>7. \A i \in 0..n : c[i] = IF i = 0 THEN 0 ELSE c[i - 1] + s[i]
  BY <1>5
<1>8. \A i \in 0..n : c[i] \in Int
  <2> DEFINE T == {i \in 0..n : c[i] \in Int}
  <2>1. 0 \in T
    BY <1>1, <1>7
  <2>2. ASSUME NEW i \in 1..n, i - 1 \in T PROVE i \in T
    BY <1>1, <1>7, <2>2
  <2>3. 0..n \subseteq T
    <3> HIDE DEF T, n
    <3> QED
      BY <1>1, <2>1, <2>2, InductionUpTo
  <2> QED
    BY <2>3
<1>9. c \in [0..n -> Int]
  BY <1>5, <1>8
<1> QED
  BY <1>6, <1>7, <1>9

\* The bytes of a text are the text as long as they are ASCII.
LEMMA CodesFlatten ==
  ASSUME NEW message \in Seq(Nat)
  PROVE  LET bytes == FlattenSeq([i \in DOMAIN message |-> Utf8(message[i])])
         IN /\ bytes \in Seq(Nat)
            /\ (\A i \in 1..Len(bytes) : bytes[i] < 128) => bytes = message
<1> DEFINE n == Len(message)
           seqs == [i \in DOMAIN message |-> Utf8(message[i])]
           bytes == FlattenSeq(seqs)
           Plain(s) == \A i \in 1..Len(s) : s[i] < 128
<1>1. n \in Nat /\ DOMAIN message = 1..n /\ \A i \in 1..n : message[i] \in Nat
  BY LenProperties, ElementOfSeq
<1>2. ASSUME NEW c \in Nat
      PROVE  Utf8(c) \in Seq(Nat) /\ Utf8(c) # <<>> /\ (Utf8(c)[1] < 128 => Utf8(c) = <<c>>)
  BY DEF Utf8
<1>3. seqs \in Seq(Seq(Nat)) /\ Len(seqs) = n /\ \A i \in 1..n : seqs[i] = Utf8(message[i])
  <2>1. \A i \in 1..n : Utf8(message[i]) \in Seq(Nat)
    BY <1>1, <1>2
  <2>2. seqs = [i \in 1..n |-> Utf8(message[i])]
    BY <1>1
  <2> HIDE DEF seqs, n
  <2> QED
    BY <1>1, <2>1, <2>2
<1>4. CASE n = 0
  <2>1. message = <<>> /\ seqs = <<>>
    BY <1>3, <1>4, EmptySeq
  <2>2. bytes = seqs
    BY <1>3, <1>4 DEF FlattenSeq
  <2> QED
    BY <2>1, <2>2
<1>5. CASE n # 0
  <2> DEFINE E(f) == f = [i \in 1..n |-> IF i = 1 THEN seqs[i] ELSE f[i - 1] \o seqs[i]]
             f == CHOOSE f : E(f)
             step == [i \in 1..n |-> [x \in Seq(Nat) |-> x \o seqs[i]]]
  <2>1. bytes = f[n]
    BY <1>3, <1>5 DEF FlattenSeq
  <2> HIDE DEF seqs, bytes
  <2>2. PICK g \in [0..n -> Seq(Nat)] : Rounds(g, n, <<>>, step)
    <3>1. <<>> \in Seq(Nat) /\ \A i \in 1..n : seqs[i] \in Seq(Nat)
      BY <1>1, <1>2, <1>3
    <3>2. step \in [1..n -> [Seq(Nat) -> Seq(Nat)]]
      <4> HIDE DEF n
      <4> QED
        BY <3>1, ConcatProperties
    <3> HIDE DEF n, step
    <3> QED
      BY <1>1, <3>1, <3>2, LoopRuns, Zenon
  <2> DEFINE h == [i \in 1..n |-> g[i]]
  <2> HIDE DEF n
  <2>3. /\ g[0] = <<>> /\ \A i \in 0..n : g[i] \in Seq(Nat)
        /\ \A i \in 1..n : g[i] = step[i][g[i - 1]]
    <3> HIDE DEF step
    <3> QED
      BY <1>1, <2>2, SMTT(60) DEF Rounds
  <2>4. \A i \in 1..n : g[i] = g[i - 1] \o seqs[i]
    <3>1. \A i \in 1..n : i - 1 \in 0..n
      BY <1>1
    <3> QED
      BY <2>3, <3>1
  <2>5. E(h)
    <3>1. ASSUME NEW i \in 1..n PROVE g[i] = IF i = 1 THEN seqs[i] ELSE h[i - 1] \o seqs[i]
      <4>1. CASE i = 1
        <5>1. g[i] = <<>> \o seqs[i]
          <6>1. i - 1 = 0 /\ g[0] = <<>>
            BY <2>3, <4>1
          <6> HIDE DEF h, step
          <6> QED
            BY <2>4, <6>1
        <5>2. seqs[i] \in Seq(Nat)
          BY <1>1, <1>2, <1>3
        <5> QED
          BY <4>1, <5>1, <5>2
      <4>2. CASE i # 1
        <5>1. i - 1 \in 1..n
          BY <1>1, <4>2
        <5>2. h[i - 1] = g[i - 1]
          BY <5>1
        <5> QED
          BY <2>4, <4>2, <5>2
      <4> QED
        BY <4>1, <4>2
    <3>2. [i \in 1..n |-> g[i]] = [i \in 1..n |-> IF i = 1 THEN seqs[i] ELSE h[i - 1] \o seqs[i]]
      <4> HIDE DEF h
      <4> QED
        BY <3>1
    <3> QED
      BY <3>2, Zenon
  <2>6. E(f)
    <3> HIDE DEF h
    <3> QED
      BY <2>5, Zenon
  <2> HIDE DEF f
  <2>7. \A i \in 1..n : f[i] = IF i = 1 THEN seqs[i] ELSE f[i - 1] \o seqs[i]
    BY <2>6
  <2> DEFINE Good(i) == /\ f[i] \in Seq(Nat)
                        /\ Plain(f[i]) => f[i] = SubSeq(message, 1, i)
             T == {i \in 0..n : i = 0 \/ Good(i)}
  <2>8. 0 \in T
    BY <1>1
  <2>9. ASSUME NEW i \in 1..n, i - 1 \in T PROVE i \in T
    <3> SUFFICES Good(i)
      <4> HIDE DEF Good
      <4> QED
        BY <1>1
    <3>0. i - 1 = 0 \/ Good(i - 1)
      <4> HIDE DEF Good
      <4> QED
        BY <2>9
    <3>1. /\ message[i] \in Nat /\ seqs[i] = Utf8(message[i]) /\ seqs[i] \in Seq(Nat) /\ seqs[i] # <<>>
          /\ (seqs[i][1] < 128 => seqs[i] = <<message[i]>>)
      BY <1>1, <1>2, <1>3
    <3>2. CASE i = 1
      <4>1. f[1] = seqs[1]
        BY <2>7, <3>2
      <4>2. Plain(f[1]) => f[1][1] < 128
        BY <3>1, <3>2, <4>1, LenProperties, EmptySeq
      <4>3. SubSeq(message, 1, 1) = <<message[1]>>
        <5>1. 1 \in 1..Len(message)
          BY <1>1, <3>2 DEF n
        <5>2. SubSeq(message, 1, 1) = SubSeq(message, 1, 1 - 1) \o <<message[1]>>
          BY <5>1, SubSeqRecursiveSecond
        <5>3. SubSeq(message, 1, 1 - 1) = <<>>
          BY SubSeqEmpty
        <5>4. <<>> \o <<message[1]>> = <<message[1]>>
          BY <3>1, <3>2
        <5> QED
          BY <5>2, <5>3, <5>4, Zenon
      <4> QED
        BY <3>1, <3>2, <4>1, <4>2, <4>3
    <3>3. CASE i # 1
      <4> DEFINE x == f[i - 1] y == seqs[i] z == f[i]
      <4>1. i - 1 \in 1..n /\ i - 1 # 0 /\ x \in Seq(Nat) /\ z = x \o y
        <5>1. i - 1 \in 1..n /\ i - 1 # 0
          BY <1>1, <3>3
        <5>2. x \in Seq(Nat)
          BY <3>0, <5>1
        <5>3. z = x \o y
          BY <2>7, <3>3
        <5> QED
          BY <5>1, <5>2, <5>3
      <4>2. Plain(x) => x = SubSeq(message, 1, i - 1)
        BY <3>0, <4>1
      <4>3. /\ z \in Seq(Nat) /\ Len(z) = Len(x) + Len(y) /\ Len(x) \in Nat /\ Len(y) \in Nat /\ Len(y) > 0
            /\ \A j \in 1..Len(x) : z[j] = x[j]
            /\ z[Len(x) + 1] = y[1]
        <5> HIDE DEF x, y, z
        <5>1. y \in Seq(Nat) /\ y # <<>>
          BY <3>1 DEF y
        <5> QED
          BY <4>1, <5>1, LenProperties, EmptySeq
      <4>4. ASSUME Plain(z) PROVE z = SubSeq(message, 1, i)
        <5>1. Plain(x) /\ y[1] < 128
          <6> HIDE DEF x, y, z
          <6> QED
            BY <4>3, <4>4, SMTT(60)
        <5>2. x = SubSeq(message, 1, i - 1) /\ y = <<message[i]>>
          BY <3>1, <4>2, <5>1
        <5>3. SubSeq(message, 1, i - 1) \o <<message[i]>> = SubSeq(message, 1, i)
          <6>1. 1 \in 1..Len(message) /\ i \in 1..Len(message)
            BY <1>1 DEF n
          <6> QED
            BY <6>1, SubSeqRecursiveSecond
        <5> QED
          BY <4>1, <5>2, <5>3
      <4> QED
        BY <4>3, <4>4
    <3> QED
      BY <3>2, <3>3
  <2>10. 0..n \subseteq T
    <3> HIDE DEF T
    <3> QED
      BY <1>1, <2>8, <2>9, InductionUpTo
  <2>11. Good(n)
    <3> HIDE DEF Good
    <3> QED
      BY <1>1, <1>5, <2>10
  <2>12. SubSeq(message, 1, n) = message
    BY SubSeqFull DEF n
  <2> QED
    BY <2>1, <2>11, <2>12 DEF bytes, seqs
<1> QED
  BY <1>4, <1>5

\* Two hexadecimal digits are read as the number they were made from.
LEMMA DigitsAreRead ==
  ASSUME NEW n \in 0..255
  PROVE  /\ Hex2(n) \in Seq(Nat) /\ Len(Hex2(n)) = 2
         /\ IsInt(Hex2(n)) /\ IntOf(Hex2(n)) = n
<1>1. PICK h, d \in 0..15 : h = n \div 16 /\ d = n % 16 /\ n = 16 * h + d
  OBVIOUS
<1>2. \A x \in 0..15 : /\ HexDigit(x) \in 48..57 \cup 65..70
                       /\ IsHex(HexDigit(x)) /\ HexValue(HexDigit(x)) = x
  BY DEF HexDigit, IsHex, HexValue
<1>3. Hex2(n) = <<HexDigit(h), HexDigit(d)>>
  BY <1>1 DEF Hex2
<1>4. /\ Len(Hex2(n)) = 2 /\ Hex2(n)[1] = HexDigit(h) /\ Hex2(n)[2] = HexDigit(d)
  BY <1>3
<1>5. Hex2(n) \in Seq(Nat)
  BY <1>2, <1>3
<1>6. IsInt(Hex2(n))
  BY <1>2, <1>4 DEF IsInt
<1>7. IntOf(Hex2(n)) = 16 * h + d
  BY <1>2, <1>4 DEF IntOf
<1> QED
  BY <1>1, <1>4, <1>5, <1>6, <1>7

\* A checksum makes the sum of what it is of and itself a multiple of 256.
LEMMA ChecksumCompletes ==
  ASSUME NEW s \in Seq(Nat)
  PROVE  /\ checksum(s) \in Seq(Nat) /\ Len(checksum(s)) = 2
         /\ IsInt(checksum(s)) /\ (Sum(s) + IntOf(checksum(s))) % 256 = 0
<1>1. s \in Seq(Int)
  BY SeqMonotonic
<1>2. Sum(s) \in Int
  BY <1>1, SumIsLoop, LenProperties
<1> DEFINE r == Sum(s) % 256
           c == ((255 - r) + 1) % 256
<1>3. r \in 0..255 /\ c \in 0..255 /\ (Sum(s) + c) % 256 = 0
  <2>1. PICK x, q \in Int : x = Sum(s) /\ x = 256 * q + r /\ r \in 0..255
    <3>1. PICK x \in Int : x = Sum(s)
      BY <1>2
    <3>2. x \div 256 \in Int /\ x = 256 * (x \div 256) + (x % 256) /\ x % 256 \in 0..255
      OBVIOUS
    <3> QED
      BY <3>1, <3>2
  <2> HIDE DEF r
  <2>2. CASE r = 0
    <3>1. c = 0
      BY <2>2
    <3>2. x + 0 = 256 * q
      BY <2>1, <2>2
    <3> QED
      BY <2>1, <3>1, <3>2
  <2>3. CASE r # 0
    <3>1. c = 256 - r
      BY <2>1, <2>3
    <3>2. x + c = 256 * (q + 1)
      BY <2>1, <3>1
    <3> QED
      BY <2>1, <3>1, <3>2
  <2> QED
    BY <2>2, <2>3
<1>4. checksum(s) = Hex2(c)
  BY DEF checksum
<1> HIDE DEF c
<1>5. /\ Hex2(c) \in Seq(Nat) /\ Len(Hex2(c)) = 2 /\ IsInt(Hex2(c)) /\ IntOf(Hex2(c)) = c
  <2>1. c \in 0..255
    BY <1>3, Zenon
  <2> QED
    BY <2>1, DigitsAreRead, Zenon
<1> QED
  BY <1>3, <1>4, <1>5, Zenon

LEMMA UpToLimit ==
  ASSUME NEW k \in Nat, k <= 251
  PROVE  k \in 0..251
  OBVIOUS

LEMMA NotEmpty ==
  ASSUME NEW s, Len(s) # 0
  PROVE  s # <<>>
  BY EmptySeq, Zenon

LEMMA Joined ==
  ASSUME NEW s \in Seq(Nat), NEW t \in Seq(Nat), s # <<>>, t # <<>>
  PROVE  /\ s \o t \in Seq(Nat) /\ Len(s \o t) = Len(s) + Len(t)
         /\ Len(s) \in Nat \ {0} /\ Len(t) \in Nat \ {0}
         /\ SubSeq(s \o t, 1, Len(s)) = s
         /\ SubSeq(s \o t, Len(s) + 1, Len(s) + Len(t)) = t
<1>1. Len(s) \in Nat \ {0} /\ Len(t) \in Nat \ {0}
  BY LenProperties, EmptySeq
<1>2. s \o t \in Seq(Nat) /\ Len(s \o t) = Len(s) + Len(t)
  BY ConcatProperties
<1>3. SubSeq(s \o t, 1, Len(s)) = SubSeq(s, 1, Len(s))
  BY <1>1, SubSeqOfConcat1
<1>4. SubSeq(s \o t, Len(s) + 1, Len(s) + Len(t)) = SubSeq(t, 1, Len(t))
  <2>1. (Len(s) + 1) - Len(s) = 1 /\ (Len(s) + Len(t)) - Len(s) = Len(t)
    BY <1>1
  <2>2. Len(s) + 1 \in Len(s) + 1..Len(s) + Len(t) /\ Len(s) + Len(t) \in Len(s) + 1..Len(s) + Len(t)
    BY <1>1
  <2>3. SubSeq(s \o t, Len(s) + 1, Len(s) + Len(t))
          = SubSeq(t, (Len(s) + 1) - Len(s), (Len(s) + Len(t)) - Len(s))
    BY <2>2, SubSeqOfConcat2
  <2> QED
    BY <2>1, <2>3
<1> QED
  BY <1>1, <1>2, <1>3, <1>4, SubSeqFull

\* The length, what it counts and the checksum, which make a frame.
Parts(length, rest, sum, n) ==
  /\ length \in Seq(Nat) /\ rest \in Seq(Nat) /\ sum \in Seq(Nat) /\ n \in 4..255
  /\ Len(length) = 2 /\ Len(rest) = n - 2 /\ Len(sum) = 2
  /\ IsInt(length) /\ IntOf(length) = n /\ IsInt(sum)
  /\ (Sum(length \o rest) + IntOf(sum)) % 256 = 0

Carries(m, length, rest, n) ==
  m \in Seq(Nat) /\ Len(m) = n + 2 /\ SubSeq(m, 1, 2) = length /\ IsValid(m) /\ Message(m) = rest

\* A length, a text and a sum put together are taken apart again.
LEMMA PartsOfFrame ==
  ASSUME NEW length, NEW rest, NEW sum, NEW n, Parts(length, rest, sum, n)
  PROVE  Carries(length \o rest \o sum, length, rest, n)
<1> SUFFICES ASSUME length \in Seq(Nat), rest \in Seq(Nat), sum \in Seq(Nat), n \in 4..255,
                    Len(length) = 2, Len(rest) = n - 2, Len(sum) = 2,
                    IsInt(length), IntOf(length) = n, IsInt(sum),
                    (Sum(length \o rest) + IntOf(sum)) % 256 = 0,
                    NEW m, m = length \o rest \o sum
             PROVE  Carries(m, length, rest, n)
  BY Zenon DEF Parts
<1>1. length # <<>> /\ rest # <<>> /\ sum # <<>>
  <2>1. Len(length) # 0 /\ Len(rest) # 0 /\ Len(sum) # 0
    OBVIOUS
  <2> QED
    BY <2>1, NotEmpty, Zenon
<1>2. PICK body \in Seq(Nat) : body = length \o rest
  BY ConcatProperties
<1>3. Len(body) = n /\ SubSeq(body, 1, 2) = length /\ SubSeq(body, 3, n) = rest
  <2>1. /\ Len(body) = Len(length) + Len(rest)
        /\ SubSeq(body, 1, Len(length)) = length
        /\ SubSeq(body, Len(length) + 1, Len(length) + Len(rest)) = rest
    BY <1>1, <1>2, Joined, ZenonT(60)
  <2>2. Len(length) + Len(rest) = n /\ Len(length) + 1 = 3
    OBVIOUS
  <2> QED
    BY <2>1, <2>2
<1>4. m = body \o sum /\ body # <<>>
  <2>1. Len(body) # 0
    BY <1>3
  <2> QED
    BY <1>2, <2>1, NotEmpty, Zenon
<1>5. m \in Seq(Nat) /\ Len(m) = n + 2 /\ SubSeq(m, 1, n) = body /\ SubSeq(m, n + 1, n + 2) = sum
  <2>1. /\ m \in Seq(Nat) /\ Len(m) = Len(body) + Len(sum)
        /\ SubSeq(m, 1, Len(body)) = body
        /\ SubSeq(m, Len(body) + 1, Len(body) + Len(sum)) = sum
    <3>1. /\ body \o sum \in Seq(Nat) /\ Len(body \o sum) = Len(body) + Len(sum)
          /\ SubSeq(body \o sum, 1, Len(body)) = body
          /\ SubSeq(body \o sum, Len(body) + 1, Len(body) + Len(sum)) = sum
      BY <1>1, <1>4, Joined, ZenonT(60)
    <3> QED
      BY <1>4, <3>1, Zenon
  <2> QED
    BY <1>3, <2>1
<1>6. SubSeq(m, 1, 2) = length /\ SubSeq(m, 3, n) = rest
  <2>1. 1 \in 1..Len(body) /\ 2 \in 1..Len(body) /\ 3 \in 1..Len(body) /\ n \in 1..Len(body)
    BY <1>3
  <2>2. SubSeq(m, 1, 2) = SubSeq(body, 1, 2) /\ SubSeq(m, 3, n) = SubSeq(body, 3, n)
    <3>1. SubSeq(body \o sum, 1, 2) = SubSeq(body, 1, 2)
      BY <2>1, SubSeqOfConcat1
    <3>2. SubSeq(body \o sum, 3, n) = SubSeq(body, 3, n)
      BY <2>1, SubSeqOfConcat1
    <3> QED
      BY <1>4, <3>1, <3>2, Zenon
  <2> QED
    BY <1>3, <2>2
<1>7. ~(Len(m) < 2) /\ Len(m) - 2 = n /\ Len(m) - 1 = n + 1 /\ Len(m) = n + 2
  BY <1>5
<1>8. FirstTwo(m) = length
  BY <1>6, <1>7, Zenon DEF FirstTwo
<1>9. LastTwo(m) = sum
  BY <1>5, <1>7, Zenon DEF LastTwo
<1>10. Message(m) = rest
  BY <1>6, <1>7, Zenon DEF Message
<1>11. IsValid(m)
  BY <1>2, <1>5, <1>7, <1>8, <1>9, Zenon DEF IsValid
<1> QED
  BY <1>5, <1>6, <1>10, <1>11, Zenon DEF Carries

\* m is a valid frame that carries a request of the given size.
Framed(m, request, size) ==
  /\ m \in Seq(Nat) /\ Len(m) = size + 6
  /\ SubSeq(m, 1, 2) = Hex2(size + 4)
  /\ IsValid(m) /\ Message(m) = request \o <<48, 48>>

\* What finalize builds is a frame that is valid and carries what it is given.
LEMMA FinalizedIsValid ==
  ASSUME NEW request \in Seq(Nat), NEW size \in 0..251, Len(request) = size
  PROVE  Framed(finalize(request), request, size)
<1>1. PICK m : m = finalize(request)
  OBVIOUS
<1>2. PICK n \in 4..255 : n = size + 4
  <2>1. size + 4 \in 4..255
    OBVIOUS
  <2> QED
    BY <2>1, Zenon
<1>3. PICK rest \in Seq(Nat) : rest = request \o <<48, 48>> /\ Len(rest) = n - 2
  <2>1. <<48, 48>> \in Seq(Nat) /\ Len(<<48, 48>>) = 2
    OBVIOUS
  <2>2. request \o <<48, 48>> \in Seq(Nat) /\ Len(request \o <<48, 48>>) = Len(request) + Len(<<48, 48>>)
    BY <2>1, ConcatProperties, ZenonT(60)
  <2>3. Len(request \o <<48, 48>>) = n - 2
    BY <1>2, <2>1, <2>2
  <2> QED
    BY <2>2, <2>3, Zenon
<1>4. /\ Hex2(n) \in Seq(Nat) /\ Len(Hex2(n)) = 2 /\ IsInt(Hex2(n)) /\ IntOf(Hex2(n)) = n
  <2>1. n \in 0..255
    BY <1>2
  <2> QED
    BY <2>1, DigitsAreRead, Zenon
<1>5. Hex2(n) \o rest \in Seq(Nat)
  BY <1>3, <1>4, ConcatProperties
<1>6. PICK sum \in Seq(Nat) :
        /\ sum = checksum(Hex2(n) \o rest) /\ Len(sum) = 2 /\ IsInt(sum)
        /\ (Sum(Hex2(n) \o rest) + IntOf(sum)) % 256 = 0
  BY <1>5, ChecksumCompletes, ZenonT(60)
<1>7. m = Hex2(n) \o rest \o sum
  <2>1. Len(rest) + 2 = n
    BY <1>3
  <2> QED
    BY <1>1, <1>3, <1>6, <2>1, Zenon DEF finalize
<1>8. m \in Seq(Nat) /\ Len(m) = n + 2 /\ SubSeq(m, 1, 2) = Hex2(n) /\ IsValid(m) /\ Message(m) = rest
  <2>1. Parts(Hex2(n), rest, sum, n)
    BY <1>3, <1>4, <1>6, Zenon DEF Parts
  <2>2. Carries(m, Hex2(n), rest, n)
    BY <1>7, <2>1, PartsOfFrame, Zenon
  <2> QED
    BY <2>2, Zenon DEF Carries
<1>9. m \in Seq(Nat) /\ Len(m) = size + 6 /\ SubSeq(m, 1, 2) = Hex2(size + 4)
  BY <1>2, <1>8
<1> QED
  BY <1>1, <1>3, <1>8, <1>9, Zenon DEF Framed

-----------------------------------------------------------------------------
\* What has been written is a request, framed.
WrittenInv ==
  written # <<>> => \E request \in Requests : written = write_msg(finalize(request))

\* The property is what the invariant says of the whole message.
LEMMA WrittenIsFramed == WrittenInv => RequestIsFramed
<1> SUFFICES ASSUME WrittenInv, written # <<>>, \A i \in DOMAIN written : written[i] < 128
             PROVE  \E frame : /\ frame = SubSeq(written, 1, 2 + IntOf(FirstTwo(written)))
                                /\ IsValid(frame)
                                /\ \E request \in Requests : Message(frame) = request \o <<48, 48>>
  BY DEF RequestIsFramed
<1>1. PICK request \in Requests : written = write_msg(finalize(request))
  BY DEF WrittenInv
<1>2. PICK size \in 0..251 : request \in Seq(Nat) /\ Len(request) = size
  <2>1. request \in Seq(Nat) /\ Len(request) <= 251
    BY FrameAssumption DEF Fits
  <2>2. Len(request) \in 0..251
    <3>1. PICK size \in Nat : size = Len(request) /\ size <= 251
      BY <2>1, LenProperties, Zenon
    <3>2. size \in 0..251
      BY <3>1, UpToLimit, Zenon
    <3> QED
      BY <3>1, <3>2, Zenon
  <2> QED
    BY <2>1, <2>2, Zenon
<1>3. PICK n \in 4..255 : n = size + 4
  <2>1. size + 4 \in 4..255
    OBVIOUS
  <2> QED
    BY <2>1, Zenon
<1> DEFINE m == finalize(request)
<1>4. /\ m \in Seq(Nat) /\ Len(m) = n + 2 /\ SubSeq(m, 1, 2) = Hex2(n)
      /\ IsValid(m) /\ Message(m) = request \o <<48, 48>>
  <2>1. /\ m \in Seq(Nat) /\ Len(m) = size + 6
        /\ SubSeq(m, 1, 2) = Hex2(size + 4)
        /\ IsValid(m) /\ Message(m) = request \o <<48, 48>>
    <3>1. Framed(finalize(request), request, size)
      BY <1>2, FinalizedIsValid, Zenon
    <3> QED
      BY <3>1, Zenon DEF Framed
  <2>2. size + 6 = n + 2
    BY <1>3
  <2> QED
    BY <1>3, <2>1, <2>2, Zenon
<1>5. written = write_msg(m)
  BY <1>1
<1> HIDE DEF m
<1>6. PICK bytes \in Seq(Nat) :
        /\ bytes = FlattenSeq([i \in DOMAIN m |-> Utf8(m[i])])
        /\ (\A i \in 1..Len(bytes) : bytes[i] < 128) => bytes = m
  BY <1>4, CodesFlatten, Zenon
<1>7. PICK end \in Seq(Nat) : end = checksum(m) \o <<CR, LF>> /\ end # <<>>
  <2>1. checksum(m) \in Seq(Nat) /\ Len(checksum(m)) = 2
    BY <1>4, ChecksumCompletes
  <2>2. <<CR, LF>> \in Seq(Nat) /\ Len(<<CR, LF>>) = 2
    BY DEF CR, LF
  <2>3. checksum(m) \o <<CR, LF>> \in Seq(Nat)
        /\ Len(checksum(m) \o <<CR, LF>>) = Len(checksum(m)) + Len(<<CR, LF>>)
    BY <2>1, <2>2, ConcatProperties, ZenonT(60)
  <2>4. checksum(m) \o <<CR, LF>> # <<>>
    <3>1. Len(checksum(m) \o <<CR, LF>>) = 4 /\ Len(<<>>) = 0
      BY <2>1, <2>2, <2>3, EmptySeq
    <3> QED
      BY <3>1
  <2> QED
    BY <2>3, <2>4, Zenon
<1>8. written = bytes \o end
  <2>1. written = bytes \o checksum(m) \o <<CR, LF>>
    BY <1>5, <1>6, Zenon DEF write_msg
  <2>2. checksum(m) \in Seq(Nat) /\ <<CR, LF>> \in Seq(Nat)
    BY <1>4, ChecksumCompletes DEF CR, LF
  <2>3. bytes \o checksum(m) \o <<CR, LF>> = bytes \o (checksum(m) \o <<CR, LF>>)
    BY <2>2, ConcatAssociative
  <2> QED
    BY <1>7, <2>1, <2>3, Zenon
<1>9. bytes = m
  <2>1. ASSUME NEW i \in 1..Len(bytes) PROVE bytes[i] < 128
    <3>1. i \in DOMAIN written /\ written[i] = bytes[i]
      BY <1>8, LenProperties, ConcatProperties
    <3> QED
      BY <3>1
  <2> QED
    BY <1>6, <2>1
<1>10. /\ written \in Seq(Nat) /\ Len(written) >= n + 2 /\ m # <<>>
      /\ SubSeq(written, 1, n + 2) = m
  <2>1. m # <<>>
    <3>1. Len(m) # 0
      BY <1>4
    <3> QED
      BY <3>1, NotEmpty, Zenon
  <2>2. /\ written \in Seq(Nat) /\ Len(written) = Len(m) + Len(end) /\ Len(end) \in Nat \ {0}
        /\ SubSeq(written, 1, Len(m)) = m
    BY <1>4, <1>7, <1>8, <1>9, <2>1, Joined, Zenon
  <2> QED
    BY <1>4, <2>1, <2>2
<1>11. FirstTwo(written) = Hex2(n)
  <2>1. 1 \in 1..Len(m) /\ 2 \in 1..Len(m) /\ ~(Len(written) < 2)
    BY <1>4, <1>10, LenProperties
  <2>2. SubSeq(written, 1, 2) = SubSeq(m, 1, 2)
    BY <1>4, <1>7, <1>8, <1>9, <2>1, SubSeqOfConcat1, ZenonT(60)
  <2> QED
    BY <1>4, <2>1, <2>2, Zenon DEF FirstTwo
<1>12. 2 + IntOf(FirstTwo(written)) = n + 2
  <2>1. n \in 0..255 /\ 2 + n = n + 2
    OBVIOUS
  <2>2. IntOf(Hex2(n)) = n
    BY <2>1, DigitsAreRead, Zenon
  <2> QED
    BY <1>11, <2>1, <2>2, Zenon
<1>13. m = SubSeq(written, 1, 2 + IntOf(FirstTwo(written)))
  BY <1>10, <1>12, Zenon
<1> QED
  BY <1>4, <1>13, Zenon

\* For any requests of less than 252 characters: what the connection writes for
\* a request of ASCII characters begins with a valid frame that carries it.
THEOREM RequestsAreFramed == FrameSpec => []RequestIsFramed
<1>1. FrameInit => WrittenInv
  BY DEF FrameInit, WrittenInv
<1>2. WrittenInv /\ [FrameNext]_frameVars => WrittenInv'
  BY DEF WrittenInv, FrameNext, Say, Corrupt, Read, Write, frameVars
<1> QED
  BY <1>1, <1>2, WrittenIsFramed, PTL DEF FrameSpec

-----------------------------------------------------------------------------
(***************************************************************************)
(* One changed character.                                                  *)
(***************************************************************************)

\* A loop that starts and goes on like another computes the same.
Alike(g, h, n) == g[0] = h[0] /\ \A i \in 1..n : g[i - 1] = h[i - 1] => g[i] = h[i]

\* Two runs of the same steps are the same.
LEMMA LoopsAgree ==
  ASSUME NEW n \in Nat, NEW g, NEW h, Alike(g, h, n)
  PROVE  \A i \in 0..n : g[i] = h[i]
<1> DEFINE T == {i \in 0..n : g[i] = h[i]}
<1>1. 0 \in T
  BY DEF Alike
<1>2. ASSUME NEW i \in 1..n, i - 1 \in T PROVE i \in T
  BY <1>2 DEF Alike
<1>3. 0..n \subseteq T
  <2> HIDE DEF T
  <2> QED
    BY <1>1, <1>2, InductionUpTo
<1> QED
  BY <1>3

\* Changing one term changes the sum by as much.
LEMMA SumOfChanged ==
  ASSUME NEW s \in Seq(Int), NEW i \in 1..Len(s), NEW c \in Int
  PROVE  Sum(s) \in Int /\ Sum([s EXCEPT ![i] = c]) = Sum(s) + c - s[i]
<1> DEFINE t == [s EXCEPT ![i] = c]
           n == Len(s)
<1>1. n \in Nat /\ DOMAIN s = 1..n /\ \A j \in 1..n : s[j] \in Int
  BY LenProperties, ElementOfSeq
<1>2. t \in Seq(Int) /\ Len(t) = n /\ \A j \in 1..n : t[j] = IF j = i THEN c ELSE s[j]
  BY <1>1, ExceptSeq
<1>3. PICK g \in [0..n -> Int] : Sum(s) = g[n] /\ \A j \in 0..n : g[j] = IF j = 0 THEN 0 ELSE g[j - 1] + s[j]
  BY SumIsLoop
<1>4. PICK h \in [0..n -> Int] : Sum(t) = h[n] /\ \A j \in 0..n : h[j] = IF j = 0 THEN 0 ELSE h[j - 1] + t[j]
  <2> HIDE DEF t, n
  <2>1. t \in Seq(Int) /\ Len(t) = n
    BY <1>2
  <2> QED
    BY <2>1, SumIsLoop
<1> HIDE DEF t
<1> DEFINE d == c - s[i]
           T == {k \in 0..n : h[k] = g[k] + (IF k >= i THEN d ELSE 0)}
<1>5. i \in 1..n /\ s[i] \in Int /\ d \in Int
  BY <1>1
<1> HIDE DEF n
<1>6. 0 \in T
  <2>1. 0 \in 0..n /\ g[0] = 0 /\ h[0] = 0
    <3>1. 0 \in 0..n
      BY <1>1
    <3> QED
      BY <1>3, <1>4, <3>1
  <2>2. ~(0 >= i)
    BY <1>1, <1>5
  <2> QED
    BY <2>1, <2>2
<1>7. ASSUME NEW k \in 1..n, k - 1 \in T PROVE k \in T
  <2>1. /\ k - 1 \in 0..n /\ k # 0 /\ g[k] = g[k - 1] + s[k] /\ h[k] = h[k - 1] + t[k]
        /\ g[k - 1] \in Int /\ s[k] \in Int
    <3>1. k - 1 \in 0..n /\ k \in 0..n /\ k # 0
      BY <1>1
    <3> QED
      BY <1>1, <1>3, <1>4, <3>1, Zenon
  <2>2. h[k - 1] = g[k - 1] + (IF k - 1 >= i THEN d ELSE 0)
    BY <1>7
  <2>3. CASE k = i
    <3>1. t[k] = c /\ ~(k - 1 >= i) /\ k >= i
      BY <1>2, <1>5, <2>3
    <3> QED
      BY <1>5, <2>1, <2>2, <2>3, <3>1
  <2>4. CASE k # i
    <3>1. k - 1 >= i <=> k >= i
      BY <1>1, <1>5, <2>4
    <3>2. k \in 1..n
      BY <1>7
    <3>3. t[k] = s[k]
      BY <1>2, <2>4, <3>2, Zenon
    <3> QED
      BY <1>5, <2>1, <2>2, <3>1, <3>3
  <2> QED
    BY <2>3, <2>4
<1>8. n \in T
  <2>1. 0..n \subseteq T
    <3> HIDE DEF T
    <3> QED
      BY <1>1, <1>6, <1>7, InductionUpTo
  <2> QED
    BY <1>1, <2>1
<1>9. Sum(s) \in Int /\ Sum(t) = Sum(s) + d
  BY <1>1, <1>3, <1>4, <1>5, <1>8
<1> QED
  BY <1>9, <1>5 DEF t

\* What Python reads as a number has a value.
LEMMA IntIsNumber ==
  ASSUME NEW chars \in Seq(Nat), IsInt(chars)
  PROVE  IntOf(chars) \in Int
<1>1. ASSUME NEW x, IsHex(x) PROVE HexValue(x) \in Int /\ x # 45
  <2>1. CASE x \in 48..57
    <3>1. x \notin 65..70 /\ x \notin 97..102 /\ x - 48 \in Int /\ x # 45
      BY <2>1
    <3>2. HexValue(x) = x - 48
      BY <2>1, <3>1, Zenon DEF HexValue
    <3> QED
      BY <3>1, <3>2
  <2>2. CASE x \in 65..70
    <3>1. x \notin 48..57 /\ x \notin 97..102 /\ x - 55 \in Int /\ x # 45
      BY <2>2
    <3>2. HexValue(x) = x - 55
      BY <2>2, <3>1, Zenon DEF HexValue
    <3> QED
      BY <3>1, <3>2
  <2>3. CASE x \in 97..102
    <3>1. x \notin 48..57 /\ x \notin 65..70 /\ x - 87 \in Int /\ x # 45
      BY <2>3
    <3>2. HexValue(x) = x - 87
      BY <2>3, <3>1, Zenon DEF HexValue
    <3> QED
      BY <3>1, <3>2
  <2> QED
    BY <1>1, <2>1, <2>2, <2>3 DEF IsHex
<1>2. CASE Len(chars) = 1 /\ IsHex(chars[1])
  BY <1>1, <1>2 DEF IntOf
<1>3. CASE Len(chars) = 2 /\ IsHex(chars[2])
  BY <1>1, <1>3 DEF IntOf
<1>4. CASE Len(chars) = 2 /\ IsHex(chars[1])
  BY <1>1, <1>4 DEF IntOf
<1> QED
  BY <1>2, <1>3, <1>4 DEF IsInt

\* Two numbers that are below 256 and complete the same sum are one.
LEMMA SameRemainder ==
  ASSUME NEW a \in Int, NEW x \in 0..255, NEW y \in 0..255, (a + x) % 256 = 0, (a + y) % 256 = 0
  PROVE  x = y
<1>1. PICK p, q \in Int : a + x = 256 * p /\ a + y = 256 * q
  OBVIOUS
<1>2. x - y = 256 * (p - q)
  BY <1>1
<1>3. p - q < 1 /\ p - q > -1
  BY <1>2
<1>4. p - q = 0
  BY <1>3
<1> QED
  BY <1>2, <1>4

\* What follows of a valid frame's characters.
LEMMA BodyCompletes ==
  ASSUME NEW frame \in Seq(Int), NEW n, Len(frame) = n, IsValid(frame), n \in Nat, n > 2
  PROVE  /\ IsInt(SubSeq(frame, n - 1, n))
         /\ (Sum(SubSeq(frame, 1, n - 2)) + IntOf(SubSeq(frame, n - 1, n))) % 256 = 0
  BY DEF IsValid, LastTwo

\* Of the characters that a frame counts, one that changes makes the frame
\* invalid.  The read stream decodes ISO-8859-1: a character is a byte.
LEMMA OneChangeInBody ==
  ASSUME NEW frame \in Seq(0..255), NEW n \in Nat, Len(frame) = n, NEW i \in 1..n - 2, NEW c \in 0..255,
         IsValid(frame), IsValid([frame EXCEPT ![i] = c])
  PROVE  c = frame[i]
<1> DEFINE changed == [frame EXCEPT ![i] = c]
<1>1. n > 2 /\ i \in 1..n
  OBVIOUS
<1>2. frame \in Seq(Int) /\ frame \in Seq(Nat) /\ \A j \in 1..n : frame[j] \in 0..255
  <2>1. 0..255 \subseteq Nat /\ 0..255 \subseteq Int
    OBVIOUS
  <2>2. frame \in Seq(Int) /\ frame \in Seq(Nat)
    BY <2>1, SeqMonotonic, Zenon
  <2> QED
    BY <2>2, ElementOfSeq, Zenon
<1>3. changed \in Seq(Int) /\ Len(changed) = n /\ \A j \in 1..n : changed[j] = IF j = i THEN c ELSE frame[j]
  BY <1>1, <1>2, ExceptSeq
<1> DEFINE body == SubSeq(frame, 1, n - 2)
           sum  == SubSeq(frame, n - 1, n)
<1>4. /\ body \in Seq(Int) /\ Len(body) = n - 2 /\ \A j \in 1..n - 2 : body[j] = frame[j]
  BY <1>1, <1>2, SubSeqProperties
<1>5. SubSeq(changed, n - 1, n) = sum
  <2> HIDE DEF changed
  <2>1. \A j \in n - 1..n : changed[j] = frame[j]
    BY <1>1, <1>3
  <2> QED
    BY <1>1, <1>2, <1>3, <2>1
<1>6. SubSeq(changed, 1, n - 2) = [body EXCEPT ![i] = c]
  <2> DEFINE u == SubSeq(changed, 1, n - 2)
             v == [body EXCEPT ![i] = c]
  <2>1. u \in Seq(Int) /\ Len(u) = n - 2 /\ \A j \in 1..n - 2 : u[j] = changed[j]
    <3> HIDE DEF changed
    <3> QED
      BY <1>1, <1>3, SubSeqProperties
  <2>2. v \in Seq(Int) /\ Len(v) = n - 2 /\ \A j \in 1..n - 2 : v[j] = IF j = i THEN c ELSE body[j]
    <3> HIDE DEF body
    <3> QED
      BY <1>1, <1>4, ExceptSeq
  <2>3. \A j \in 1..n - 2 : u[j] = v[j]
    BY <1>1, <1>3, <1>4, <2>1, <2>2
  <2> HIDE DEF u, v
  <2>4. u = v
    BY <2>1, <2>2, <2>3, SeqEqual
  <2> QED
    BY <2>4 DEF u, v
<1>7. IsInt(sum) /\ (Sum(body) + IntOf(sum)) % 256 = 0
  BY <1>1, <1>2, BodyCompletes
<1>8. (Sum([body EXCEPT ![i] = c]) + IntOf(sum)) % 256 = 0
  <2> HIDE DEF changed, body, sum
  <2>1. IsValid(changed)
    BY DEF changed
  <2>2. (Sum(SubSeq(changed, 1, n - 2)) + IntOf(SubSeq(changed, n - 1, n))) % 256 = 0
    BY <1>1, <1>3, <2>1, BodyCompletes
  <2> QED
    BY <1>5, <1>6, <2>2, Zenon
<1>9. IntOf(sum) \in Int
  <2>1. sum \in Seq(Nat)
    BY <1>1, <1>2, SubSeqProperties
  <2> HIDE DEF sum
  <2> QED
    BY <1>7, <2>1, IntIsNumber
<1>10. Sum(body) \in Int /\ Sum([body EXCEPT ![i] = c]) = Sum(body) + c - body[i]
  <2>1. body \in Seq(Int) /\ i \in 1..Len(body) /\ c \in Int
    <3> HIDE DEF body
    <3> QED
      BY <1>4
  <2> HIDE DEF body
  <2> QED
    BY <2>1, SumOfChanged, Zenon
<1>11. PICK a \in Int : a = (Sum(body) + IntOf(sum)) - frame[i]
  <2>1. frame[i] \in Int
    BY <1>1, <1>2
  <2> HIDE DEF body, sum
  <2>2. (Sum(body) + IntOf(sum)) - frame[i] \in Int
    BY <1>9, <1>10, <2>1
  <2> QED
    BY <2>2, Zenon
<1>12. (a + frame[i]) % 256 = 0 /\ (a + c) % 256 = 0 /\ frame[i] \in 0..255
  <2> HIDE DEF body, sum
  <2>1. frame[i] \in 0..255 /\ body[i] = frame[i]
    BY <1>1, <1>2, <1>4
  <2>2. a + frame[i] = Sum(body) + IntOf(sum) /\ a + c = (Sum(body) + c - body[i]) + IntOf(sum)
    <3>1. PICK x, y \in Int : x = Sum(body) /\ y = IntOf(sum)
      BY <1>9, <1>10, Zenon
    <3>2. PICK z \in Int : z = frame[i] /\ z = body[i]
      BY <2>1
    <3>3. a = (x + y) - z
      BY <1>11, <3>1, <3>2, Zenon
    <3>4. a + z = x + y /\ a + c = (x + c - z) + y
      BY <3>3
    <3> QED
      BY <3>1, <3>2, <3>4, Zenon
  <2> QED
    BY <1>7, <1>8, <1>10, <2>1, <2>2
<1> HIDE DEF body, sum
<1>13. c = frame[i]
  <2>1. PICK z \in 0..255 : z = frame[i] /\ (a + z) % 256 = 0
    BY <1>12, Zenon
  <2>2. a \in Int /\ c \in 0..255 /\ (a + c) % 256 = 0
    BY <1>11, <1>12, Zenon
  <2>3. c = z
    BY <2>1, <2>2, SameRemainder, ZenonT(40)
  <2> QED
    BY <2>1, <2>3, Zenon
<1> QED
  BY <1>13

\* Length and checksum catch a character that is corrupted, unless it is one of
\* the checksum's own: a frame that stays valid carries the same message.
THEOREM OneChangeIsCaught ==
  ASSUME NEW frame \in Seq(0..255), NEW i \in 1..Len(frame), NEW c \in 0..255,
         IsValid(frame), IsValid([frame EXCEPT ![i] = c])
  PROVE  Message([frame EXCEPT ![i] = c]) = Message(frame)
<1> DEFINE changed == [frame EXCEPT ![i] = c]
<1>1. PICK n \in Nat : n = Len(frame)
  BY LenProperties
<1>2. /\ changed \in Seq(0..255) /\ Len(changed) = n /\ i \in 1..n
      /\ \A j \in 1..n : changed[j] = IF j = i THEN c ELSE frame[j]
  BY <1>1, ExceptSeq
<1>3. CASE i \in 1..n - 2
  <2>1. c = frame[i]
    BY <1>1, <1>3, OneChangeInBody
  <2>2. changed = frame
    BY <1>1, <1>2, <2>1
  <2> QED
    BY <2>2
<1>4. CASE i \notin 1..n - 2
  <2> HIDE DEF changed
  <2>1. \A j \in 3..n - 2 : changed[j] = frame[j]
    BY <1>2, <1>4
  <2>2. SubSeq(changed, 3, n - 2) = SubSeq(frame, 3, n - 2)
    BY <1>1, <1>2, <2>1
  <2> QED
    BY <1>1, <1>2, <2>2 DEF Message, changed
<1> QED
  BY <1>3, <1>4

-----------------------------------------------------------------------------
(***************************************************************************)
(* Cutting a text into frames, a character at a time.                      *)
(***************************************************************************)

Texts  == Seq(Nat)
FrameLists == Seq(Texts)
Cuts   == [frames : FrameLists, rest : Texts]
NoCut  == [frames |-> <<>>, rest |-> <<>>]

\* Induction along a sequence, over a set of sequences instead of a predicate.
LEMMA InductionAlong ==
  ASSUME NEW S, NEW s \in Seq(S), NEW T, <<>> \in T,
         \A p \in Seq(S), c \in S : p \in T => Append(p, c) \in T
  PROVE  s \in T
<1>1. PICK n \in Nat : n = Len(s)
  BY LenProperties
<1> DEFINE U == {k \in 0..n : SubSeq(s, 1, k) \in T}
<1>2. 0 \in U
  <2>1. SubSeq(s, 1, 0) = <<>>
    BY SubSeqEmpty
  <2>2. 0 \in 0..n
    BY <1>1
  <2> QED
    BY <2>1, <2>2, Zenon
<1>3. ASSUME NEW k \in 1..n, k - 1 \in U PROVE k \in U
  <2>1. s[k] \in S
    BY <1>1, ElementOfSeq
  <2>2. SubSeq(s, 1, k - 1) \in Seq(S)
    <3>1. \A i \in 1..k - 1 : s[i] \in S
      BY <1>1, ElementOfSeq
    <3>2. k - 1 \in Int
      OBVIOUS
    <3> QED
      BY <3>1, <3>2, SubSeqProperties
  <2>3. SubSeq(s, 1, k) = SubSeq(s, 1, k - 1) \o <<s[k]>>
    <3>1. 1 \in 1..Len(s) /\ k \in 1..Len(s)
      BY <1>1
    <3> QED
      BY <3>1, SubSeqRecursiveSecond
  <2>4. SubSeq(s, 1, k) = Append(SubSeq(s, 1, k - 1), s[k])
    BY <2>1, <2>2, <2>3, AppendIsConcat
  <2>5. SubSeq(s, 1, k) \in T
    BY <1>3, <2>1, <2>2, <2>4
  <2> QED
    BY <2>5
<1>4. n \in U
  <2>1. 0..n \subseteq U
    <3> HIDE DEF U
    <3> QED
      BY <1>1, <1>2, <1>3, InductionUpTo
  <2> QED
    BY <1>1, <2>1
<1>5. SubSeq(s, 1, n) = s
  BY <1>1, SubSeqFull
<1> QED
  BY <1>4, <1>5

LEMMA AppendToConcat ==
  ASSUME NEW S, NEW s \in Seq(S), NEW t \in Seq(S), NEW c \in S
  PROVE  s \o Append(t, c) = Append(s \o t, c)
<1>1. <<c>> \in Seq(S)
  OBVIOUS
<1>2. s \o t \in Seq(S)
  BY ConcatProperties
<1>3. Append(t, c) = t \o <<c>> /\ Append(s \o t, c) = (s \o t) \o <<c>>
  BY <1>2, AppendIsConcat
<1>4. (s \o t) \o <<c>> = s \o (t \o <<c>>)
  BY <1>1, ConcatAssociative
<1> QED
  BY <1>3, <1>4

\* One more character leaves frames and a rest.
LEMMA CutType ==
  ASSUME NEW before \in Cuts, NEW c \in Nat
  PROVE  Cut(before, c) \in Cuts
<1>1. before.frames \in FrameLists /\ before.rest \in Texts
  BY DEF Cuts
<1>2. Append(before.rest, c) \in Texts /\ Append(before.frames, before.rest) \in FrameLists /\ <<>> \in Texts
  BY <1>1 DEF FrameLists, Texts
<1>3. CASE c \notin {CR, LF}
  BY <1>2, <1>3 DEF Cut, Cuts
<1>4. CASE c \in {CR, LF}
  BY <1>1, <1>2, <1>4 DEF Cut, Cuts
<1> QED
  BY <1>3, <1>4

\* extract_frames goes through its text.
LEMMA ExtractIsLoop ==
  ASSUME NEW text \in Texts
  PROVE  \E g \in [0..Len(text) -> Cuts] :
           /\ extract_frames(text) = g[Len(text)]
           /\ g[0] = NoCut
           /\ \A i \in 1..Len(text) : g[i] = Cut(g[i - 1], text[i])
<1>1. PICK n \in Nat : n = Len(text)
  BY LenProperties DEF Texts
<1>2. \A i \in 1..n : text[i] \in Nat
  BY <1>1, ElementOfSeq DEF Texts
<1> DEFINE step == [i \in 1..n |-> [x \in Cuts |-> Cut(x, text[i])]]
           E(g) == g = [i \in 0..n |-> IF i = 0 THEN NoCut ELSE Cut(g[i - 1], text[i])]
           c == CHOOSE g : E(g)
<1>3. step \in [1..n -> [Cuts -> Cuts]] /\ NoCut \in Cuts
  <2>1. NoCut \in Cuts
    BY DEF NoCut, Cuts, FrameLists, Texts
  <2> QED
    BY <1>2, <2>1, CutType
<1>4. PICK g \in [0..n -> Cuts] : Rounds(g, n, NoCut, step)
  <2> HIDE DEF step
  <2> QED
    BY <1>3, LoopRuns, Zenon
<1>5. E(g)
  <2>1. ASSUME NEW i \in 1..n PROVE step[i][g[i - 1]] = Cut(g[i - 1], text[i])
    <3>1. g[i - 1] \in Cuts
      BY <1>4
    <3> QED
      BY <3>1
  <2>2. g = [i \in 0..n |-> IF i = 0 THEN NoCut ELSE step[i][g[i - 1]]]
    BY <1>4, Zenon DEF Rounds
  <2> HIDE DEF step
  <2>3. [i \in 0..n |-> IF i = 0 THEN NoCut ELSE step[i][g[i - 1]]]
          = [i \in 0..n |-> IF i = 0 THEN NoCut ELSE Cut(g[i - 1], text[i])]
    BY <2>1
  <2> QED
    BY <2>2, <2>3, Zenon
<1>6. E(c)
  <2> HIDE DEF step
  <2> QED
    BY <1>5, Zenon
<1>7. extract_frames(text) = c[n]
  BY <1>1 DEF extract_frames, NoCut
<1> HIDE DEF c
<1>8. /\ c[0] = NoCut /\ \A i \in 1..n : c[i] = Cut(c[i - 1], text[i])
      /\ c = [i \in 0..n |-> c[i]]
  BY <1>6
<1>9. \A i \in 0..n : c[i] \in Cuts
  <2> DEFINE T == {i \in 0..n : c[i] \in Cuts}
  <2>1. 0 \in T
    BY <1>3, <1>8
  <2>2. ASSUME NEW i \in 1..n, i - 1 \in T PROVE i \in T
    <3>1. c[i] = Cut(c[i - 1], text[i]) /\ c[i - 1] \in Cuts /\ text[i] \in Nat
      BY <1>2, <1>8, <2>2, Zenon
    <3>2. c[i] \in Cuts
      BY <3>1, CutType, Zenon
    <3> QED
      BY <1>1, <3>2
  <2>3. 0..n \subseteq T
    <3> HIDE DEF T
    <3> QED
      BY <2>1, <2>2, InductionUpTo
  <2> QED
    BY <2>3
<1>10. c \in [0..n -> Cuts]
  BY <1>8, <1>9
<1> QED
  BY <1>1, <1>7, <1>8, <1>10

\* What a longer text adds.
LEMMA ExtractAppend ==
  ASSUME NEW text \in Texts, NEW x \in Nat
  PROVE  /\ extract_frames(text) \in Cuts
         /\ extract_frames(Append(text, x)) = Cut(extract_frames(text), x)
<1>1. PICK n \in Nat : n = Len(text)
  BY LenProperties DEF Texts
<1>2. PICK longer \in Texts : longer = Append(text, x)
  BY AppendProperties DEF Texts
<1>3. Len(longer) = n + 1 /\ longer[n + 1] = x /\ \A i \in 1..n : longer[i] = text[i]
  BY <1>1, <1>2, AppendProperties DEF Texts
<1>4. PICK g \in [0..n -> Cuts] :
        extract_frames(text) = g[n] /\ g[0] = NoCut /\ \A i \in 1..n : g[i] = Cut(g[i - 1], text[i])
  BY <1>1, ExtractIsLoop
<1>5. PICK h \in [0..n + 1 -> Cuts] :
        extract_frames(longer) = h[n + 1] /\ h[0] = NoCut /\ \A i \in 1..n + 1 : h[i] = Cut(h[i - 1], longer[i])
  <2>1. \E h \in [0..Len(longer) -> Cuts] :
        extract_frames(longer) = h[Len(longer)] /\ h[0] = NoCut /\ \A i \in 1..Len(longer) : h[i] = Cut(h[i - 1], longer[i])
    BY ExtractIsLoop, Zenon
  <2> QED
    BY <1>3, <2>1
<1>6. \A i \in 0..n : g[i] = h[i]
  <2>1. \A i \in 1..n : g[i - 1] = h[i - 1] => g[i] = h[i]
    <3>1. \A i \in 1..n : i \in 1..n + 1 /\ longer[i] = text[i]
      BY <1>3
    <3> QED
      BY <1>4, <1>5, <3>1, Zenon
  <2>2. g[0] = h[0]
    BY <1>4, <1>5, Zenon
  <2>3. Alike(g, h, n)
    BY <2>1, <2>2, Zenon DEF Alike
  <2> QED
    BY <1>1, <2>3, LoopsAgree
<1>7. h[n + 1] = Cut(h[n], x)
  <2>1. n + 1 \in 1..n + 1 /\ (n + 1) - 1 = n
    OBVIOUS
  <2> QED
    BY <1>3, <1>5, <2>1, Zenon
<1>8. n \in 0..n
  OBVIOUS
<1> QED
  BY <1>2, <1>4, <1>5, <1>6, <1>7, <1>8, Zenon

LEMMA ExtractNothing == extract_frames(<<>>) = NoCut
<1>1. <<>> \in Texts /\ Len(<<>>) = 0
  BY EmptySeq DEF Texts
<1> QED
  BY <1>1, ExtractIsLoop

-----------------------------------------------------------------------------
(***************************************************************************)
(* Dispatching frames, one at a time.                                      *)
(***************************************************************************)

\* What the read stream adds to what it has heard for one more frame.
Hears(before, frame) == IF IsDispatched(frame) THEN Append(before, Message(frame)) ELSE before

\* The message in a text is a text.
LEMMA MessageType ==
  ASSUME NEW frame \in Texts
  PROVE  Message(frame) \in Texts
<1>1. PICK n \in Nat : n = Len(frame)
  BY LenProperties DEF Texts
<1>2. 3 \in Int /\ n - 2 \in Int /\ \A i \in 3..n - 2 : frame[i] \in Nat
  BY <1>1, ElementOfSeq DEF Texts
<1>3. SubSeq(frame, 3, n - 2) \in Texts
  BY <1>2, SubSeqProperties DEF Texts
<1> QED
  BY <1>1, <1>3, Zenon DEF Message

LEMMA HearsType ==
  ASSUME NEW before \in FrameLists, NEW frame \in Texts
  PROVE  Hears(before, frame) \in FrameLists
<1>1. Append(before, Message(frame)) \in FrameLists
  BY MessageType, AppendProperties DEF FrameLists
<1> QED
  BY <1>1, Zenon DEF Hears

\* Dispatch goes through its frames.
LEMMA DispatchIsLoop ==
  ASSUME NEW frames \in FrameLists
  PROVE  \E g \in [0..Len(frames) -> FrameLists] :
           /\ Dispatch(frames) = g[Len(frames)]
           /\ g[0] = <<>>
           /\ \A i \in 1..Len(frames) : g[i] = Hears(g[i - 1], frames[i])
<1>1. PICK n \in Nat : n = Len(frames)
  BY LenProperties DEF FrameLists
<1>2. \A i \in 1..n : frames[i] \in Texts
  BY <1>1, ElementOfSeq DEF FrameLists
<1> DEFINE step == [i \in 1..n |-> [x \in FrameLists |-> Hears(x, frames[i])]]
           E(g) == g = [i \in 0..n |-> IF i = 0 THEN <<>> ELSE Hears(g[i - 1], frames[i])]
           F(g) == g = [i \in 0..n |->
                          IF i = 0 THEN <<>>
                          ELSE IF \E frame \in {frames[i]} : IsDispatched(frame)
                                 THEN Append(g[i - 1], Message(frames[i])) ELSE g[i - 1]]
           c == CHOOSE g : F(g)
<1>3. step \in [1..n -> [FrameLists -> FrameLists]] /\ <<>> \in FrameLists
  <2>1. <<>> \in FrameLists
    BY DEF FrameLists
  <2> QED
    BY <1>2, <2>1, HearsType
<1>4. PICK g \in [0..n -> FrameLists] : Rounds(g, n, <<>>, step)
  <2> HIDE DEF step
  <2> QED
    BY <1>3, LoopRuns, Zenon
<1>5. E(g)
  <2>1. ASSUME NEW i \in 1..n PROVE step[i][g[i - 1]] = Hears(g[i - 1], frames[i])
    <3>1. g[i - 1] \in FrameLists
      BY <1>4
    <3> QED
      BY <3>1
  <2>2. g = [i \in 0..n |-> IF i = 0 THEN <<>> ELSE step[i][g[i - 1]]]
    BY <1>4, Zenon DEF Rounds
  <2> HIDE DEF step
  <2>3. [i \in 0..n |-> IF i = 0 THEN <<>> ELSE step[i][g[i - 1]]]
          = [i \in 0..n |-> IF i = 0 THEN <<>> ELSE Hears(g[i - 1], frames[i])]
    BY <2>1
  <2> QED
    BY <2>2, <2>3, Zenon
<1>6. \A x : F(x) <=> E(x)
  <2>1. \A x, i : (IF \E frame \in {frames[i]} : IsDispatched(frame)
                     THEN Append(x, Message(frames[i])) ELSE x) = Hears(x, frames[i])
    BY DEF Hears
  <2>2. ASSUME NEW x
        PROVE  [i \in 0..n |->
                  IF i = 0 THEN <<>>
                  ELSE IF \E frame \in {frames[i]} : IsDispatched(frame)
                         THEN Append(x[i - 1], Message(frames[i])) ELSE x[i - 1]]
                 = [i \in 0..n |-> IF i = 0 THEN <<>> ELSE Hears(x[i - 1], frames[i])]
    BY <2>1
  <2> QED
    BY <2>2, Zenon
<1>7. Dispatch(frames) = c[n]
  BY <1>1 DEF Dispatch
<1>8. E(c)
  <2> HIDE DEF step, E, F
  <2>1. F(g)
    BY <1>5, <1>6, Zenon
  <2>2. F(c)
    BY <2>1, Zenon
  <2> QED
    BY <1>6, <2>2, Zenon
<1> HIDE DEF c, step, F
<1>9. /\ c[0] = <<>> /\ \A i \in 1..n : c[i] = Hears(c[i - 1], frames[i])
      /\ c = [i \in 0..n |-> c[i]]
  <2>1. c = [i \in 0..n |-> IF i = 0 THEN <<>> ELSE Hears(c[i - 1], frames[i])]
    BY <1>8, Zenon
  <2>2. 0 \in 0..n /\ \A i \in 1..n : i \in 0..n /\ i # 0
    OBVIOUS
  <2>3. \A i \in 0..n : c[i] = IF i = 0 THEN <<>> ELSE Hears(c[i - 1], frames[i])
    BY <2>1, Zenon
  <2>4. c = [i \in 0..n |-> c[i]]
    BY <2>1, Zenon
  <2>5. \A i \in 1..n : c[i] = Hears(c[i - 1], frames[i])
    BY <2>2, <2>3, Zenon
  <2>6. c[0] = <<>>
    BY <2>2, <2>3, Zenon
  <2> QED
    BY <2>4, <2>5, <2>6
<1>10. \A i \in 0..n : c[i] \in FrameLists
  <2> DEFINE T == {i \in 0..n : c[i] \in FrameLists}
  <2>1. 0 \in T
    BY <1>3, <1>9
  <2>2. ASSUME NEW i \in 1..n, i - 1 \in T PROVE i \in T
    <3>1. c[i] = Hears(c[i - 1], frames[i]) /\ c[i - 1] \in FrameLists /\ frames[i] \in Texts
      BY <1>2, <1>9, <2>2, Zenon
    <3>2. c[i] \in FrameLists
      BY <3>1, HearsType, Zenon
    <3> QED
      BY <1>1, <3>2
  <2>3. 0..n \subseteq T
    <3> HIDE DEF T
    <3> QED
      BY <2>1, <2>2, InductionUpTo
  <2> QED
    BY <2>3
<1>11. c \in [0..n -> FrameLists]
  BY <1>9, <1>10
<1> QED
  BY <1>1, <1>7, <1>9, <1>11

\* Frames are dispatched one after the other.
LEMMA DispatchAppend ==
  ASSUME NEW frames \in FrameLists, NEW x \in Texts
  PROVE  /\ Dispatch(frames) \in FrameLists
         /\ Dispatch(Append(frames, x)) = Hears(Dispatch(frames), x)
<1>1. PICK n \in Nat : n = Len(frames)
  BY LenProperties DEF FrameLists
<1>2. PICK longer \in FrameLists : longer = Append(frames, x)
  BY AppendProperties DEF FrameLists
<1>3. Len(longer) = n + 1 /\ longer[n + 1] = x /\ \A i \in 1..n : longer[i] = frames[i]
  BY <1>1, <1>2, AppendProperties DEF FrameLists
<1>4. PICK g \in [0..n -> FrameLists] :
        Dispatch(frames) = g[n] /\ g[0] = <<>> /\ \A i \in 1..n : g[i] = Hears(g[i - 1], frames[i])
  BY <1>1, DispatchIsLoop
<1>5. PICK h \in [0..n + 1 -> FrameLists] :
        Dispatch(longer) = h[n + 1] /\ h[0] = <<>> /\ \A i \in 1..n + 1 : h[i] = Hears(h[i - 1], longer[i])
  <2>1. \E h \in [0..Len(longer) -> FrameLists] :
        Dispatch(longer) = h[Len(longer)] /\ h[0] = <<>> /\ \A i \in 1..Len(longer) : h[i] = Hears(h[i - 1], longer[i])
    BY DispatchIsLoop, Zenon
  <2> QED
    BY <1>3, <2>1
<1>6. \A i \in 0..n : g[i] = h[i]
  <2>1. \A i \in 1..n : g[i - 1] = h[i - 1] => g[i] = h[i]
    <3>1. \A i \in 1..n : i \in 1..n + 1 /\ longer[i] = frames[i]
      BY <1>3
    <3> QED
      BY <1>4, <1>5, <3>1, Zenon
  <2>2. g[0] = h[0]
    BY <1>4, <1>5, Zenon
  <2>3. Alike(g, h, n)
    BY <2>1, <2>2, Zenon DEF Alike
  <2> QED
    BY <1>1, <2>3, LoopsAgree
<1>7. h[n + 1] = Hears(h[n], x)
  <2>1. n + 1 \in 1..n + 1 /\ (n + 1) - 1 = n
    OBVIOUS
  <2> QED
    BY <1>3, <1>5, <2>1, Zenon
<1>8. n \in 0..n
  OBVIOUS
<1> QED
  BY <1>2, <1>4, <1>5, <1>6, <1>7, <1>8, Zenon

LEMMA DispatchNothing == Dispatch(<<>>) = <<>>
<1>1. <<>> \in FrameLists /\ Len(<<>>) = 0
  BY EmptySeq DEF FrameLists
<1> QED
  BY <1>1, DispatchIsLoop

\* The frames of two batches are heard one batch after the other.
LEMMA DispatchMore ==
  ASSUME NEW first \in FrameLists, NEW second \in FrameLists
  PROVE  Dispatch(first \o second) = Dispatch(first) \o Dispatch(second)
<1> DEFINE T == {p \in FrameLists : Dispatch(first \o p) = Dispatch(first) \o Dispatch(p)}
<1>1. Dispatch(first) \in FrameLists
  <2>1. <<>> \in Texts
    BY DEF Texts
  <2> QED
    BY <2>1, DispatchAppend
<1>2. <<>> \in T
  <2>1. <<>> \in FrameLists /\ first \o <<>> = first /\ Dispatch(first) \o <<>> = Dispatch(first)
    BY <1>1, ConcatEmptySeq, EmptySeq DEF FrameLists
  <2> QED
    BY <2>1, DispatchNothing
<1>3. ASSUME NEW p \in FrameLists, NEW x \in Texts, p \in T PROVE Append(p, x) \in T
  <2>1. Append(p, x) \in FrameLists /\ first \o p \in FrameLists /\ Dispatch(p) \in FrameLists
    BY AppendProperties, ConcatProperties, DispatchAppend DEF FrameLists
  <2>2. Dispatch(first \o Append(p, x)) = Hears(Dispatch(first \o p), x)
    <3>1. first \o Append(p, x) = Append(first \o p, x)
      BY AppendToConcat DEF FrameLists
    <3> QED
      BY <2>1, <3>1, DispatchAppend
  <2>3. Dispatch(Append(p, x)) = Hears(Dispatch(p), x)
    BY DispatchAppend
  <2>4. Hears(Dispatch(first) \o Dispatch(p), x) = Dispatch(first) \o Hears(Dispatch(p), x)
    <3>1. Dispatch(first) \o Append(Dispatch(p), Message(x)) = Append(Dispatch(first) \o Dispatch(p), Message(x))
      BY <1>1, <2>1, MessageType, AppendToConcat DEF FrameLists
    <3> QED
      BY <3>1 DEF Hears
  <2>5. Dispatch(first \o p) = Dispatch(first) \o Dispatch(p)
    BY <1>3
  <2> QED
    BY <2>1, <2>2, <2>3, <2>4, <2>5
<1>4. second \in T
  <2> HIDE DEF T
  <2> QED
    BY <1>2, <1>3, InductionAlong DEF FrameLists
<1> QED
  BY <1>4

-----------------------------------------------------------------------------
(***************************************************************************)
(* What is cut, and what is left over.                                     *)
(***************************************************************************)

\* A text without a terminator.
Clean(text) == \A i \in 1..Len(text) : text[i] \notin {CR, LF}

\* FrameLists that are cut already, and what the rest is cut into.
Join(frames, cut) == [frames |-> frames \o cut.frames, rest |-> cut.rest]

\* A text is cut into texts.
LEMMA ExtractType ==
  ASSUME NEW text \in Texts
  PROVE  /\ extract_frames(text) \in Cuts
         /\ extract_frames(text).frames \in FrameLists /\ extract_frames(text).rest \in Texts
<1>1. 0 \in Nat
  OBVIOUS
<1>2. extract_frames(text) \in Cuts
  BY <1>1, ExtractAppend, Zenon
<1> QED
  BY <1>2, Zenon DEF Cuts

LEMMA CleanAppend ==
  ASSUME NEW text \in Texts, NEW x \in Nat
  PROVE  Clean(Append(text, x)) <=> Clean(text) /\ x \notin {CR, LF}
<1>1. PICK n \in Nat : n = Len(text)
  BY LenProperties DEF Texts
<1>2. PICK longer \in Texts : longer = Append(text, x)
  BY AppendProperties DEF Texts
<1>3. Len(longer) = n + 1 /\ longer[n + 1] = x /\ \A i \in 1..n : longer[i] = text[i]
  BY <1>1, <1>2, AppendProperties DEF Texts
<1>4. 1..n + 1 = 1..n \cup {n + 1}
  OBVIOUS
<1>5. Clean(longer) <=> \A i \in 1..n \cup {n + 1} : longer[i] \notin {CR, LF}
  BY <1>3, <1>4, Zenon DEF Clean
<1>6. Clean(text) <=> \A i \in 1..n : longer[i] \notin {CR, LF}
  BY <1>1, <1>3, Zenon DEF Clean
<1> QED
  BY <1>2, <1>3, <1>5, <1>6, Zenon

\* What is left over has no terminator.
LEMMA RestIsClean ==
  ASSUME NEW text \in Texts
  PROVE  Clean(extract_frames(text).rest)
<1> DEFINE T == {p \in Texts : Clean(extract_frames(p).rest)}
<1>1. Clean(<<>>)
  BY DEF Clean
<1>2. <<>> \in T
  BY <1>1, ExtractNothing DEF NoCut, Texts
<1>3. ASSUME NEW p \in Texts, NEW c \in Nat, p \in T PROVE Append(p, c) \in T
  <2>1. PICK before \in Cuts : before = extract_frames(p) /\ before.rest \in Texts /\ Clean(before.rest)
    BY <1>3, ExtractType
  <2>2. extract_frames(Append(p, c)) = Cut(before, c)
    BY <2>1, ExtractAppend
  <2>3. Clean(Cut(before, c).rest)
    <3>1. CASE c \in {CR, LF}
      BY <1>1, <3>1 DEF Cut
    <3>2. CASE c \notin {CR, LF}
      <4>1. Clean(Append(before.rest, c))
        BY <2>1, <3>2, CleanAppend
      <4>2. Cut(before, c).rest = Append(before.rest, c)
        BY <2>1, <3>2 DEF Cut, Cuts
      <4> QED
        BY <4>1, <4>2
    <3> QED
      BY <3>1, <3>2
  <2>4. Append(p, c) \in Texts
    BY AppendProperties DEF Texts
  <2> QED
    BY <2>2, <2>3, <2>4
<1>4. text \in T
  <2> HIDE DEF T
  <2> QED
    BY <1>2, <1>3, InductionAlong DEF Texts
<1> QED
  BY <1>4

\* A text without a terminator is left over as it is.
LEMMA CleanIsRest ==
  ASSUME NEW text \in Texts, Clean(text)
  PROVE  extract_frames(text) = [frames |-> <<>>, rest |-> text]
<1> DEFINE T == {p \in Texts : Clean(p) => extract_frames(p) = [frames |-> <<>>, rest |-> p]}
<1>1. <<>> \in T
  BY ExtractNothing DEF NoCut, Texts
<1>2. ASSUME NEW p \in Texts, NEW c \in Nat, p \in T PROVE Append(p, c) \in T
  <2>1. Append(p, c) \in Texts
    BY AppendProperties DEF Texts
  <2>2. ASSUME Clean(Append(p, c))
        PROVE  extract_frames(Append(p, c)) = [frames |-> <<>>, rest |-> Append(p, c)]
    <3>1. Clean(p) /\ c \notin {CR, LF}
      BY <2>2, CleanAppend
    <3>2. extract_frames(Append(p, c)) = Cut([frames |-> <<>>, rest |-> p], c)
      BY <1>2, <3>1, ExtractAppend
    <3> QED
      BY <3>1, <3>2 DEF Cut
  <2> QED
    BY <2>1, <2>2
<1>3. text \in T
  <2> HIDE DEF T
  <2> QED
    BY <1>1, <1>2, InductionAlong DEF Texts
<1> QED
  BY <1>3

\* Frames that were cut before stay in front.
LEMMA CutJoins ==
  ASSUME NEW frames \in FrameLists, NEW before \in Cuts, NEW c \in Nat
  PROVE  Cut(Join(frames, before), c) = Join(frames, Cut(before, c))
<1>1. before.frames \in FrameLists /\ before.rest \in Texts
  BY DEF Cuts
<1>2. CASE c \notin {CR, LF}
  <2>1. Cut(before, c) = [frames |-> before.frames, rest |-> Append(before.rest, c)]
    BY <1>2 DEF Cut, Cuts
  <2> QED
    BY <1>2, <2>1 DEF Cut, Join
<1>3. CASE c \in {CR, LF}
  <2>1. frames \o Append(before.frames, before.rest) = Append(frames \o before.frames, before.rest)
    BY <1>1, AppendToConcat DEF FrameLists
  <2> QED
    BY <1>3, <2>1 DEF Cut, Join
<1> QED
  BY <1>2, <1>3

\* A character put at the end of the second of two texts is put at the end of both.
LEMMA TextsAppend ==
  ASSUME NEW a \in Texts, NEW p \in Texts, NEW c \in Nat
  PROVE  /\ Append(p, c) \in Texts /\ a \o p \in Texts
         /\ a \o Append(p, c) = Append(a \o p, c)
<1>1. Append(p, c) \in Texts
  BY AppendProperties DEF Texts
<1>2. a \o p \in Texts
  BY ConcatProperties DEF Texts
<1>3. a \o Append(p, c) = Append(a \o p, c)
  BY AppendToConcat DEF Texts
<1> QED
  BY <1>1, <1>2, <1>3, Zenon

\* A text is cut the same in one piece or in two.
LEMMA ExtractMore ==
  ASSUME NEW first \in Texts, NEW second \in Texts
  PROVE  extract_frames(first \o second)
           = Join(extract_frames(first).frames, extract_frames(extract_frames(first).rest \o second))
<1>1. PICK frames \in FrameLists, rest \in Texts : extract_frames(first) = [frames |-> frames, rest |-> rest]
  <2>1. extract_frames(first) \in Cuts
    BY ExtractType
  <2> QED
    BY <2>1 DEF Cuts
<1> DEFINE T == {p \in Texts : extract_frames(first \o p) = Join(frames, extract_frames(rest \o p))}
<1>2. <<>> \in T
  <2>1. <<>> \in Texts /\ first \o <<>> = first /\ rest \o <<>> = rest /\ frames \o <<>> = frames
    BY ConcatEmptySeq, EmptySeq DEF Texts, FrameLists
  <2>2. extract_frames(rest) = [frames |-> <<>>, rest |-> rest]
    <3>1. Clean(rest)
      BY <1>1, RestIsClean
    <3> QED
      BY <3>1, CleanIsRest
  <2>3. Join(frames, [frames |-> <<>>, rest |-> rest]) = [frames |-> frames, rest |-> rest]
    BY <2>1 DEF Join
  <2> QED
    BY <1>1, <2>1, <2>2, <2>3
<1>3. ASSUME NEW p \in Texts, NEW c \in Nat, p \in T PROVE Append(p, c) \in T
  <2>1. Append(p, c) \in Texts /\ first \o p \in Texts /\ rest \o p \in Texts
    BY <1>1, TextsAppend, Zenon
  <2>2. first \o Append(p, c) = Append(first \o p, c) /\ rest \o Append(p, c) = Append(rest \o p, c)
    BY <1>1, TextsAppend, Zenon
  <2>3. /\ extract_frames(Append(first \o p, c)) = Cut(extract_frames(first \o p), c)
        /\ extract_frames(Append(rest \o p, c)) = Cut(extract_frames(rest \o p), c)
        /\ extract_frames(rest \o p) \in Cuts
    BY <2>1, ExtractAppend
  <2>4. Cut(Join(frames, extract_frames(rest \o p)), c) = Join(frames, Cut(extract_frames(rest \o p), c))
    BY <2>3, CutJoins
  <2>5. extract_frames(first \o p) = Join(frames, extract_frames(rest \o p))
    BY <1>3
  <2> QED
    BY <2>1, <2>2, <2>3, <2>4, <2>5
<1>4. second \in T
  <2> HIDE DEF T
  <2> QED
    BY <1>2, <1>3, InductionAlong DEF Texts
<1> QED
  BY <1>1, <1>4

\* What is left over only grows until it is a frame.
LEMMA LongStaysLong ==
  ASSUME NEW rest \in Texts, Clean(rest), NEW size \in Nat, Len(rest) > size, NEW text \in Texts
  PROVE  LET cut == extract_frames(rest \o text)
         IN \/ cut.frames = <<>> /\ Len(cut.rest) > size
            \/ cut.frames # <<>> /\ Len(cut.frames[1]) > size
<1> DEFINE Long(cut) == \/ cut.frames = <<>> /\ Len(cut.rest) > size
                        \/ cut.frames # <<>> /\ Len(cut.frames[1]) > size
           T == {p \in Texts : Long(extract_frames(rest \o p))}
<1>1. <<>> \in T
  <2>1. <<>> \in Texts /\ rest \o <<>> = rest
    BY ConcatEmptySeq, EmptySeq DEF Texts
  <2>2. extract_frames(rest) = [frames |-> <<>>, rest |-> rest]
    BY CleanIsRest
  <2> QED
    BY <2>1, <2>2
<1>2. ASSUME NEW cut \in Cuts, NEW c \in Nat, Long(cut) PROVE Long(Cut(cut, c))
  <2>1. cut.frames \in FrameLists /\ cut.rest \in Texts
    BY DEF Cuts
  <2>2. Len(Append(cut.rest, c)) = Len(cut.rest) + 1 /\ Len(cut.rest) \in Nat
    BY <2>1, AppendProperties, LenProperties DEF Texts
  <2>3. CASE c \notin {CR, LF}
    <3>1. Cut(cut, c) = [frames |-> cut.frames, rest |-> Append(cut.rest, c)]
      BY <2>3 DEF Cut, Cuts
    <3> QED
      BY <1>2, <2>2, <3>1
  <2>4. CASE c \in {CR, LF} /\ cut.frames = <<>>
    <3>1. cut.rest # <<>> /\ Len(cut.rest) > size
      BY <1>2, <2>4, EmptySeq
    <3>2. Cut(cut, c).frames = <<cut.rest>>
      BY <2>1, <2>4, <3>1 DEF Cut
    <3> QED
      BY <3>1, <3>2
  <2>5. CASE c \in {CR, LF} /\ cut.frames # <<>>
    <3>1. Len(cut.frames) \in Nat \ {0}
      BY <2>1, <2>5, EmptySeq, LenProperties DEF FrameLists
    <3>2. /\ Append(cut.frames, cut.rest) # <<>>
          /\ Append(cut.frames, cut.rest)[1] = cut.frames[1]
      BY <2>1, <3>1, AppendProperties DEF FrameLists
    <3>3. Cut(cut, c).frames \in {cut.frames, Append(cut.frames, cut.rest)}
      BY <2>5 DEF Cut
    <3> QED
      BY <1>2, <2>5, <3>2, <3>3
  <2> QED
    BY <2>3, <2>4, <2>5, Zenon
<1> HIDE DEF Long
<1>3. ASSUME NEW p \in Texts, NEW c \in Nat, p \in T PROVE Append(p, c) \in T
  <2>1. Append(p, c) \in Texts /\ rest \o p \in Texts /\ rest \o Append(p, c) = Append(rest \o p, c)
    BY TextsAppend, Zenon
  <2>2. /\ extract_frames(rest \o p) \in Cuts /\ Long(extract_frames(rest \o p))
        /\ extract_frames(Append(rest \o p, c)) = Cut(extract_frames(rest \o p), c)
    BY <1>3, <2>1, ExtractAppend
  <2> QED
    BY <1>2, <2>1, <2>2
<1>4. text \in T
  <2> HIDE DEF T
  <2> QED
    BY <1>1, <1>3, InductionAlong DEF Texts
<1> QED
  BY <1>4 DEF Long

-----------------------------------------------------------------------------
(***************************************************************************)
(* The stream, and where the reads cut the line.                           *)
(***************************************************************************)

\* What is on the line and left over is text; what was said and heard are texts.
StreamOK == line \in Texts /\ buffer \in Texts /\ said \in FrameLists /\ heard \in FrameLists /\ noise \in Nat

\* A message that fits makes a frame.
LEMMA FitsMakesText ==
  ASSUME NEW message \in Reports \cup Requests
  PROVE  finalize(message) \in Texts
<1>1. message \in Seq(Nat) /\ Len(message) <= 251
  BY FrameAssumption DEF Fits
<1>2. PICK size \in Nat : size = Len(message) /\ size <= 251
  BY <1>1, LenProperties, Zenon
<1>3. size \in 0..251
  BY <1>2, UpToLimit, Zenon
<1>4. Framed(finalize(message), message, size)
  BY <1>1, <1>2, <1>3, FinalizedIsValid, Zenon
<1> QED
  BY <1>4, Zenon DEF Framed, Texts

LEMMA TextsJoin ==
  ASSUME NEW a \in Texts, NEW b \in Texts
  PROVE  a \o b \in Texts
BY ConcatProperties DEF Texts

\* Texts can be put together in any order of two.
LEMMA TextsRegroup ==
  ASSUME NEW a \in Texts, NEW b \in Texts, NEW c \in Texts
  PROVE  (a \o b) \o c = a \o (b \o c)
<1>1. a \in Seq(Nat) /\ b \in Seq(Nat) /\ c \in Seq(Nat)
  BY DEF Texts
<1> QED
  BY <1>1, ConcatAssociative, SMTT(60)

\* The second sequence's first element is in the joint one.
LEMMA SecondStarts ==
  ASSUME NEW S, NEW s \in Seq(S), NEW t \in Seq(S), t # <<>>
  PROVE  \E i \in DOMAIN (s \o t) : (s \o t)[i] = t[1]
<1>1. PICK p, q \in Nat : p = Len(s) /\ q = Len(t)
  BY LenProperties
<1>2. q > 0
  BY <1>1, EmptySeq
<1>3. PICK u \in Seq(S) : u = s \o t
  BY ConcatProperties
<1>4. Len(u) = p + q /\ \A i \in 1..p + q : u[i] = IF i <= p THEN s[i] ELSE t[i - p]
  BY <1>1, <1>3, ConcatProperties
<1>5. p + 1 \in 1..p + q /\ ~(p + 1 <= p) /\ (p + 1) - p = 1
  BY <1>1, <1>2
<1>6. p + 1 \in DOMAIN u /\ u[p + 1] = t[1]
  BY <1>3, <1>4, <1>5
<1> QED
  BY <1>3, <1>6, Zenon

\* A read takes the first characters off the line.
LEMMA LineSplits ==
  ASSUME line \in Texts, NEW n \in 1..(IF Len(line) < ReadSize THEN Len(line) ELSE ReadSize)
  PROVE  /\ SubSeq(line, 1, n) \in Texts /\ SubSeq(line, n + 1, Len(line)) \in Texts
         /\ line = SubSeq(line, 1, n) \o SubSeq(line, n + 1, Len(line))
<1>1. PICK size \in Nat : size = Len(line) /\ n \in 1..size
  BY FrameAssumption, LenProperties DEF Texts
<1>2. \A i \in 1..size : line[i] \in Nat
  BY <1>1, ElementOfSeq DEF Texts
<1>3. /\ n \in Int /\ n + 1 \in Int /\ size \in Int
      /\ (\A i \in 1..n : line[i] \in Nat) /\ \A i \in n + 1..size : line[i] \in Nat
  BY <1>1, <1>2
<1>4. SubSeq(line, 1, n) \in Texts /\ SubSeq(line, n + 1, size) \in Texts
  BY <1>3, SubSeqProperties DEF Texts
<1>5. SubSeq(line, 1, n) \o SubSeq(line, n + 1, size) = SubSeq(line, 1, size)
  <2>1. 1 \in 1..Len(line) + 1 /\ n \in 1 - 1..Len(line) /\ size \in n..Len(line)
    BY <1>1
  <2> QED
    BY <2>1, ConcatAdjacentSubSeq DEF Texts
<1>6. SubSeq(line, 1, size) = line
  BY <1>1, SubSeqFull DEF Texts
<1> QED
  BY <1>1, <1>4, <1>5, <1>6, Zenon

\* The line, the buffer and what was said and heard are texts and lists of them.
LEMMA StreamTyped == FrameSpec => []StreamOK
<1>1. FrameInit => StreamOK
  BY DEF FrameInit, StreamOK, Texts, FrameLists
<1>2. ASSUME StreamOK, [FrameNext]_frameVars PROVE StreamOK'
  <2> USE <1>2 DEF StreamOK
  <2>1. ASSUME NEW report \in Reports, Say(report) PROVE StreamOK'
    <3>1. <<CR, LF>> \in Texts /\ finalize(report) \in Texts
      BY FitsMakesText DEF CR, LF, Texts
    <3>2. line \o finalize(report) \in Texts
      BY <3>1, ConcatProperties DEF Texts
    <3>3. line \o finalize(report) \o <<CR, LF>> \in Texts
      BY <3>1, <3>2, ConcatProperties DEF Texts
    <3>4. Append(said, report \o <<48, 48>>) \in FrameLists
      <4>1. report \in Texts /\ <<48, 48>> \in Texts
        BY FrameAssumption DEF Fits, Texts
      <4>2. report \o <<48, 48>> \in Texts
        BY <4>1, ConcatProperties DEF Texts
      <4> QED
        BY <4>2, AppendProperties DEF FrameLists
    <3> QED
      BY <2>1, <3>3, <3>4 DEF Say
  <2>2. ASSUME NEW i \in DOMAIN line, NEW c \in NoiseChars, Corrupt(i, c) PROVE StreamOK'
    <3>1. i \in 1..Len(line) /\ c \in Nat
      BY FrameAssumption DEF Texts
    <3>2. [line EXCEPT ![i] = c] \in Texts
      BY <3>1, ExceptSeq DEF Texts
    <3> QED
      BY <2>2, <3>2 DEF Corrupt
  <2>3. ASSUME NEW n \in 1..(IF Len(line) < ReadSize THEN Len(line) ELSE ReadSize), Read(n) PROVE StreamOK'
    <3>2. SubSeq(line, 1, n) \in Texts /\ SubSeq(line, n + 1, Len(line)) \in Texts
      BY LineSplits
    <3>3. PICK cut \in Cuts :
            /\ cut = extract_frames(buffer \o SubSeq(line, 1, n))
            /\ cut.frames \in FrameLists /\ cut.rest \in Texts
      <4>1. buffer \o SubSeq(line, 1, n) \in Texts
        BY <3>2, ConcatProperties DEF Texts
      <4> QED
        BY <4>1, ExtractType
    <3>4. heard \o Dispatch(cut.frames) \in FrameLists
      <4>1. Dispatch(cut.frames) \in FrameLists
        <5>1. <<>> \in Texts
          BY DEF Texts
        <5> QED
          BY <3>3, <5>1, DispatchAppend
      <4> QED
        BY <4>1, ConcatProperties DEF FrameLists
    <3>5. line' \in Texts
      BY <2>3, <3>2, Zenon DEF Read
    <3>6. heard' \in FrameLists
      BY <2>3, <3>3, <3>4, Zenon DEF Read
    <3>7. <<>> \in Texts
      BY DEF Texts
    <3>8. buffer' \in Texts
      BY <2>3, <3>3, <3>7, Zenon DEF Read
    <3>9. said' \in FrameLists /\ noise' \in Nat
      BY <2>3 DEF Read
    <3> QED
      BY <3>5, <3>6, <3>8, <3>9
  <2>4. ASSUME NEW request \in Requests, Write(request) PROVE StreamOK'
    BY <2>4 DEF Write
  <2>5. CASE UNCHANGED frameVars
    BY <2>5 DEF frameVars
  <2> QED
    BY <2>1, <2>2, <2>3, <2>4, <2>5, Zenon DEF FrameNext
<1> QED
  BY <1>1, <1>2, PTL DEF FrameSpec

\* No read makes a difference to what is understood, unless something is longer
\* than a frame may be.
LEMMA ReadIsInvisible ==
  ASSUME StreamOK, ~Oversize,
         NEW n \in 1..(IF Len(line) < ReadSize THEN Len(line) ELSE ReadSize), Read(n)
  PROVE  Understood' = Understood
<1> USE DEF StreamOK
<1>2. PICK read, unread \in Texts :
        read = SubSeq(line, 1, n) /\ unread = SubSeq(line, n + 1, Len(line)) /\ line = read \o unread
  BY LineSplits
<1>3. PICK known \in Texts : known = buffer \o read /\ buffer \o line = known \o unread
  <2>1. buffer \o read \in Texts
    BY TextsJoin
  <2>2. (buffer \o read) \o unread = buffer \o (read \o unread)
    BY TextsRegroup
  <2> QED
    BY <1>2, <2>1, <2>2, Zenon
<1>4. PICK cut \in Cuts :
        /\ cut = extract_frames(known) /\ cut.frames \in FrameLists /\ cut.rest \in Texts /\ Clean(cut.rest)
  BY ExtractType, RestIsClean
<1>5. PICK later \in Cuts :
        later = extract_frames(cut.rest \o unread) /\ later.frames \in FrameLists /\ later.rest \in Texts
  <2>1. cut.rest \o unread \in Texts
    BY <1>4, ConcatProperties DEF Texts
  <2> QED
    BY <2>1, ExtractType
<1>6. extract_frames(buffer \o line) = [frames |-> cut.frames \o later.frames, rest |-> later.rest]
  <2>1. extract_frames(known \o unread) = Join(cut.frames, later)
    BY <1>4, <1>5, ExtractMore
  <2> QED
    BY <1>3, <2>1 DEF Join
<1>7. ~(Len(cut.rest) > MaxFrame)
  <2> SUFFICES ASSUME Len(cut.rest) > MaxFrame PROVE FALSE
    OBVIOUS
  <2>1. \/ later.frames = <<>> /\ Len(later.rest) > MaxFrame
        \/ later.frames # <<>> /\ Len(later.frames[1]) > MaxFrame
    BY <1>4, <1>5, FrameAssumption, LongStaysLong
  <2> DEFINE all == extract_frames(buffer \o line)
  <2>2. ~(Len(all.rest) > MaxFrame) /\ \A i \in DOMAIN all.frames : ~(Len(all.frames[i]) > MaxFrame)
    BY DEF Oversize
  <2>3. all.rest = later.rest /\ all.frames = cut.frames \o later.frames
    <3>1. all = [frames |-> cut.frames \o later.frames, rest |-> later.rest]
      BY <1>6, Zenon
    <3> HIDE DEF all
    <3> QED
      BY <3>1, Zenon
  <2> HIDE DEF all
  <2>4. PICK i \in DOMAIN all.frames : all.frames[i] = later.frames[1]
    <3>1. later.frames # <<>>
      BY <2>1, <2>2, <2>3
    <3>2. \E i \in DOMAIN (cut.frames \o later.frames) : (cut.frames \o later.frames)[i] = later.frames[1]
      <4>1. cut.frames \in Seq(Texts) /\ later.frames \in Seq(Texts)
        BY <1>4, <1>5 DEF FrameLists
      <4> QED
        BY <3>1, <4>1, SecondStarts, Zenon
    <3> QED
      BY <2>3, <3>2, Zenon
  <2> QED
    BY <2>1, <2>2, <2>3, <2>4
<1>8. line' = unread /\ buffer' = cut.rest /\ heard' = heard \o Dispatch(cut.frames)
  <2>1. line' = unread
    BY <1>2, Zenon DEF Read
  <2>2. buffer' = cut.rest
    BY <1>2, <1>3, <1>4, <1>7, Zenon DEF Read
  <2>3. heard' = heard \o Dispatch(cut.frames)
    BY <1>2, <1>3, <1>4, Zenon DEF Read
  <2> QED
    BY <2>1, <2>2, <2>3
<1>9. Understood = heard \o Dispatch(cut.frames \o later.frames)
  BY <1>6 DEF Understood
<1>10. Understood' = heard \o Dispatch(cut.frames) \o Dispatch(later.frames)
  BY <1>5, <1>8, Zenon DEF Understood
<1>11. Dispatch(cut.frames) \in FrameLists /\ Dispatch(later.frames) \in FrameLists
  <2>1. <<>> \in Texts
    BY DEF Texts
  <2> QED
    BY <1>4, <1>5, <2>1, DispatchAppend
<1>12. Dispatch(cut.frames \o later.frames) = Dispatch(cut.frames) \o Dispatch(later.frames)
  BY <1>4, <1>5, DispatchMore
<1>13. heard \o Dispatch(cut.frames) \o Dispatch(later.frames) = heard \o (Dispatch(cut.frames) \o Dispatch(later.frames))
  <2>1. heard \in Seq(Texts) /\ Dispatch(cut.frames) \in Seq(Texts) /\ Dispatch(later.frames) \in Seq(Texts)
    BY <1>11, Zenon DEF FrameLists
  <2> QED
    BY <2>1, ConcatAssociative, SMTT(60)
<1> QED
  BY <1>9, <1>10, <1>12, <1>13, Zenon

\* For every report, noise and length of a read or a frame: where the reads cut
\* the line makes no difference to what is heard.
THEOREM ChunksNeverMatter == FrameSpec => ChunksAreInvisible
<1>1. ASSUME StreamOK, [FrameNext]_frameVars
      PROVE  [said' = said /\ noise' = noise /\ ~Oversize => Understood' = Understood]_frameVars
  <2> SUFFICES ASSUME FrameNext, said' = said, noise' = noise, ~Oversize
               PROVE  Understood' = Understood
    BY <1>1
  <2>1. ASSUME NEW report \in Reports, Say(report) PROVE FALSE
    <3>1. said' = Append(said, report \o <<48, 48>>) /\ Len(said) < MaxSaid
      BY <2>1 DEF Say
    <3> QED
      BY <3>1
  <2>2. ASSUME NEW i \in DOMAIN line, NEW c \in NoiseChars, Corrupt(i, c) PROVE FALSE
    <3>1. noise' = noise + 1 /\ noise \in Nat
      BY <1>1, <2>2 DEF Corrupt, StreamOK
    <3> QED
      BY <3>1
  <2>3. ASSUME NEW n \in 1..(IF Len(line) < ReadSize THEN Len(line) ELSE ReadSize), Read(n)
        PROVE  Understood' = Understood
    BY <1>1, <2>3, ReadIsInvisible
  <2>4. ASSUME NEW request \in Requests, Write(request) PROVE Understood' = Understood
    BY <2>4 DEF Write, Understood
  <2> QED
    BY <2>1, <2>2, <2>3, <2>4, Zenon DEF FrameNext
<1> QED
  BY <1>1, StreamTyped, PTL DEF FrameSpec, ChunksAreInvisible

-----------------------------------------------------------------------------
(***************************************************************************)
(* Units: the frames of a text that are dispatched.                        *)
(***************************************************************************)

Term == {CR, LF}

\* text has a frame that is dispatched from s on, with its terminator at e.
Unit(text, s, e) ==
  /\ s \in 1..Len(text) /\ e \in 1..Len(text) /\ s < e
  /\ text[e] \in Term /\ (s = 1 \/ text[s - 1] \in Term)
  /\ \A i \in s..e - 1 : text[i] \notin Term
  /\ IsDispatched(SubSeq(text, s, e - 1))

\* A piece of a text, pointwise.
LEMMA PieceOf ==
  ASSUME NEW text \in Texts, NEW n \in Nat, Len(text) = n, NEW a \in 1..n + 1, NEW b \in 0..n
  PROVE  /\ SubSeq(text, a, b) \in Texts
         /\ Len(SubSeq(text, a, b)) = IF a <= b THEN b - a + 1 ELSE 0
         /\ \A i \in 1..b - a + 1 : SubSeq(text, a, b)[i] = text[a + i - 1]
<1>1. \A i \in 1..n : text[i] \in Nat
  BY ElementOfSeq DEF Texts
<1>2. a \in Int /\ b \in Int /\ \A i \in a..b : text[i] \in Nat
  BY <1>1
<1>3. SubSeq(text, a, b) \in Texts
  BY <1>2, SubSeqProperties DEF Texts
<1>4. Len(SubSeq(text, a, b)) = IF a <= b THEN b - a + 1 ELSE 0
  BY <1>2, SubSeqProperties
<1>5. \A i \in 1..b - a + 1 : SubSeq(text, a, b)[i] = text[a + i - 1]
  BY <1>2, SubSeqProperties
<1> QED
  BY <1>3, <1>4, <1>5

\* text has piece after its first n characters.
IsAt(text, m, n, piece, k) ==
  Len(text) = m /\ Len(piece) = k /\ n + k <= m /\ \A i \in 1..k : text[n + i] = piece[i]

\* The piece of a text from where another one is, is the other one.
LEMMA PieceIs ==
  ASSUME NEW text \in Texts, NEW m \in Nat, NEW n \in Nat, NEW k \in Nat,
         NEW piece \in Texts, IsAt(text, m, n, piece, k)
  PROVE  SubSeq(text, n + 1, n + k) = piece
<1>1. PICK a \in 1..m + 1, b \in 0..m : a = n + 1 /\ b = n + k
  BY DEF IsAt
<1>2. b - a + 1 = k /\ (a <= b <=> k # 0) /\ \A i \in 1..k : a + i - 1 = n + i
  BY <1>1
<1>3. PICK other \in Texts :
        /\ other = SubSeq(text, a, b)
        /\ Len(other) = IF a <= b THEN b - a + 1 ELSE 0
        /\ \A i \in 1..b - a + 1 : other[i] = text[a + i - 1]
  <2>1. Len(text) = m
    BY DEF IsAt
  <2> QED
    BY <2>1, PieceOf
<1>4. Len(other) = k
  <2>1. PICK size \in Nat : size = Len(other) /\ size = IF a <= b THEN b - a + 1 ELSE 0
    BY <1>3, LenProperties DEF Texts
  <2>2. size = k
    BY <1>2, <2>1
  <2> QED
    BY <2>1, <2>2
<1>5. \A i \in 1..k : other[i] = piece[i]
  BY <1>2, <1>3 DEF IsAt
<1>6. Len(piece) = k
  BY DEF IsAt
<1> QED
  BY <1>1, <1>3, <1>4, <1>5, <1>6, SeqEqual DEF Texts

\* Two texts in a row, pointwise.
Row(text, a, p, b, q) ==
  /\ text \in Texts /\ Len(text) = p + q
  /\ (\A i \in 1..p : text[i] = a[i]) /\ \A i \in 1..q : text[p + i] = b[i]

\* Two texts put together are one text and then the other.
LEMMA TextsConcat ==
  ASSUME NEW a \in Texts, NEW b \in Texts, NEW p \in Nat, NEW q \in Nat, Len(a) = p, Len(b) = q
  PROVE  Row(a \o b, a, p, b, q)
<1>1. /\ a \o b \in Texts /\ Len(a \o b) = p + q
      /\ \A i \in 1..p + q : (a \o b)[i] = IF i <= p THEN a[i] ELSE b[i - p]
  BY ConcatProperties DEF Texts
<1>2. \A i \in 1..p : i \in 1..p + q /\ i <= p
  OBVIOUS
<1>3. \A i \in 1..q : p + i \in 1..p + q /\ ~(p + i <= p) /\ (p + i) - p = i
  OBVIOUS
<1>4. \A i \in 1..q : (a \o b)[p + i] = b[i]
  BY <1>1, <1>3
<1>5. \A i \in 1..p : (a \o b)[i] = a[i]
  BY <1>1, <1>2
<1> QED
  BY <1>1, <1>4, <1>5 DEF Row

\* Equal pieces of two texts.
LEMMA SamePiece ==
  ASSUME NEW text \in Texts, NEW n \in Nat, Len(text) = n, NEW a \in 1..n + 1, NEW b \in 0..n,
         NEW other \in Texts, NEW m \in Nat, Len(other) = m, NEW d \in Int,
         a - d \in 1..m + 1, b - d \in 0..m,
         \A i \in a..b : other[i - d] = text[i]
  PROVE  SubSeq(other, a - d, b - d) = SubSeq(text, a, b)
<1>1. PICK x \in Texts :
        /\ x = SubSeq(text, a, b)
        /\ Len(x) = IF a <= b THEN b - a + 1 ELSE 0
        /\ \A i \in 1..b - a + 1 : x[i] = text[a + i - 1]
  BY PieceOf
<1>2. PICK p \in 1..m + 1, q \in 0..m : p = a - d /\ q = b - d
  OBVIOUS
<1>3. PICK y \in Texts :
        /\ y = SubSeq(other, p, q)
        /\ Len(y) = IF p <= q THEN q - p + 1 ELSE 0
        /\ \A i \in 1..q - p + 1 : y[i] = other[p + i - 1]
  <2>1. p \in 1..m + 1 /\ q \in 0..m
    BY <1>2, Zenon
  <2>2. /\ SubSeq(other, p, q) \in Texts
        /\ Len(SubSeq(other, p, q)) = IF p <= q THEN q - p + 1 ELSE 0
        /\ \A i \in 1..q - p + 1 : SubSeq(other, p, q)[i] = other[p + i - 1]
    BY <2>1, PieceOf, ZenonT(40)
  <2> QED
    BY <2>2, Zenon
<1>4. q - p = b - a /\ (p <= q <=> a <= b)
  BY <1>2, SMTT(30)
<1>5. Len(x) = Len(y)
  BY <1>1, <1>3, <1>4
<1>6. \A i \in 1..Len(x) : x[i] = y[i]
  <2> SUFFICES ASSUME NEW i \in 1..Len(x) PROVE x[i] = y[i]
    OBVIOUS
  <2>1. a <= b /\ i \in 1..b - a + 1
    BY <1>1
  <2>2. i \in 1..q - p + 1 /\ a + i - 1 \in a..b /\ (a + i - 1) - d = p + i - 1
    BY <1>2, <1>4, <2>1
  <2> QED
    BY <1>1, <1>3, <2>1, <2>2
<1>7. x = y
  BY <1>5, <1>6, SeqEqual DEF Texts
<1> QED
  BY <1>1, <1>2, <1>3, <1>7

\* A unit stays one where its characters and the one before it stay.
LEMMA UnitMoves ==
  ASSUME NEW text \in Texts, NEW n \in Nat, Len(text) = n,
         NEW other \in Texts, NEW m \in Nat, Len(other) = m,
         NEW s \in Nat, NEW e \in Nat, Unit(text, s, e),
         NEW d \in Int, s - d >= 1, e - d <= m,
         \A i \in s..e : other[i - d] = text[i],
         s - d = 1 \/ (other[(s - 1) - d] = text[s - 1] /\ s # 1)
  PROVE  Unit(other, s - d, e - d)
<1>1. /\ s \in 1..n /\ e \in 1..n /\ s < e
      /\ text[e] \in Term /\ (s = 1 \/ text[s - 1] \in Term)
      /\ \A i \in s..e - 1 : text[i] \notin Term
      /\ IsDispatched(SubSeq(text, s, e - 1))
  BY DEF Unit
<1>2. s - d \in 1..m /\ e - d \in 1..m /\ s - d < e - d
  BY <1>1
<1>3. other[e - d] \in Term
  BY <1>1
<1>4. s - d = 1 \/ other[(s - d) - 1] \in Term
  <2>1. (s - 1) - d = (s - d) - 1
    OBVIOUS
  <2> QED
    BY <1>1, <2>1
<1>5. ASSUME NEW i \in s - d..(e - d) - 1 PROVE other[i] \notin Term
  <2>1. i + d \in s..e - 1 /\ i + d \in s..e /\ (i + d) - d = i
    BY <1>1
  <2> QED
    BY <1>1, <2>1
<1>6. SubSeq(other, s - d, (e - d) - 1) = SubSeq(text, s, e - 1)
  <2>1. s \in 1..n + 1 /\ e - 1 \in 0..n /\ s - d \in 1..m + 1 /\ (e - 1) - d \in 0..m /\ (e - 1) - d = (e - d) - 1
    BY <1>1, <1>2
  <2>2. \A i \in s..e - 1 : other[i - d] = text[i]
    BY <1>1
  <2>3. SubSeq(other, s - d, (e - 1) - d) = SubSeq(text, s, e - 1)
    BY <2>1, <2>2, SamePiece
  <2> QED
    BY <2>1, <2>3
<1> QED
  BY <1>1, <1>2, <1>3, <1>4, <1>5, <1>6, Zenon DEF Unit

\* What is left over is what follows the last terminator.
LEMMA RestIsSuffix ==
  ASSUME NEW text \in Texts, NEW n \in Nat, Len(text) = n
  PROVE  \E d \in 0..n : /\ extract_frames(text).rest = SubSeq(text, d + 1, n)
                         /\ (d = 0 \/ text[d] \in Term)
                         /\ \A i \in d + 1..n : text[i] \notin Term
<1> DEFINE Suffix(p) == \E d \in 0..Len(p) : /\ extract_frames(p).rest = SubSeq(p, d + 1, Len(p))
                                           /\ (d = 0 \/ p[d] \in Term)
                                           /\ \A i \in d + 1..Len(p) : p[i] \notin Term
           T == {p \in Texts : Suffix(p)}
<1>1. <<>> \in T
  <2>1. Len(<<>>) = 0 /\ <<>> \in Texts /\ SubSeq(<<>>, 0 + 1, 0) = <<>>
    BY EmptySeq, SubSeqEmpty DEF Texts
  <2>2. extract_frames(<<>>).rest = <<>>
    BY ExtractNothing DEF NoCut
  <2>3. Suffix(<<>>)
    <3>1. 0 \in 0..0 /\ \A i \in 0 + 1..0 : <<>>[i] \notin Term
      OBVIOUS
    <3> QED
      BY <2>1, <2>2, <3>1, Zenon
  <2> QED
    BY <2>1, <2>3
<1>2. ASSUME NEW p \in Texts, NEW c \in Nat, Suffix(p) PROVE Suffix(Append(p, c))
  <2>1. PICK k \in Nat : k = Len(p)
    BY LenProperties DEF Texts
  <2>2. PICK q \in Texts : q = Append(p, c) /\ Len(q) = k + 1 /\ q[k + 1] = c /\ \A i \in 1..k : q[i] = p[i]
    <3> HIDE DEF T, Suffix
    <3>1. Append(p, c) \in Texts
      BY AppendProperties DEF Texts
    <3>2. Len(Append(p, c)) = k + 1 /\ Append(p, c)[k + 1] = c /\ \A i \in 1..k : Append(p, c)[i] = p[i]
      BY <2>1, AppendProperties DEF Texts
    <3> QED
      BY <3>1, <3>2, Zenon
  <2>3. PICK d \in 0..k :
          /\ extract_frames(p).rest = SubSeq(p, d + 1, k)
          /\ (d = 0 \/ p[d] \in Term)
          /\ \A i \in d + 1..k : p[i] \notin Term
    BY <1>2, <2>1
  <2>4. PICK before \in Cuts : before = extract_frames(p) /\ extract_frames(q) = Cut(before, c)
    BY <2>2, ExtractAppend
  <2>5. CASE c \in Term
    <3>1. extract_frames(q).rest = <<>>
      BY <2>4, <2>5 DEF Cut, Term
    <3>2. SubSeq(q, (k + 1) + 1, k + 1) = <<>> /\ k + 1 \in 0..k + 1 /\ q[k + 1] \in Term
      BY <2>2, <2>5, SubSeqEmpty
    <3>3. \A i \in (k + 1) + 1..k + 1 : q[i] \notin Term
      OBVIOUS
    <3> QED
      BY <2>2, <3>1, <3>2, <3>3, Zenon
  <2>6. CASE c \notin Term
    <3>1. extract_frames(q).rest = Append(SubSeq(p, d + 1, k), c)
      BY <2>3, <2>4, <2>6 DEF Cut, Cuts, Term
    <3>2. SubSeq(q, d + 1, k) = SubSeq(p, d + 1, k)
      <4>1. d + 1 \in 1..k + 1 /\ k \in 0..k /\ (d + 1) - 0 = d + 1 /\ k - 0 = k /\ 0 \in Int
            /\ d + 1 \in 1..(k + 1) + 1 /\ k \in 0..k + 1 /\ k + 1 \in Nat
        OBVIOUS
      <4>2. \A i \in d + 1..k : q[i - 0] = p[i]
        BY <2>2
      <4>3. SubSeq(q, (d + 1) - 0, k - 0) = SubSeq(p, d + 1, k)
        BY <2>1, <2>2, <4>1, <4>2, SamePiece
      <4> QED
        BY <4>1, <4>3
    <3>3. SubSeq(q, d + 1, k + 1) = SubSeq(q, d + 1, k) \o <<q[k + 1]>>
      <4>1. d + 1 \in 1..Len(q) /\ k + 1 \in 1..Len(q) /\ (k + 1) - 1 = k /\ d + 1 <= k + 1
        BY <2>2
      <4> QED
        BY <4>1, SubSeqRecursiveSecond
    <3>4. SubSeq(p, d + 1, k) \in Texts
      BY <2>1, PieceOf
    <3>5. Append(SubSeq(p, d + 1, k), c) = SubSeq(p, d + 1, k) \o <<c>>
      BY <3>4, AppendIsConcat DEF Texts
    <3>6. extract_frames(q).rest = SubSeq(q, d + 1, k + 1)
      BY <2>2, <3>1, <3>2, <3>3, <3>5
    <3>7. d \in 0..k + 1 /\ (d = 0 \/ q[d] \in Term)
      BY <2>2, <2>3
    <3>8. \A i \in d + 1..k + 1 : q[i] \notin Term
      BY <2>2, <2>3, <2>6
    <3> QED
      BY <2>2, <3>6, <3>7, <3>8, Zenon
  <2> QED
    BY <2>5, <2>6
<1>3. text \in T
  <2>1. ASSUME NEW p \in Seq(Nat), NEW c \in Nat, p \in T PROVE Append(p, c) \in T
    <3>1. p \in Texts /\ Append(p, c) \in Texts
      BY AppendProperties DEF Texts
    <3> QED
      BY <1>2, <2>1, <3>1
  <2> HIDE DEF T
  <2> QED
    BY <1>1, <2>1, InductionAlong DEF Texts
<1> QED
  BY <1>3

-----------------------------------------------------------------------------
(***************************************************************************)
(* How many messages a text gives.                                         *)
(***************************************************************************)

\* The rest is what follows the last terminator.
LEMMA RestSince ==
  ASSUME NEW text \in Texts, NEW n \in Nat, Len(text) = n, NEW s \in 1..n + 1,
         s = 1 \/ text[s - 1] \in Term,
         \A i \in s..n : text[i] \notin Term
  PROVE  extract_frames(text).rest = SubSeq(text, s, n)
<1>1. PICK d \in 0..n :
        /\ extract_frames(text).rest = SubSeq(text, d + 1, n)
        /\ (d = 0 \/ text[d] \in Term)
        /\ \A i \in d + 1..n : text[i] \notin Term
  BY RestIsSuffix
<1>2. ~(d > s - 1)
  <2> SUFFICES ASSUME d > s - 1 PROVE FALSE
    OBVIOUS
  <2>1. d \in s..n /\ d # 0
    OBVIOUS
  <2> QED
    BY <1>1, <2>1
<1>3. ~(d < s - 1)
  <2> SUFFICES ASSUME d < s - 1 PROVE FALSE
    OBVIOUS
  <2>1. s - 1 \in d + 1..n /\ s # 1
    OBVIOUS
  <2> QED
    BY <1>1, <2>1
<1>4. d + 1 = s
  BY <1>2, <1>3
<1> QED
  BY <1>1, <1>4

\* How many messages a text gives.
Heard(text) == Len(Dispatch(extract_frames(text).frames))

\* One more character takes no message away; one that ends a frame with a
\* decoder adds one.
LEMMA HeardGrows ==
  ASSUME NEW text \in Texts, NEW c \in Nat
  PROVE  /\ Heard(text) \in Nat /\ Heard(Append(text, c)) \in Nat
         /\ Heard(Append(text, c)) >= Heard(text)
         /\ c \in Term /\ IsDispatched(extract_frames(text).rest) => Heard(Append(text, c)) = Heard(text) + 1
<1>1. PICK frames \in FrameLists, rest \in Texts : extract_frames(text) = [frames |-> frames, rest |-> rest]
  <2>1. extract_frames(text) \in Cuts
    BY ExtractType
  <2> QED
    BY <2>1 DEF Cuts
<1>2. extract_frames(Append(text, c)) = Cut([frames |-> frames, rest |-> rest], c)
  BY <1>1, ExtractAppend
<1>3. PICK more \in FrameLists : more = extract_frames(Append(text, c)).frames
  <2>1. Append(text, c) \in Texts
    BY AppendProperties DEF Texts
  <2> QED
    BY <2>1, ExtractType
<1>4. PICK h \in FrameLists : h = Dispatch(frames) /\ Dispatch(Append(frames, rest)) = Hears(h, rest)
  BY DispatchAppend
<1>5. Len(h) \in Nat /\ Len(Append(h, Message(rest))) = Len(h) + 1
  <2>1. Message(rest) \in Texts
    BY MessageType
  <2> QED
    BY <2>1, LenProperties, AppendProperties DEF FrameLists
<1>6. Heard(text) = Len(h) /\ Heard(Append(text, c)) = Len(Dispatch(more))
  BY <1>1, <1>3, <1>4 DEF Heard
<1>7. more \in {frames, Append(frames, rest)}
  BY <1>2, <1>3 DEF Cut
<1>8. Len(Hears(h, rest)) \in {Len(h), Len(h) + 1}
  BY <1>5 DEF Hears
<1>9. ASSUME c \in Term, IsDispatched(rest) PROVE Len(Dispatch(more)) = Len(h) + 1
  <2>1. rest # <<>>
    <3>1. Len(rest) >= 4
      BY <1>9 DEF IsDispatched
    <3> QED
      BY <3>1, EmptySeq
  <2>2. more = Append(frames, rest)
    BY <1>2, <1>3, <1>9, <2>1 DEF Cut, Term
  <2>3. Hears(h, rest) = Append(h, Message(rest))
    BY <1>9 DEF Hears
  <2> QED
    BY <1>4, <1>5, <2>2, <2>3
<1>10. Len(Dispatch(more)) \in {Len(h), Len(h) + 1}
  BY <1>4, <1>7, <1>8
<1> QED
  BY <1>1, <1>5, <1>6, <1>9, <1>10

-----------------------------------------------------------------------------
\* The units of a text: positions from a start that earlier texts share, apart so
\* that no character is before, in or after two of them.
Apart(E) == \A u, v \in E : u # v => u[2] < v[1] - 1 \/ v[2] < u[1] - 1

UnitsOf(E, base, text) ==
  /\ E \in SUBSET (Nat \X Nat) /\ IsFiniteSet(E) /\ base \in Nat
  /\ \A u \in E : Unit(text, u[1] - base, u[2] - base)

\* The units that have ended by m.
Until(E, m) == {u \in E : u[2] <= m}

\* Of the units that end in the first k characters each is heard as a message of its own.
LEMMA UnitsAreHeard ==
  ASSUME NEW text \in Texts, NEW n \in Nat, Len(text) = n,
         NEW E, NEW base, UnitsOf(E, base, text), Apart(E), NEW k \in 0..n
  PROVE  /\ IsFiniteSet(Until(E, base + k)) /\ Cardinality(Until(E, base + k)) \in Nat
         /\ Heard(SubSeq(text, 1, k)) \in Nat
         /\ Cardinality(Until(E, base + k)) <= Heard(SubSeq(text, 1, k))
<1>1. E \in SUBSET (Nat \X Nat) /\ IsFiniteSet(E) /\ base \in Nat
  BY DEF UnitsOf
<1>2. \A m : IsFiniteSet(Until(E, m)) /\ Cardinality(Until(E, m)) \in Nat
  <2>1. \A m : Until(E, m) \in SUBSET E
    BY DEF Until
  <2>2. \A m : IsFiniteSet(Until(E, m))
    BY <1>1, <2>1, FS_Subset
  <2> QED
    BY <2>2, FS_CardinalityType
<1>3. \A j \in 0..n : SubSeq(text, 1, j) \in Texts /\ Heard(SubSeq(text, 1, j)) \in Nat
  <2> SUFFICES ASSUME NEW j \in 0..n
               PROVE  SubSeq(text, 1, j) \in Texts /\ Heard(SubSeq(text, 1, j)) \in Nat
    OBVIOUS
  <2>1. 1 \in 1..n + 1
    OBVIOUS
  <2>2. SubSeq(text, 1, j) \in Texts
    BY <2>1, PieceOf
  <2>3. 0 \in Nat
    OBVIOUS
  <2> QED
    BY <2>2, <2>3, HeardGrows
<1> DEFINE T == {j \in 0..n : Cardinality(Until(E, base + j)) <= Heard(SubSeq(text, 1, j))}
<1>4. 0 \in T
  <2>1. Until(E, base + 0) = {}
    <3> SUFFICES ASSUME NEW u \in E, u[2] <= base PROVE FALSE
      BY <1>1 DEF Until
    <3>1. u[2] - base >= 1 /\ u[2] \in Nat
      BY <1>1 DEF UnitsOf, Unit
    <3> QED
      BY <1>1, <3>1
  <2>2. Cardinality(Until(E, base + 0)) = 0
    BY <2>1, FS_EmptySet
  <2>3. 0 \in 0..n
    OBVIOUS
  <2> HIDE DEF T
  <2>4. 0 <= Heard(SubSeq(text, 1, 0))
    BY <1>3, <2>3
  <2> QED
    BY <2>2, <2>3, <2>4 DEF T
<1>5. ASSUME NEW j \in 1..n, j - 1 \in T PROVE j \in T
  <2> DEFINE old == Until(E, base + (j - 1))
             new == Until(E, base + j)
  <2>1. PICK before \in Texts : before = SubSeq(text, 1, j - 1)
    <3>1. j - 1 \in 0..n
      OBVIOUS
    <3> QED
      BY <1>3, <3>1, Zenon
  <2>2. text[j] \in Nat
    BY ElementOfSeq DEF Texts
  <2>3. SubSeq(text, 1, j) = Append(before, text[j])
    <3>1. 1 \in 1..Len(text) /\ j \in 1..Len(text) /\ 1 <= j
      OBVIOUS
    <3>2. SubSeq(text, 1, j) = SubSeq(text, 1, j - 1) \o <<text[j]>>
      BY <3>1, SubSeqRecursiveSecond DEF Texts
    <3>3. Append(before, text[j]) = before \o <<text[j]>>
      BY <2>2, AppendIsConcat DEF Texts
    <3> QED
      BY <2>1, <3>2, <3>3
  <2>4. Cardinality(old) <= Heard(before)
    BY <1>5, <2>1
  <2>5. CASE \A u \in E : u[2] # base + j
    <3>1. new = old
      <4>1. \A u \in E : u[2] <= base + j <=> u[2] <= base + (j - 1)
        BY <1>1, <2>5
      <4> QED
        BY <4>1 DEF Until
    <3>2. PICK h, hh \in Nat : h = Heard(before) /\ hh = Heard(Append(before, text[j])) /\ hh >= h
      BY <2>2, HeardGrows
    <3>3. PICK x \in Nat : x = Cardinality(old)
      BY <1>2, Zenon
    <3>4. x <= h
      BY <2>4, <3>2, <3>3, Zenon
    <3>5. x <= hh
      BY <3>2, <3>4
    <3>6. Cardinality(new) <= Heard(SubSeq(text, 1, j))
      BY <2>3, <3>1, <3>2, <3>3, <3>5, Zenon
    <3> j \in 0..n
      OBVIOUS
    <3> QED
      BY <3>6, Zenon DEF T
  <2>6. ASSUME NEW u \in E, u[2] = base + j PROVE j \in T
    <3>1. PICK s \in Nat : s = u[1] - base /\ Unit(text, s, j)
      <4>1. u[1] \in Nat /\ u[2] \in Nat /\ Unit(text, u[1] - base, u[2] - base)
        BY <1>1 DEF UnitsOf
      <4>2. u[2] - base = j
        BY <1>1, <2>6
      <4>3. u[1] - base \in Nat
        BY <4>1 DEF Unit
      <4> QED
        BY <4>1, <4>2, <4>3
    <3>2. /\ s \in 1..j - 1 /\ text[j] \in Term /\ (s = 1 \/ text[s - 1] \in Term)
          /\ \A i \in s..j - 1 : text[i] \notin Term
          /\ IsDispatched(SubSeq(text, s, j - 1))
      BY <3>1 DEF Unit
    <3>3. extract_frames(before).rest = SubSeq(text, s, j - 1)
      <4>1. PICK k1 \in Nat : k1 = j - 1
        OBVIOUS
      <4>2. 1 \in 1..n + 1 /\ k1 \in 0..n /\ k1 >= 1
        BY <3>2, <4>1
      <4>3. Len(before) = k1 /\ \A i \in 1..k1 : before[i] = text[i]
        <5>1. Len(SubSeq(text, 1, k1)) = (IF 1 <= k1 THEN k1 - 1 + 1 ELSE 0)
              /\ \A i \in 1..k1 - 1 + 1 : SubSeq(text, 1, k1)[i] = text[1 + i - 1]
          BY <4>2, PieceOf
        <5>2. k1 - 1 + 1 = k1 /\ \A i \in 1..k1 : 1 + i - 1 = i
          BY <4>2
        <5> QED
          BY <2>1, <4>1, <4>2, <5>1, <5>2
      <4>4. s \in 1..k1 + 1 /\ (s = 1 \/ before[s - 1] \in Term) /\ \A i \in s..k1 : before[i] \notin Term
        BY <3>2, <4>1, <4>3
      <4>5. extract_frames(before).rest = SubSeq(before, s, k1)
        BY <4>1, <4>3, <4>4, RestSince
      <4>6. SubSeq(before, s, k1) = SubSeq(text, s, k1)
        <5>1. /\ s \in 1..n + 1 /\ k1 \in 0..n /\ 0 \in Int /\ s - 0 = s /\ k1 - 0 = k1
              /\ s - 0 \in 1..k1 + 1 /\ k1 - 0 \in 0..k1
          BY <3>2, <4>1, <4>2
        <5>2. \A i \in s..k1 : before[i - 0] = text[i]
          BY <3>2, <4>3
        <5>3. SubSeq(before, s - 0, k1 - 0) = SubSeq(text, s, k1)
          BY <4>1, <4>3, <5>1, <5>2, SamePiece
        <5> QED
          BY <5>1, <5>3
      <4> QED
        BY <4>1, <4>5, <4>6
    <3>4. Heard(before) \in Nat /\ Heard(Append(before, text[j])) = Heard(before) + 1
      BY <2>2, <3>2, <3>3, HeardGrows
    <3>5. new \subseteq old \cup {u}
      <4> SUFFICES ASSUME NEW v \in E, v[2] <= base + j, v # u PROVE v[2] <= base + (j - 1)
        BY DEF Until
      <4>1. u[1] \in Nat /\ u[2] \in Nat /\ v[1] \in Nat /\ v[2] \in Nat
        BY <1>1
      <4>2. u[1] < u[2] /\ v[1] < v[2]
        <5>1. Unit(text, v[1] - base, v[2] - base) /\ Unit(text, u[1] - base, u[2] - base)
          BY DEF UnitsOf
        <5>2. v[1] - base < v[2] - base /\ u[1] - base < u[2] - base
          BY <5>1 DEF Unit
        <5> QED
          BY <1>1, <4>1, <5>2
      <4>3. u[2] < v[1] - 1 \/ v[2] < u[1] - 1
        BY DEF Apart
      <4> QED
        BY <1>1, <2>6, <4>1, <4>2, <4>3
    <3>6. Cardinality(new) <= Cardinality(old) + 1
      <4>1. IsFiniteSet(old) /\ Cardinality(old) \in Nat /\ Cardinality(new) \in Nat
        BY <1>2
      <4> HIDE DEF old, new
      <4>2. IsFiniteSet(old \cup {u}) /\ Cardinality(old \cup {u}) \in {Cardinality(old), Cardinality(old) + 1}
        BY <4>1, FS_AddElement
      <4>3. Cardinality(new) <= Cardinality(old \cup {u})
        BY <3>5, <4>2, FS_Subset
      <4> QED
        BY <4>1, <4>2, <4>3
    <3>7. PICK x, xx \in Nat : x = Cardinality(old) /\ xx = Cardinality(new)
      BY <1>2, Zenon
    <3>8. PICK h \in Nat : h = Heard(before)
      BY <3>4, Zenon
    <3>9. x <= h
      BY <2>4, <3>7, <3>8, Zenon
    <3>10. xx <= x + 1
      BY <3>6, <3>7, Zenon
    <3>11. xx <= h + 1
      BY <3>9, <3>10
    <3>12. Cardinality(new) <= Heard(SubSeq(text, 1, j))
      BY <2>3, <3>4, <3>7, <3>8, <3>11, Zenon
    <3> j \in 0..n
      OBVIOUS
    <3> QED
      BY <3>12, Zenon DEF T
  <2> HIDE DEF T
  <2> QED
    BY <2>5, <2>6
<1>6. 0..n \subseteq T
  <2> HIDE DEF T
  <2> QED
    BY <1>4, <1>5, InductionUpTo
<1> QED
  BY <1>2, <1>3, <1>6

-----------------------------------------------------------------------------
(***************************************************************************)
(* The frame of a report.                                                  *)
(***************************************************************************)

\* Texts without terminators have none when put together.
LEMMA CleanJoins ==
  ASSUME NEW a \in Texts, NEW b \in Texts, Clean(a), Clean(b)
  PROVE  Clean(a \o b)
<1>1. PICK p, q \in Nat : p = Len(a) /\ q = Len(b)
  BY LenProperties DEF Texts
<1>2. Len(a \o b) = p + q /\ \A i \in 1..p + q : (a \o b)[i] = IF i <= p THEN a[i] ELSE b[i - p]
  BY <1>1, ConcatProperties DEF Texts
<1> SUFFICES ASSUME NEW i \in 1..p + q PROVE (a \o b)[i] \notin {CR, LF}
  BY <1>2 DEF Clean
<1>3. CASE i <= p
  BY <1>1, <1>2, <1>3 DEF Clean
<1>4. CASE ~(i <= p)
  <2>1. i - p \in 1..q
    BY <1>4
  <2>2. b[i - p] \notin {CR, LF}
    BY <1>1, <2>1 DEF Clean
  <2> QED
    BY <1>2, <1>4, <2>2
<1> QED
  BY <1>3, <1>4

\* Digits are no terminators.
LEMMA DigitsAreClean ==
  ASSUME NEW n \in 0..255
  PROVE  Hex2(n) \in Texts /\ Clean(Hex2(n))
<1>1. n \div 16 \in 0..15 /\ n % 16 \in 0..15
  OBVIOUS
<1>2. \A d \in 0..15 : HexDigit(d) \in Nat /\ HexDigit(d) \notin {CR, LF}
  BY DEF HexDigit, CR, LF
<1>3. PICK x, y \in Nat : Hex2(n) = <<x, y>> /\ x \notin {CR, LF} /\ y \notin {CR, LF}
  BY <1>1, <1>2, Zenon DEF Hex2
<1>4. <<x, y>> \in Texts /\ Clean(<<x, y>>)
  BY <1>3 DEF Texts, Clean
<1> QED
  BY <1>3, <1>4

\* The message follows the two digits of the length.
LEMMA MessageAt ==
  ASSUME NEW m \in Texts, NEW n \in Nat, Len(m) = n, n >= 4
  PROVE  \A i \in 1..n - 4 : Message(m)[i] = m[2 + i]
<1>1. PICK a \in 1..n + 1, b \in 0..n : a = 3 /\ b = n - 2
  OBVIOUS
<1>2. \A i \in 1..b - a + 1 : SubSeq(m, a, b)[i] = m[a + i - 1]
  BY PieceOf
<1>3. b - a + 1 = n - 4 /\ \A i \in 1..n - 4 : a + i - 1 = 2 + i
  BY <1>1
<1>4. Message(m) = SubSeq(m, a, b)
  BY <1>1, Zenon DEF Message
<1> QED
  BY <1>2, <1>3, <1>4, Zenon

\* One and two are positions of a text of two characters or more.
LEMMA TwoFits ==
  ASSUME NEW n \in Nat, n >= 2
  PROVE  1 \in 1..n + 1 /\ 2 \in 0..n /\ 1 <= 2 /\ 2 - 1 + 1 = 2
OBVIOUS

\* The first two characters of a text.
LEMMA HeadOfText ==
  ASSUME NEW text \in Texts, NEW n \in Nat, n = Len(text), n >= 2
  PROVE  /\ SubSeq(text, 1, 2) \in Texts /\ Len(SubSeq(text, 1, 2)) = 2
         /\ \A i \in 1..2 : SubSeq(text, 1, 2)[i] = text[i]
<1>0. 1 \in 1..n + 1 /\ 2 \in 0..n /\ 1 <= 2 /\ 2 - 1 + 1 = 2
  BY TwoFits, Zenon
<1>1. PICK a \in 1..n + 1, b \in 0..n : a = 1 /\ b = 2 /\ a <= b /\ b - a + 1 = 2
  BY <1>0, Zenon
<1>2. /\ SubSeq(text, a, b) \in Texts
      /\ Len(SubSeq(text, a, b)) = IF a <= b THEN b - a + 1 ELSE 0
      /\ \A i \in 1..b - a + 1 : SubSeq(text, a, b)[i] = text[a + i - 1]
  BY PieceOf
<1>3. \A i \in 1..2 : a + i - 1 = i
  BY <1>1
<1>4. Len(SubSeq(text, a, b)) = 2
  BY <1>1, <1>2
<1>5. \A i \in 1..2 : SubSeq(text, a, b)[i] = text[i]
  BY <1>1, <1>2, <1>3, Zenon
<1> QED
  BY <1>1, <1>2, <1>4, <1>5, Zenon

\* The frame of a report is one that is dispatched.
LEMMA ReportIsHeard ==
  ASSUME NEW report \in Reports
  PROVE  /\ finalize(report) \in Texts /\ Clean(finalize(report))
         /\ IsDispatched(finalize(report))
<1>1. PICK size \in Nat :
        /\ report \in Texts /\ size = Len(report) /\ size \in 0..251
        /\ size >= 2 /\ size + 6 <= MaxFrame
  <2>1. report \in Seq(Nat) /\ Len(report) <= 251
    BY FrameAssumption DEF Fits
  <2>2. Len(report) >= 2 /\ Len(report) + 6 <= MaxFrame
    BY ReportAssumption DEF IsReport
  <2>3. PICK size \in Nat : size = Len(report)
    BY <2>1, LenProperties
  <2> QED
    BY <2>1, <2>2, <2>3 DEF Texts
<1>2. Clean(report) /\ SubSeq(report, 1, 2) \in Commands
  <2>1. DOMAIN report = 1..Len(report)
    BY <1>1, LenProperties DEF Texts
  <2> QED
    BY <2>1, ReportAssumption DEF IsReport, Clean
<1>3. PICK m \in Texts : m = finalize(report) /\ Framed(m, report, size)
  <2>1. Framed(finalize(report), report, size)
    BY <1>1, FinalizedIsValid DEF Texts
  <2> QED
    BY <2>1 DEF Framed, Texts
<1>4. Len(m) = size + 6 /\ IsValid(m) /\ Message(m) = report \o <<48, 48>>
  BY <1>3, Zenon DEF Framed
<1>5. PICK rest \in Texts :
        /\ rest = report \o <<48, 48>> /\ Len(rest) = size + 2 /\ Clean(rest)
        /\ \A i \in 1..size : rest[i] = report[i]
  <2>1. PICK zeros \in Texts : zeros = <<48, 48>> /\ Len(zeros) = 2 /\ Clean(zeros)
    <3>1. <<48, 48>> \in Texts /\ Len(<<48, 48>>) = 2 /\ Clean(<<48, 48>>)
      BY DEF Texts, Clean, CR, LF
    <3> QED
      BY <3>1, Zenon
  <2>2. Row(report \o zeros, report, size, zeros, 2)
    BY <1>1, <2>1, TextsConcat
  <2>3. Clean(report \o zeros)
    BY <1>1, <1>2, <2>1, CleanJoins, Zenon
  <2> QED
    BY <2>1, <2>2, <2>3, Zenon DEF Row
<1>6. SubSeq(m, 3, 4) = SubSeq(report, 1, 2)
  <2>1. PICK n \in Nat : n = size + 6 /\ n >= 4 /\ n - 4 = size + 2 /\ n >= 2 + 2
    OBVIOUS
  <2>2. Len(m) = n
    BY <1>4, <2>1, Zenon
  <2>3. \A i \in 1..n - 4 : Message(m)[i] = m[2 + i]
    BY <2>1, <2>2, MessageAt, Zenon
  <2>4. PICK two \in Texts : two = SubSeq(report, 1, 2) /\ Len(two) = 2 /\ \A i \in 1..2 : two[i] = report[i]
    <3>1. /\ SubSeq(report, 1, 2) \in Texts /\ Len(SubSeq(report, 1, 2)) = 2
          /\ \A i \in 1..2 : SubSeq(report, 1, 2)[i] = report[i]
      <4>1. report \in Texts /\ size \in Nat /\ size = Len(report) /\ size >= 2
        BY <1>1, Zenon
      <4> QED
        BY <4>1, HeadOfText, Zenon
    <3> QED
      BY <3>1, Zenon
  <2>5. \A i \in 1..2 : i \in 1..size /\ i \in 1..n - 4
    <3> SUFFICES ASSUME NEW i \in 1..2 PROVE i \in 1..size /\ i \in 1..n - 4
      OBVIOUS
    <3>1. size \in Nat /\ size >= 2 /\ n = size + 6
      BY <1>1, <2>1, Zenon
    <3> QED
      BY <3>1, SMTT(60)
  <2>6. \A i \in 1..2 : m[2 + i] = two[i]
    BY <1>4, <1>5, <2>3, <2>4, <2>5, Zenon
  <2>7. IsAt(m, n, 2, two, 2)
    BY <2>1, <2>2, <2>4, <2>6, Zenon DEF IsAt
  <2>8. 2 \in Nat /\ 2 + 1 = 3 /\ 2 + 2 = 4
    OBVIOUS
  <2>9. SubSeq(m, 2 + 1, 2 + 2) = two
    BY <2>7, <2>8, PieceIs, Zenon
  <2> QED
    BY <2>4, <2>8, <2>9, Zenon
<1>7. IsDispatched(m)
  <2>1. Len(m) <= MaxFrame /\ Len(m) >= 4
    <3>1. size + 6 <= MaxFrame /\ size + 6 >= 4
      <4>1. size \in Nat /\ size + 6 <= MaxFrame
        BY <1>1, Zenon
      <4> QED
        BY <4>1, SMTT(30)
    <3>2. Len(m) = size + 6
      BY <1>4
    <3> QED
      BY <3>1, <3>2, Zenon
  <2> QED
    BY <1>2, <1>4, <1>6, <2>1, Zenon DEF IsDispatched
<1>8. Clean(m)
  <2>1. Hex2(Len(rest) + 2) \in Texts /\ Clean(Hex2(Len(rest) + 2))
    <3>1. size \in 0..251 => size + 2 + 2 \in 0..255
      OBVIOUS
    <3>2. Len(rest) + 2 \in 0..255
      BY <1>1, <1>5, <3>1, Zenon
    <3> QED
      BY <3>2, DigitsAreClean, Zenon
  <2>2. PICK body \in Texts : body = Hex2(Len(rest) + 2) \o rest /\ Clean(body)
    <3>1. Hex2(Len(rest) + 2) \o rest \in Texts
      BY <2>1, ConcatProperties DEF Texts
    <3>2. Clean(Hex2(Len(rest) + 2) \o rest)
      BY <1>5, <2>1, CleanJoins, Zenon
    <3> QED
      BY <3>1, <3>2, Zenon
  <2>3. checksum(body) \in Texts /\ Clean(checksum(body))
    <3>1. body \in Seq(Int)
      <4>1. Nat \subseteq Int /\ body \in Seq(Nat)
        BY <2>2 DEF Texts
      <4> QED
        BY <4>1, SeqMonotonic, Zenon
    <3>2. PICK x \in Int : x = Sum(body)
      BY <3>1, SumIsLoop, LenProperties
    <3>3. ((255 - (x % 256)) + 1) % 256 \in 0..255
      OBVIOUS
    <3>4. ((255 - (Sum(body) % 256)) + 1) % 256 \in 0..255
      BY <3>2, <3>3, Zenon
    <3> QED
      BY <3>4, DigitsAreClean, Zenon DEF checksum
  <2>4. m = body \o checksum(body)
    BY <1>3, <1>5, <2>2, Zenon DEF finalize
  <2> QED
    BY <2>2, <2>3, <2>4, CleanJoins, Zenon
<1> QED
  BY <1>3, <1>7, <1>8, Zenon

-----------------------------------------------------------------------------
(***************************************************************************)
(* Units that are owed.                                                    *)
(***************************************************************************)

\* Units that are still to be heard: the line goes on after each of them.
Owed(E, base, text) ==
  UnitsOf(E, base, text) /\ Apart(E) /\ \A u \in E : u[2] - base < Len(text)

\* What text has from s to e, other has d characters earlier.
Kept(s, e, d, text, other) ==
  /\ s - d >= 1 /\ e - d < Len(other)
  /\ \A i \in s..e : other[i - d] = text[i]
  /\ s - d = 1 \/ (other[(s - 1) - d] = text[s - 1] /\ s # 1)

\* Where a unit lies.
LEMMA UnitLies ==
  ASSUME NEW text \in Texts, NEW n \in Nat, Len(text) = n,
         NEW E, NEW base, Owed(E, base, text), NEW u \in E
  PROVE  /\ base \in Nat
         /\ \E s, e \in 1..n : /\ s = u[1] - base /\ e = u[2] - base
                               /\ u[1] = base + s /\ u[2] = base + e
                               /\ s < e /\ e < n /\ Unit(text, s, e)
<1>1. base \in Nat /\ u[1] \in Nat /\ u[2] \in Nat /\ Unit(text, u[1] - base, u[2] - base) /\ u[2] - base < n
  BY DEF Owed, UnitsOf
<1>2. PICK s, e \in Int : s = u[1] - base /\ e = u[2] - base /\ u[1] = base + s /\ u[2] = base + e
  BY <1>1
<1>3. Unit(text, s, e) /\ e < n
  BY <1>1, <1>2
<1>4. s \in 1..n /\ e \in 1..n /\ s < e
  BY <1>3 DEF Unit
<1> QED
  BY <1>1, <1>2, <1>3, <1>4

\* The units that are kept are owed still.
LEMMA UnitsKept ==
  ASSUME NEW text \in Texts, NEW other \in Texts, NEW E, NEW base, Owed(E, base, text),
         NEW F \in SUBSET E, NEW d \in Nat,
         \A u \in F : Kept(u[1] - base, u[2] - base, d, text, other)
  PROVE  Owed(F, base + d, other)
<1>1. PICK n, m \in Nat : n = Len(text) /\ m = Len(other)
  BY LenProperties DEF Texts
<1>2. base \in Nat /\ base + d \in Nat /\ F \in SUBSET (Nat \X Nat) /\ Apart(F)
  <2>1. base \in Nat /\ E \in SUBSET (Nat \X Nat)
    BY DEF Owed, UnitsOf
  <2>2. base + d \in Nat
    BY <2>1
  <2> QED
    BY <2>1, <2>2, Zenon DEF Owed, Apart
<1>3. IsFiniteSet(F)
  BY FS_Subset DEF Owed, UnitsOf
<1>4. ASSUME NEW u \in F
      PROVE  Unit(other, u[1] - (base + d), u[2] - (base + d)) /\ u[2] - (base + d) < Len(other)
  <2>1. PICK s, e \in 1..n :
          /\ s = u[1] - base /\ e = u[2] - base
          /\ u[1] = base + s /\ u[2] = base + e
          /\ s < e /\ e < n /\ Unit(text, s, e)
    BY <1>1, UnitLies
  <2>2. /\ s - d >= 1 /\ e - d < m
        /\ \A i \in s..e : other[i - d] = text[i]
        /\ s - d = 1 \/ (other[(s - 1) - d] = text[s - 1] /\ s # 1)
    <3>1. Kept(s, e, d, text, other)
      BY <2>1, Zenon
    <3> QED
      BY <1>1, <3>1, Zenon DEF Kept
  <2>3. s - d = u[1] - (base + d) /\ e - d = u[2] - (base + d)
    BY <1>2, <2>1
  <2>4. Unit(other, s - d, e - d)
    <3>1. s \in Nat /\ e \in Nat /\ d \in Int /\ e - d <= m
      BY <2>2
    <3> QED
      BY <1>1, <2>1, <2>2, <3>1, UnitMoves
  <2> QED
    BY <1>1, <2>2, <2>3, <2>4, Zenon
<1>5. UnitsOf(F, base + d, other)
  BY <1>2, <1>3, <1>4, Zenon DEF UnitsOf
<1>6. \A u \in F : u[2] - (base + d) < Len(other)
  BY <1>4, Zenon
<1> QED
  BY <1>2, <1>5, <1>6, Zenon DEF Owed

\* The units of a text are finitely many: each ends at a place of its own.
LEMMA OwedIsFinite ==
  ASSUME NEW E, NEW base, NEW text, Owed(E, base, text)
  PROVE  IsFiniteSet(E) /\ Cardinality(E) \in Nat
BY FS_CardinalityType DEF Owed, UnitsOf

\* More characters take nothing away.
LEMMA MoreKeeps ==
  ASSUME NEW text \in Texts, NEW more \in Texts, NEW E, NEW base, Owed(E, base, text)
  PROVE  text \o more \in Texts /\ Owed(E, base, text \o more)
<1>1. PICK n, p \in Nat : n = Len(text) /\ p = Len(more)
  BY LenProperties DEF Texts
<1>2. PICK other \in Texts : other = text \o more /\ Len(other) = n + p /\ \A i \in 1..n : other[i] = text[i]
  <2>1. text \o more \in Texts
    BY ConcatProperties DEF Texts
  <2>2. Len(text \o more) = n + p /\ \A i \in 1..n : (text \o more)[i] = text[i]
    BY <1>1, ConcatProperties DEF Texts
  <2> QED
    BY <2>1, <2>2
<1>3. ASSUME NEW u \in E PROVE Kept(u[1] - base, u[2] - base, 0, text, other)
  <2>1. PICK s, e \in 1..n :
          /\ s = u[1] - base /\ e = u[2] - base
          /\ u[1] = base + s /\ u[2] = base + e
          /\ s < e /\ e < n /\ Unit(text, s, e)
    <3>1. Len(text) = n /\ n \in Nat
      BY <1>1
    <3> QED
      BY <3>1, UnitLies
  <2>2. s - 0 >= 1 /\ e - 0 < Len(other)
    <3>1. s - 0 >= 1 /\ e - 0 < n + p
      BY <1>1, <2>1
    <3> QED
      BY <1>2, <3>1, Zenon
  <2>3. \A i \in s..e : other[i - 0] = text[i]
    BY <1>1, <1>2, <2>1
  <2>4. s - 0 = 1 \/ (other[(s - 1) - 0] = text[s - 1] /\ s # 1)
    <3>1. CASE s = 1
      BY <3>1
    <3>2. CASE s # 1
      <4>1. s - 1 \in 1..n /\ (s - 1) - 0 = s - 1
        BY <2>1, <3>2
      <4> QED
        BY <1>2, <3>2, <4>1
    <3> QED
      BY <3>1, <3>2
  <2>5. Kept(s, e, 0, text, other)
    BY <2>2, <2>3, <2>4, Zenon DEF Kept
  <2> QED
    BY <2>1, <2>5, Zenon
<1>4. Owed(E, base + 0, other) /\ base \in Nat
  <2>1. E \in SUBSET E /\ 0 \in Nat /\ base \in Nat
    BY DEF Owed, UnitsOf
  <2> QED
    BY <1>3, <2>1, UnitsKept
<1>5. base + 0 = base
  BY <1>4
<1> QED
  BY <1>2, <1>4, <1>5

-----------------------------------------------------------------------------
(***************************************************************************)
(* What saying and corrupting do to them.                                  *)
(***************************************************************************)

\* A frame and its terminators.
Ended(last, frame, k) ==
  /\ last \in Texts /\ Len(last) = k + 2
  /\ last[k + 1] \in Term /\ last[k + 2] \in Term /\ \A i \in 1..k : last[i] = frame[i]

\* A frame and its terminators: its characters, CR and LF.
LEMMA FrameEnds ==
  ASSUME NEW frame \in Texts, NEW k \in Nat, Len(frame) = k
  PROVE  Ended(frame \o <<CR, LF>>, frame, k)
<1>1. <<CR, LF>> \in Texts /\ Len(<<CR, LF>>) = 2 /\ <<CR, LF>>[1] \in Term /\ <<CR, LF>>[2] \in Term
  BY DEF Texts, CR, LF, Term
<1>2. Row(frame \o <<CR, LF>>, frame, k, <<CR, LF>>, 2)
  BY <1>1, TextsConcat
<1>3. 1 \in 1..2 /\ 2 \in 1..2
  OBVIOUS
<1> QED
  BY <1>1, <1>2, <1>3, Zenon DEF Ended, Row

\* The frame of a report, said when the line is in step, is one more unit.
LEMMA SayAdds ==
  ASSUME NEW text \in Texts, NEW n \in Nat, Len(text) = n, n = 0 \/ text[n] \in Term,
         NEW frame \in Texts, NEW k \in Nat, Len(frame) = k, k >= 1, Clean(frame), IsDispatched(frame),
         NEW last \in Texts, Ended(last, frame, k),
         NEW E, NEW base, Owed(E, base, text)
  PROVE  \E F : Owed(F, base, text \o last) /\ Cardinality(F) = Cardinality(E) + 1
<1>0. PICK other \in Texts : other = text \o last
  BY ConcatProperties DEF Texts
<1>1. base \in Nat /\ IsFiniteSet(E) /\ E \in SUBSET (Nat \X Nat) /\ Apart(E)
  BY DEF Owed, UnitsOf
<1>2. /\ Len(other) = n + k + 2
      /\ \A i \in 1..n : other[i] = text[i]
      /\ \A i \in 1..k : other[n + i] = frame[i]
      /\ other[n + k + 1] \in Term
  <2>1. Len(last) = k + 2 /\ last[k + 1] \in Term /\ \A i \in 1..k : last[i] = frame[i]
    BY DEF Ended
  <2>2. k + 2 \in Nat /\ k + 1 \in 1..k + 2 /\ \A i \in 1..k : i \in 1..k + 2
    OBVIOUS
  <2>3. Row(other, text, n, last, k + 2)
    BY <1>0, <2>1, <2>2, TextsConcat, Zenon
  <2>4. n + (k + 2) = n + k + 2 /\ n + (k + 1) = n + k + 1
    OBVIOUS
  <2>5. Len(other) = n + k + 2 /\ \A i \in 1..n : other[i] = text[i]
    BY <2>3, <2>4, Zenon DEF Row
  <2>6. \A i \in 1..k : other[n + i] = frame[i]
    BY <2>1, <2>2, <2>3, Zenon DEF Row
  <2>7. other[n + k + 1] \in Term
    BY <2>1, <2>2, <2>3, <2>4, Zenon DEF Row
  <2> QED
    BY <2>5, <2>6, <2>7, Zenon
<1>3. Unit(other, n + 1, n + k + 1)
  <2>1. n + 1 \in 1..Len(other) /\ n + k + 1 \in 1..Len(other) /\ n + 1 < n + k + 1
    BY <1>2
  <2>2. n + 1 = 1 \/ other[(n + 1) - 1] \in Term
    <3>1. CASE n = 0
      BY <3>1
    <3>2. CASE n # 0
      <4>1. n \in 1..n /\ (n + 1) - 1 = n
        BY <3>2
      <4> QED
        BY <1>2, <3>2, <4>1
    <3> QED
      BY <3>1, <3>2
  <2>3. (n + k + 1) - 1 = n + k
    OBVIOUS
  <2>4. \A i \in n + 1..n + k : other[i] \notin Term
    <3>1. \A i \in n + 1..n + k : i - n \in 1..k /\ n + (i - n) = i
      OBVIOUS
    <3>2. \A i \in 1..k : other[n + i] \notin Term
      BY <1>2, Zenon DEF Clean, Term
    <3> SUFFICES ASSUME NEW i \in n + 1..n + k PROVE other[i] \notin Term
      OBVIOUS
    <3> QED
      BY <3>1, <3>2, Zenon
  <2>5. SubSeq(other, n + 1, n + k) = frame
    <3>1. n + k + 2 \in Nat /\ n + k <= n + k + 2
      OBVIOUS
    <3>2. IsAt(other, n + k + 2, n, frame, k)
      BY <1>2, <3>1, Zenon DEF IsAt
    <3> QED
      BY <3>1, <3>2, PieceIs, Zenon
  <2> QED
    BY <1>2, <2>1, <2>2, <2>3, <2>4, <2>5, Zenon DEF Unit
<1> DEFINE u == <<base + (n + 1), base + (n + k + 1)>>
           F == E \cup {u}
<1>4. u \in Nat \X Nat /\ u[1] \in Nat /\ u[1] = base + (n + 1) /\ u[2] = base + (n + k + 1)
  BY <1>1
<1>5. u[1] - base = n + 1 /\ u[2] - base = n + k + 1
  BY <1>1
<1> HIDE DEF u
<1>6. \A v \in E : v[2] \in Nat /\ v[2] < u[1] - 1
  <2> SUFFICES ASSUME NEW v \in E PROVE v[2] \in Nat /\ v[2] < u[1] - 1
    OBVIOUS
  <2>1. v[2] \in Nat /\ v[2] - base < n
    <3>1. v[2] - base < Len(text)
      BY DEF Owed
    <3>2. v[2] \in Nat
      BY <1>1
    <3> QED
      BY <3>1, <3>2
  <2>2. \A e, b, w \in Nat : e - b < n /\ w = b + (n + 1) => e < w - 1
    OBVIOUS
  <2> QED
    BY <1>1, <1>4, <2>1, <2>2, Zenon
<1>7. Apart(F)
  BY <1>1, <1>6, Zenon DEF Apart
<1>8. u \notin E
  <2> SUFFICES ASSUME u \in E PROVE FALSE
    OBVIOUS
  <2>1. u[2] < u[1] - 1
    BY <1>6
  <2> QED
    BY <1>1, <1>4, <2>1
<1>9. IsFiniteSet(F) /\ Cardinality(F) = Cardinality(E) + 1
  BY <1>1, <1>8, FS_AddElement
<1>10. Owed(E, base, other)
  BY <1>0, MoreKeeps
<1>11. UnitsOf(F, base, other)
  <2>1. F \in SUBSET (Nat \X Nat)
    BY <1>1, <1>4
  <2>2. \A v \in E : Unit(other, v[1] - base, v[2] - base)
    BY <1>10, Zenon DEF Owed, UnitsOf
  <2>3. Unit(other, u[1] - base, u[2] - base)
    BY <1>3, <1>5, Zenon
  <2> QED
    BY <1>1, <1>9, <2>1, <2>2, <2>3, Zenon DEF UnitsOf
<1>12. \A v \in F : v[2] - base < Len(other)
  <2>1. \A v \in E : v[2] - base < Len(other)
    BY <1>10, Zenon DEF Owed
  <2>2. n + k + 1 < n + k + 2
    OBVIOUS
  <2>3. u[2] - base < Len(other)
    BY <1>2, <1>5, <2>2, Zenon
  <2> QED
    BY <2>1, <2>3, Zenon
<1>13. Owed(F, base, other)
  BY <1>7, <1>11, <1>12, Zenon DEF Owed
<1> QED
  BY <1>0, <1>9, <1>13, Zenon

\* A corrupted character costs one unit at most, and none when it is the last.
Changed(text, other, n, pos) ==
  Len(text) = n /\ Len(other) = n /\ \A i \in 1..n : i # pos => other[i] = text[i]

\* A corrupted character takes one unit away at most, the one that it is in, and
\* none when it is the last character of all, which no unit has.
LEMMA CorruptDrops ==
  ASSUME NEW text \in Texts, NEW other \in Texts, NEW n \in Nat, NEW pos \in 1..n, Changed(text, other, n, pos),
         NEW E, NEW base, Owed(E, base, text)
  PROVE  \E F : /\ Owed(F, base, other) /\ Cardinality(F) \in Nat
                /\ Cardinality(F) >= Cardinality(E) - 1
                /\ pos = n => Cardinality(F) = Cardinality(E)
<1> DEFINE Hit(u) == u[1] - base - 1 <= pos /\ pos <= u[2] - base
           F == {u \in E : ~Hit(u)}
<1>0. Len(text) = n /\ Len(other) = n /\ \A i \in 1..n : i # pos => other[i] = text[i]
  BY DEF Changed
<1>1. base \in Nat /\ IsFiniteSet(E) /\ E \in SUBSET (Nat \X Nat) /\ Apart(E) /\ Cardinality(E) \in Nat
  BY OwedIsFinite DEF Owed, UnitsOf
<1>2. \A u, v \in E : Hit(u) /\ Hit(v) => u = v
  <2> SUFFICES ASSUME NEW u \in E, NEW v \in E, Hit(u), Hit(v), u # v PROVE FALSE
    OBVIOUS
  <2>1. u[2] < v[1] - 1 \/ v[2] < u[1] - 1
    BY <1>1, Zenon DEF Apart
  <2>2. u[1] \in Nat /\ u[2] \in Nat /\ v[1] \in Nat /\ v[2] \in Nat
    BY <1>1
  <2> QED
    BY <1>1, <2>1, <2>2
<1>3. F \in SUBSET E /\ IsFiniteSet(F) /\ Cardinality(F) \in Nat
  BY <1>1, FS_Subset, FS_CardinalityType
<1>4. Cardinality(F) >= Cardinality(E) - 1
  <2>1. CASE \A u \in E : ~Hit(u)
    <3>1. F = E
      BY <2>1
    <3> HIDE DEF F
    <3> QED
      BY <1>1, <3>1
  <2>2. ASSUME NEW u \in E, Hit(u) PROVE Cardinality(F) >= Cardinality(E) - 1
    <3>1. F = E \ {u}
      BY <1>2, <2>2
    <3> HIDE DEF F
    <3>2. Cardinality(F) = Cardinality(E) - 1
      BY <1>1, <3>1, FS_RemoveElement
    <3> QED
      BY <1>1, <3>2
  <2> QED
    BY <2>1, <2>2
<1>5. pos = n => F = E
  <2> SUFFICES ASSUME pos = n, NEW u \in E PROVE ~Hit(u)
    OBVIOUS
  <2>1. u[2] - base < n
    BY <1>0 DEF Owed
  <2> QED
    BY <1>1, <2>1
<1>6. ASSUME NEW u \in F PROVE Kept(u[1] - base, u[2] - base, 0, text, other)
  <2>1. u \in E /\ ~Hit(u)
    OBVIOUS
  <2>2. PICK s, e \in 1..n :
          /\ s = u[1] - base /\ e = u[2] - base
          /\ u[1] = base + s /\ u[2] = base + e
          /\ s < e /\ e < n /\ Unit(text, s, e)
    BY <1>0, <2>1, UnitLies
  <2>3. ~(s - 1 <= pos /\ pos <= e)
    BY <2>1, <2>2, Zenon
  <2>4. s - 0 >= 1 /\ e - 0 < n
    BY <2>2
  <2>5. \A i \in s..e : other[i - 0] = text[i]
    <3>1. \A i \in s..e : i \in 1..n /\ i # pos /\ i - 0 = i
      BY <2>2, <2>3
    <3> QED
      BY <1>0, <3>1
  <2>6. s - 0 = 1 \/ (other[(s - 1) - 0] = text[s - 1] /\ s # 1)
    <3>1. CASE s = 1
      BY <3>1
    <3>2. CASE s # 1
      <4>1. s - 1 \in 1..n /\ (s - 1) - 0 = s - 1 /\ s - 1 # pos
        BY <2>2, <2>3, <3>2
      <4> QED
        BY <1>0, <3>2, <4>1
    <3> QED
      BY <3>1, <3>2
  <2>7. Kept(s, e, 0, text, other)
    BY <1>0, <2>4, <2>5, <2>6, Zenon DEF Kept
  <2> QED
    BY <2>2, <2>7, Zenon
<1> HIDE DEF F
<1>7. Owed(F, base + 0, other)
  <2>1. 0 \in Nat
    OBVIOUS
  <2> QED
    BY <1>3, <1>6, <2>1, UnitsKept, Zenon
<1>8. base + 0 = base
  BY <1>1
<1>9. Owed(F, base, other)
  BY <1>7, <1>8, Zenon
<1> QED
  BY <1>3, <1>4, <1>5, <1>9, Zenon

-----------------------------------------------------------------------------
(***************************************************************************)
(* What a read leaves over.                                                *)
(***************************************************************************)

\* What a read keeps of the characters it knows.
KeptOf(known) ==
  IF Len(extract_frames(known).rest) > MaxFrame THEN <<>> ELSE extract_frames(known).rest

\* left is the end of known, after d characters, and no frame that may still
\* become complete has begun before.
Remains(left, known, k, d) ==
  /\ left \in Texts /\ Len(left) = k - d /\ \A i \in 1..k - d : left[i] = known[d + i]
  /\ \A s \in 1..k :
       (s = 1 \/ known[s - 1] \in Term) /\ (\A i \in s..k : known[i] \notin Term) /\ k - s + 1 <= MaxFrame
         => s > d

\* A read keeps what follows the last terminator, or nothing when that is too
\* much; no unit that has yet to end began before what it keeps.
LEMMA LeftOver ==
  ASSUME NEW known \in Texts, NEW k \in Nat, Len(known) = k
  PROVE  \E d \in 0..k : Remains(KeptOf(known), known, k, d)
<1>1. PICK rest \in Texts : rest = extract_frames(known).rest
  BY ExtractType
<1>2. PICK size \in Nat : size = Len(rest)
  BY <1>1, LenProperties DEF Texts
<1>3. MaxFrame \in Nat
  BY FrameAssumption
<1>4. CASE size > MaxFrame
  <2>1. KeptOf(known) = <<>>
    BY <1>1, <1>2, <1>4, Zenon DEF KeptOf
  <2>2. <<>> \in Texts /\ Len(<<>>) = 0
    BY EmptySeq DEF Texts
  <2>3. k \in 0..k /\ k - k = 0 /\ 1..0 = {}
    OBVIOUS
  <2>4. ASSUME NEW s \in 1..k, s = 1 \/ known[s - 1] \in Term, \A i \in s..k : known[i] \notin Term,
               k - s + 1 <= MaxFrame
        PROVE  FALSE
    <3>1. rest = SubSeq(known, s, k)
      <4>1. s \in 1..k + 1
        OBVIOUS
      <4> QED
        BY <1>1, <2>4, <4>1, RestSince, Zenon
    <3>2. Len(SubSeq(known, s, k)) = k - s + 1
      <4>1. s \in 1..k + 1 /\ k \in 0..k /\ s <= k
        OBVIOUS
      <4>2. Len(SubSeq(known, s, k)) = IF s <= k THEN k - s + 1 ELSE 0
        BY <4>1, PieceOf, Zenon
      <4> QED
        BY <4>1, <4>2
    <3>3. size = k - s + 1
      BY <1>2, <3>1, <3>2, Zenon
    <3> QED
      BY <1>3, <1>4, <2>4, <3>3
  <2>5. \A i \in 1..k - k : <<>>[i] = known[k + i]
    BY <2>3
  <2>6. Remains(<<>>, known, k, k)
    BY <2>2, <2>3, <2>4, <2>5, Zenon DEF Remains
  <2> QED
    BY <2>1, <2>3, <2>6, Zenon
<1>5. CASE ~(size > MaxFrame)
  <2>1. KeptOf(known) = rest
    BY <1>1, <1>2, <1>5, Zenon DEF KeptOf
  <2>2. PICK d \in 0..k :
          /\ rest = SubSeq(known, d + 1, k)
          /\ (d = 0 \/ known[d] \in Term)
          /\ \A i \in d + 1..k : known[i] \notin Term
    BY <1>1, RestIsSuffix
  <2>3. Len(rest) = k - d /\ \A i \in 1..k - d : rest[i] = known[d + i]
    <3>0. d + 1 \in 1..k + 1 /\ k \in 0..k
      <4>1. d \in 0..k
        BY <2>2, Zenon
      <4> QED
        BY <4>1, SMTT(30)
    <3>1. PICK a \in 1..k + 1, b \in 0..k : a = d + 1 /\ b = k
      BY <3>0, Zenon
    <3>2. /\ Len(SubSeq(known, a, b)) = IF a <= b THEN b - a + 1 ELSE 0
          /\ \A i \in 1..b - a + 1 : SubSeq(known, a, b)[i] = known[a + i - 1]
      <4>1. a \in 1..k + 1 /\ b \in 0..k
        BY <3>1, Zenon
      <4> QED
        BY <4>1, PieceOf, ZenonT(60)
    <3>3. b - a + 1 = k - d /\ (IF a <= b THEN b - a + 1 ELSE 0) = k - d /\ \A i \in 1..k - d : a + i - 1 = d + i
      <4>1. a = d + 1 /\ b = k /\ d \in 0..k
        BY <2>2, <3>1, Zenon
      <4> QED
        BY <4>1, SMTT(30)
    <3>4. rest = SubSeq(known, a, b)
      BY <2>2, <3>1, Zenon
    <3>5. Len(rest) = k - d
      BY <3>2, <3>3, <3>4, Zenon
    <3>6. \A i \in 1..k - d : rest[i] = known[a + i - 1]
      BY <3>2, <3>3, <3>4, Zenon
    <3> QED
      BY <3>3, <3>5, <3>6, Zenon
  <2>4. ASSUME NEW s \in 1..k, \A i \in s..k : known[i] \notin Term
        PROVE  s > d
    <3> SUFFICES ASSUME ~(s > d) PROVE FALSE
      OBVIOUS
    <3>1. d \in s..k /\ d # 0
      OBVIOUS
    <3> QED
      BY <2>2, <2>4, <3>1
  <2>5. Remains(rest, known, k, d)
    BY <2>3, <2>4, Zenon DEF Remains
  <2> QED
    BY <2>1, <2>5, Zenon
<1> QED
  BY <1>4, <1>5

\* Two rows with the same end.
Rows(text, other, known, left, unread, k, d, q) ==
  /\ k \in Nat /\ d \in 0..k /\ q \in Nat
  /\ Row(text, known, k, unread, q) /\ Row(other, left, k - d, unread, q) /\ Remains(left, known, k, d)

\* other is text, n characters long, without the first d.
Shifted(text, other, n, d) ==
  Len(text) = n /\ Len(other) = n - d /\ \A i \in d + 1..n : other[i - d] = text[i]

\* Two texts that end the same are the same but for a shift.
LEMMA RowsAgree ==
  ASSUME NEW text, NEW other, NEW known, NEW left, NEW unread, NEW k, NEW d, NEW q,
         Rows(text, other, known, left, unread, k, d, q)
  PROVE  Shifted(text, other, k + q, d)
<1>0. k \in Nat /\ d \in 0..k /\ q \in Nat
  BY DEF Rows
<1>1. Len(text) = k + q /\ Len(other) = (k + q) - d
  <2>1. (k - d) + q = (k + q) - d
    BY <1>0
  <2> QED
    BY <2>1, Zenon DEF Rows, Row
<1>2. ASSUME NEW i \in d + 1..k + q, i <= k PROVE other[i - d] = text[i]
  <2>1. PICK j \in 1..k - d : j = i - d /\ d + j = i /\ i \in 1..k
    BY <1>0, <1>2
  <2>2. other[j] = left[j] /\ left[j] = known[d + j] /\ text[i] = known[i]
    BY <2>1, Zenon DEF Rows, Row, Remains
  <2> QED
    BY <2>1, <2>2, Zenon
<1>3. ASSUME NEW i \in d + 1..k + q, ~(i <= k) PROVE other[i - d] = text[i]
  <2>1. PICK j \in 1..q : k + j = i /\ (k - d) + j = i - d
    <3>1. i - k \in 1..q /\ k + (i - k) = i /\ (k - d) + (i - k) = i - d
      BY <1>0, <1>3
    <3> QED
      BY <3>1
  <2>2. text[k + j] = unread[j] /\ other[(k - d) + j] = unread[j]
    BY <2>1, Zenon DEF Rows, Row
  <2> QED
    BY <2>1, <2>2, Zenon
<1> QED
  BY <1>1, <1>2, <1>3, Zenon DEF Shifted

\* A read hears the units that have ended; the others stay owed.
LEMMA ReadMoves ==
  ASSUME NEW known \in Texts, NEW k \in Nat, Len(known) = k,
         NEW unread \in Texts, NEW q \in Nat, Len(unread) = q,
         NEW text \in Texts, Row(text, known, k, unread, q),
         NEW E, NEW base, Owed(E, base, text)
  PROVE  /\ KeptOf(known) \o unread \in Texts
         /\ \E d \in 0..k + q : Shifted(text, KeptOf(known) \o unread, k + q, d)
         /\ \E F, start : /\ Owed(F, start, KeptOf(known) \o unread)
                          /\ Cardinality(F) \in Nat /\ Heard(known) \in Nat
                          /\ Cardinality(E) <= Heard(known) + Cardinality(F)
<1>1. PICK d \in 0..k : Remains(KeptOf(known), known, k, d)
  BY LeftOver
<1>2. PICK left \in Texts : left = KeptOf(known) /\ Remains(left, known, k, d) /\ Len(left) = k - d
  BY <1>1 DEF Remains
<1>3. PICK other \in Texts : other = left \o unread
  BY ConcatProperties DEF Texts
<1>4. PICK n \in Nat : n = k + q
  OBVIOUS
<1>5. Row(text, known, k, unread, q)
  OBVIOUS
<1>6. /\ Len(text) = n /\ Len(other) = n - d
      /\ \A i \in d + 1..n : other[i - d] = text[i]
  <2>1. PICK r \in Nat : r = k - d
    OBVIOUS
  <2>2. Row(other, left, r, unread, q)
    BY <1>2, <1>3, <2>1, TextsConcat, Zenon
  <2>3. Row(other, left, k - d, unread, q)
    BY <2>1, <2>2, Zenon
  <2> QED
    <3>1. Rows(text, other, known, left, unread, k, d, q)
      BY <1>2, <1>5, <2>3, Zenon DEF Rows
    <3>2. Shifted(text, other, k + q, d)
      BY <3>1, RowsAgree
    <3> QED
      BY <1>4, <3>2, Zenon DEF Shifted
<1>61. d \in 0..k + q /\ Shifted(text, other, k + q, d)
  <2>1. d \in 0..k + q
    OBVIOUS
  <2> QED
    BY <1>4, <1>6, <2>1, Zenon DEF Shifted
<1> DEFINE F == {u \in E : ~(u[2] <= base + k)}
           H == Until(E, base + k)
<1>7. base \in Nat /\ IsFiniteSet(E) /\ E \in SUBSET (Nat \X Nat) /\ Apart(E) /\ UnitsOf(E, base, text)
  BY DEF Owed, UnitsOf
<1>8. F \in SUBSET E
  BY Zenon
<1>9. IsFiniteSet(F) /\ Cardinality(F) \in Nat
  BY <1>7, <1>8, FS_Subset, FS_CardinalityType
<1>10. Heard(known) \in Nat /\ Cardinality(E) <= Heard(known) + Cardinality(F)
  <2>1. SubSeq(text, 1, k) = known
    <3>1. IsAt(text, n, 0, known, k)
      <4>1. 0 + k <= n /\ \A i \in 1..k : 0 + i = i
        BY <1>4
      <4>2. \A i \in 1..k : text[i] = known[i]
        BY <1>5, Zenon DEF Row
      <4> QED
        BY <1>6, <4>1, <4>2, Zenon DEF IsAt
    <3>2. 0 \in Nat /\ 0 + 1 = 1 /\ 0 + k = k
      OBVIOUS
    <3>3. SubSeq(text, 0 + 1, 0 + k) = known
      BY <1>4, <3>1, <3>2, PieceIs, Zenon
    <3> QED
      BY <3>2, <3>3, Zenon
  <2>2. k \in 0..n
    BY <1>4
  <2>3. /\ IsFiniteSet(H) /\ Cardinality(H) \in Nat
        /\ Heard(known) \in Nat /\ Cardinality(H) <= Heard(known)
    BY <1>4, <1>6, <1>7, <2>1, <2>2, UnitsAreHeard, Zenon
  <2>4. E = H \cup F /\ H \cap F = {}
    BY DEF Until
  <2> HIDE DEF H, F
  <2>5. Cardinality(E) = Cardinality(H) + Cardinality(F) - Cardinality(H \cap F) /\ Cardinality(H \cap F) = 0
    BY <1>9, <2>3, <2>4, FS_Union, FS_EmptySet
  <2>6. \A a, b, c, e, f \in Nat : a <= b /\ e = a + c - f /\ f = 0 => e <= b + c
    OBVIOUS
  <2>7. Cardinality(E) \in Nat /\ Cardinality(H \cap F) \in Nat
    BY <1>7, <2>5, FS_CardinalityType
  <2> QED
    BY <1>9, <2>3, <2>5, <2>6, <2>7, Zenon
<1>11. ASSUME NEW u \in F PROVE Kept(u[1] - base, u[2] - base, d, text, other)
  <2>1. u \in E /\ ~(u[2] <= base + k)
    OBVIOUS
  <2>2. PICK s, e \in 1..n :
          /\ s = u[1] - base /\ e = u[2] - base
          /\ u[1] = base + s /\ u[2] = base + e
          /\ s < e /\ e < n /\ Unit(text, s, e)
    <3>1. Len(text) = n
      BY <1>6
    <3> QED
      BY <2>1, <3>1, UnitLies
  <2>3. e > k
    BY <1>7, <2>1, <2>2
  <2>4. /\ (s = 1 \/ text[s - 1] \in Term)
        /\ \A i \in s..e - 1 : text[i] \notin Term
        /\ IsDispatched(SubSeq(text, s, e - 1))
    BY <2>2 DEF Unit
  <2>5. s > d
    <3>1. CASE s > k
      BY <3>1
    <3>2. CASE ~(s > k)
      <4>1. s \in 1..k
        BY <3>2
      <4>2. \A i \in 1..k : text[i] = known[i]
        BY <1>5, Zenon DEF Row
      <4>3. s = 1 \/ known[s - 1] \in Term
        <5>1. s # 1 => s - 1 \in 1..k
          BY <4>1
        <5> QED
          BY <2>4, <4>2, <5>1, Zenon
      <4>4. \A i \in s..k : known[i] \notin Term
        <5>1. \A i \in s..k : i \in 1..k /\ i \in s..e - 1
          BY <2>3, <4>1
        <5> QED
          BY <2>4, <4>2, <5>1, Zenon
      <4>5. k - s + 1 <= MaxFrame
        <5>1. Len(SubSeq(text, s, e - 1)) = e - s
          <6>1. e - 1 \in 0..n /\ s \in 1..n + 1 /\ (s < e => s <= e - 1) /\ (e - 1) - s + 1 = e - s
            OBVIOUS
          <6>2. Len(SubSeq(text, s, e - 1)) = IF s <= e - 1 THEN (e - 1) - s + 1 ELSE 0
            BY <1>4, <1>6, <6>1, PieceOf, Zenon
          <6> QED
            BY <2>2, <6>1, <6>2, Zenon
        <5>2. e - s <= MaxFrame
          BY <2>4, <5>1, Zenon DEF IsDispatched
        <5> QED
          BY <2>3, <5>2, FrameAssumption
      <4> QED
        BY <1>2, <4>1, <4>3, <4>4, <4>5, Zenon DEF Remains
    <3> QED
      BY <3>1, <3>2
  <2>6. s - d >= 1 /\ e - d < n - d
    BY <2>2, <2>5
  <2>7. \A i \in s..e : other[i - d] = text[i]
    <3>1. \A i \in s..e : i \in d + 1..n
      BY <2>2, <2>5
    <3> QED
      BY <1>6, <3>1, Zenon
  <2>8. s - d = 1 \/ (other[(s - 1) - d] = text[s - 1] /\ s # 1)
    <3>1. CASE s - d = 1
      BY <3>1
    <3>2. CASE s - d # 1
      <4>1. s - 1 \in d + 1..n /\ s # 1
        BY <2>5, <3>2
      <4> QED
        BY <1>6, <4>1, Zenon
    <3> QED
      BY <3>1, <3>2
  <2>9. Kept(s, e, d, text, other)
    BY <1>6, <2>6, <2>7, <2>8, Zenon DEF Kept
  <2> QED
    BY <2>2, <2>9, Zenon
<1> HIDE DEF F
<1>12. Owed(F, base + d, other)
  <2>1. d \in Nat
    OBVIOUS
  <2> QED
    BY <1>8, <1>11, <2>1, UnitsKept, Zenon
<1> QED
  BY <1>2, <1>3, <1>61, <1>9, <1>10, <1>12, Zenon

-----------------------------------------------------------------------------
(***************************************************************************)
(* What was said, against what is heard, owed and lost.                    *)
(***************************************************************************)

\* A line that does not end in a terminator is out of step: the next message is
\* lost.
Stray(text) == IF text # <<>> /\ text[Len(text)] \notin Term THEN 1 ELSE 0

\* What was said is heard, or a unit of the text, or lost to noise.
Owes(text, got, lost, told) ==
  \E E, base : Owed(E, base, text) /\ got + Cardinality(E) + lost >= told + Stray(text)

\* A stray character is one that no terminator follows.
LEMMA StrayOf ==
  ASSUME NEW text \in Texts, NEW n \in Nat, Len(text) = n
  PROVE  /\ Stray(text) \in {0, 1}
         /\ Stray(text) = 0 <=> (n = 0 \/ text[n] \in Term)
<1>1. n = 0 <=> text = <<>>
  BY EmptySeq DEF Texts
<1> QED
  BY <1>1 DEF Stray

\* At the start nothing was said and nothing is owed.
LEMMA NothingOwed == Owes(<<>>, 0, 0, 0)
<1>1. UnitsOf({}, 0, <<>>) /\ Apart({}) /\ Cardinality({}) = 0
  BY FS_EmptySet DEF UnitsOf, Apart
<1>2. Owed({}, 0, <<>>)
  BY <1>1 DEF Owed
<1>3. Stray(<<>>) = 0
  BY DEF Stray
<1> QED
  BY <1>1, <1>2, <1>3 DEF Owes

\* A report on the line is one more unit, except after a stray end, which has
\* accounted for its loss.
LEMMA SayOwes ==
  ASSUME NEW text \in Texts, NEW report \in Reports,
         NEW got \in Nat, NEW lost \in Nat, NEW told \in Nat, Owes(text, got, lost, told)
  PROVE  Owes(text \o (finalize(report) \o <<CR, LF>>), got, lost, told + 1)
<1>1. PICK n \in Nat : n = Len(text)
  BY LenProperties DEF Texts
<1>2. PICK frame \in Texts : frame = finalize(report) /\ Clean(frame) /\ IsDispatched(frame)
  BY ReportIsHeard
<1>3. PICK k \in Nat : k = Len(frame) /\ k >= 1
  <2>1. Len(frame) >= 4
    BY <1>2 DEF IsDispatched
  <2>2. PICK k \in Nat : k = Len(frame)
    BY LenProperties DEF Texts
  <2> QED
    BY <2>1, <2>2
<1>4. PICK last \in Texts : last = frame \o <<CR, LF>> /\ Ended(last, frame, k)
  <2>1. Ended(frame \o <<CR, LF>>, frame, k)
    BY <1>3, FrameEnds
  <2> QED
    BY <2>1 DEF Ended
<1>5. PICK q \in Nat \ {0} : q = k + 2 /\ Len(last) = q /\ last[q] \in Term
  <2>1. k + 2 \in Nat \ {0}
    OBVIOUS
  <2> QED
    BY <1>4, <2>1, Zenon DEF Ended
<1>6. PICK other \in Texts : other = text \o last /\ Row(other, text, n, last, q)
  <2>1. Row(text \o last, text, n, last, q)
    BY <1>1, <1>5, TextsConcat
  <2> QED
    BY <2>1 DEF Row
<1>7. Stray(other) = 0
  <2>1. PICK m \in Nat : m = n + q
    OBVIOUS
  <2>2. Len(other) = m /\ other[m] \in Term
    <3>1. Len(other) = n + q /\ other[n + q] = last[q]
      <4>1. q \in 1..q
        OBVIOUS
      <4> QED
        BY <1>6, <4>1, Zenon DEF Row
    <3> QED
      BY <1>5, <2>1, <3>1, Zenon
  <2> QED
    BY <2>2, StrayOf
<1>8. PICK E, base : Owed(E, base, text) /\ got + Cardinality(E) + lost >= told + Stray(text)
  BY DEF Owes
<1>9. PICK size \in Nat : size = Cardinality(E)
  BY <1>8, OwedIsFinite
<1>10. CASE Stray(text) = 0
  <2>1. n = 0 \/ text[n] \in Term
    BY <1>1, <1>10, StrayOf
  <2>2. PICK F : Owed(F, base, other) /\ Cardinality(F) = Cardinality(E) + 1
    <3>1. \E F : Owed(F, base, text \o last) /\ Cardinality(F) = Cardinality(E) + 1
      <4>1. Len(text) = n /\ Len(frame) = k /\ k >= 1 /\ Owed(E, base, text)
        BY <1>1, <1>3, <1>8, Zenon
      <4>2. Clean(frame) /\ IsDispatched(frame) /\ Ended(last, frame, k)
        BY <1>2, <1>4, Zenon
      <4> QED
        BY <2>1, <4>1, <4>2, SayAdds
    <3> QED
      BY <1>6, <3>1, Zenon
  <2>3. got + size + lost >= told
    BY <1>8, <1>9, <1>10
  <2>4. got + (size + 1) + lost >= (told + 1) + 0
    BY <2>3
  <2>5. got + Cardinality(F) + lost >= (told + 1) + Stray(other)
    BY <1>7, <1>9, <2>2, <2>4, Zenon
  <2>6. Owes(other, got, lost, told + 1)
    BY <2>2, <2>5, Zenon DEF Owes
  <2> QED
    BY <1>2, <1>4, <1>6, <2>6, Zenon
<1>11. CASE Stray(text) = 1
  <2>1. Owed(E, base, text \o last)
    BY <1>8, MoreKeeps
  <2>2. got + size + lost >= (told + 1) + 0
    BY <1>8, <1>9, <1>11
  <2>3. got + Cardinality(E) + lost >= (told + 1) + Stray(other)
    BY <1>7, <1>9, <2>2, Zenon
  <2>4. Owes(other, got, lost, told + 1)
    BY <1>6, <2>1, <2>3, Zenon DEF Owes
  <2> QED
    BY <1>2, <1>4, <1>6, <2>4, Zenon
<1> QED
  BY <1>1, <1>10, <1>11, StrayOf

\* A corrupted character costs one unit and is counted.
LEMMA CorruptOwes ==
  ASSUME NEW text \in Texts, NEW other \in Texts, NEW n \in Nat, NEW pos \in 1..n, Changed(text, other, n, pos),
         NEW got \in Nat, NEW lost \in Nat, NEW told \in Nat, Owes(text, got, lost, told)
  PROVE  Owes(other, got, lost + 1, told)
<1>1. PICK E, base : Owed(E, base, text) /\ got + Cardinality(E) + lost >= told + Stray(text)
  BY DEF Owes
<1>2. PICK F :
        /\ Owed(F, base, other) /\ Cardinality(F) \in Nat
        /\ Cardinality(F) >= Cardinality(E) - 1
        /\ pos = n => Cardinality(F) = Cardinality(E)
  BY <1>1, CorruptDrops
<1>3. PICK x, y \in Nat : x = Cardinality(E) /\ y = Cardinality(F) /\ y >= x - 1 /\ (pos = n => y = x)
  BY <1>1, <1>2, OwedIsFinite
<1>4. PICK r, t \in {0, 1} : r = Stray(text) /\ t = Stray(other) /\ (pos # n => r = t)
  <2>1. /\ Stray(text) \in {0, 1} /\ Stray(other) \in {0, 1}
        /\ (Stray(text) = 0 <=> (n = 0 \/ text[n] \in Term))
        /\ (Stray(other) = 0 <=> (n = 0 \/ other[n] \in Term))
    <3>1. Len(text) = n /\ Len(other) = n
      BY DEF Changed
    <3> QED
      BY <3>1, StrayOf
  <2>2. pos # n => other[n] = text[n]
    <3>1. n \in 1..n
      OBVIOUS
    <3> QED
      BY <3>1, Zenon DEF Changed
  <2> QED
    BY <2>1, <2>2
<1>5. got + x + lost >= told + r
  BY <1>1, <1>3, <1>4, Zenon
<1>6. got + y + (lost + 1) >= told + t
  <2>1. y >= x - 1 /\ (y = x \/ r = t)
    BY <1>3, <1>4
  <2>2. \A g, a, b, l, m \in Nat, u, v \in {0, 1} :
          g + a + l >= m + u /\ b >= a - 1 /\ (b = a \/ u = v) => g + b + (l + 1) >= m + v
    OBVIOUS
  <2> QED
    BY <1>5, <2>1, <2>2, Zenon
<1>7. got + Cardinality(F) + (lost + 1) >= told + Stray(other)
  BY <1>3, <1>4, <1>6, Zenon
<1> QED
  BY <1>2, <1>7, Zenon DEF Owes

\* A read hears the units that end in what it reads and owes the others.
LEMMA ReadOwes ==
  ASSUME NEW known \in Texts, NEW k \in Nat, Len(known) = k,
         NEW unread \in Texts, NEW q \in Nat, Len(unread) = q,
         NEW text \in Texts, Row(text, known, k, unread, q),
         NEW got \in Nat, NEW lost \in Nat, NEW told \in Nat, Owes(text, got, lost, told)
  PROVE  Heard(known) \in Nat /\ Owes(KeptOf(known) \o unread, got + Heard(known), lost, told)
<1>1. PICK E, base : Owed(E, base, text) /\ got + Cardinality(E) + lost >= told + Stray(text)
  BY DEF Owes
<1>2. /\ KeptOf(known) \o unread \in Texts
      /\ \E d \in 0..k + q : Shifted(text, KeptOf(known) \o unread, k + q, d)
      /\ \E F, start : /\ Owed(F, start, KeptOf(known) \o unread)
                       /\ Cardinality(F) \in Nat /\ Heard(known) \in Nat
                       /\ Cardinality(E) <= Heard(known) + Cardinality(F)
  BY <1>1, ReadMoves
<1>3. PICK other \in Texts : other = KeptOf(known) \o unread
  BY <1>2
<1>4. PICK F, start :
        /\ Owed(F, start, other)
        /\ Cardinality(F) \in Nat /\ Heard(known) \in Nat
        /\ Cardinality(E) <= Heard(known) + Cardinality(F)
  BY <1>2, <1>3, Zenon
<1>5. PICK x, y, h \in Nat : x = Cardinality(E) /\ y = Cardinality(F) /\ h = Heard(known) /\ x <= h + y
  BY <1>1, <1>4, OwedIsFinite
<1>6. PICK r, t \in {0, 1} : r = Stray(text) /\ t = Stray(other) /\ t <= r
  <2>0. PICK n \in Nat : n = k + q
    OBVIOUS
  <2>1. PICK d \in 0..n : Shifted(text, other, n, d)
    BY <1>2, <1>3, <2>0, Zenon
  <2>2. PICK m \in Nat : m = n - d
    OBVIOUS
  <2>3. Len(text) = n /\ Len(other) = m /\ \A i \in d + 1..n : other[i - d] = text[i]
    BY <2>1, <2>2, Zenon DEF Shifted
  <2>4. m # 0 => other[m] = text[n] /\ n # 0
    <3>1. m # 0 => n \in d + 1..n /\ n # 0
      BY <2>2
    <3> QED
      BY <2>2, <2>3, <3>1, Zenon
  <2>5. /\ Stray(text) \in {0, 1} /\ Stray(other) \in {0, 1}
        /\ (Stray(text) = 0 <=> (n = 0 \/ text[n] \in Term))
        /\ (Stray(other) = 0 <=> (m = 0 \/ other[m] \in Term))
    BY <2>3, StrayOf
  <2>6. Stray(text) = 0 => Stray(other) = 0
    BY <2>4, <2>5, Zenon
  <2>7. \A u, v \in {0, 1} : (u = 0 => v = 0) => v <= u
    OBVIOUS
  <2> QED
    BY <2>5, <2>6, <2>7, Zenon
<1>7. got + x + lost >= told + r
  BY <1>1, <1>5, <1>6, Zenon
<1>8. (got + h) + y + lost >= told + t
  <2>1. x <= h + y /\ t <= r
    BY <1>5, <1>6
  <2> QED
    BY <1>7, <2>1
<1>9. (got + Heard(known)) + Cardinality(F) + lost >= told + Stray(other)
  BY <1>5, <1>6, <1>8, Zenon
<1>10. Owes(other, got + Heard(known), lost, told)
  BY <1>4, <1>9, Zenon DEF Owes
<1> QED
  BY <1>3, <1>4, <1>10, Zenon

\* Everything said is heard, on its way in a frame of its own, or lost to noise.
CostInv == Owes(buffer \o line, Len(heard), noise, Len(said))

\* When everything is read, all units are heard.
LEMMA OwedIsHeard ==
  ASSUME StreamOK, CostInv
  PROVE  ErrorCostsOneMessage
<1>1. line \in Texts /\ buffer \in Texts /\ said \in FrameLists /\ heard \in FrameLists /\ noise \in Nat
  BY DEF StreamOK
<1>2. PICK text \in Texts : text = buffer \o line
  BY <1>1, TextsJoin
<1>3. PICK n \in Nat : n = Len(text)
  BY <1>2, LenProperties DEF Texts
<1>4. PICK E, base : Owed(E, base, text) /\ Len(heard) + Cardinality(E) + noise >= Len(said) + Stray(text)
  BY <1>2, Zenon DEF CostInv, Owes
<1>5. Until(E, base + n) = E
  <2> SUFFICES ASSUME NEW u \in E PROVE u[2] <= base + n
    BY DEF Until
  <2>1. base \in Nat /\ u[2] \in Nat
    BY <1>4 DEF Owed, UnitsOf
  <2>2. u[2] - base < n
    BY <1>3, <1>4, Zenon DEF Owed
  <2> QED
    BY <2>1, <2>2
<1>6. Heard(text) \in Nat /\ Cardinality(E) \in Nat /\ Cardinality(E) <= Heard(text)
  <2>1. UnitsOf(E, base, text) /\ Apart(E) /\ Len(text) = n /\ n \in 0..n
    BY <1>3, <1>4 DEF Owed
  <2>2. SubSeq(text, 1, n) = text
    BY <1>2, <1>3, SubSeqFull DEF Texts
  <2>3. /\ Cardinality(Until(E, base + n)) \in Nat
        /\ Heard(SubSeq(text, 1, n)) \in Nat
        /\ Cardinality(Until(E, base + n)) <= Heard(SubSeq(text, 1, n))
    BY <2>1, UnitsAreHeard, Zenon
  <2> QED
    BY <1>5, <2>2, <2>3, Zenon
<1>7. PICK more \in FrameLists : more = Dispatch(extract_frames(text).frames)
  <2>1. extract_frames(text).frames \in FrameLists
    BY ExtractType
  <2>2. <<>> \in Texts
    BY DEF Texts
  <2> QED
    BY <2>1, <2>2, DispatchAppend
<1>8. PICK a, b, c, g \in Nat : a = Len(heard) /\ b = Len(more) /\ c = Len(said) /\ g = Cardinality(E) /\ g <= b
  <2>1. Len(heard) \in Nat /\ Len(more) \in Nat /\ Len(said) \in Nat
    BY <1>1, <1>7, LenProperties DEF FrameLists
  <2>2. Cardinality(E) <= Len(more)
    BY <1>6, <1>7, Zenon DEF Heard
  <2> QED
    BY <1>6, <2>1, <2>2, Zenon
<1>9. PICK t \in {0, 1} : t = Stray(text)
  BY <1>3, StrayOf
<1>10. a + g + noise >= c + t
  BY <1>4, <1>8, <1>9, Zenon
<1>11. a + b >= c - noise
  <2>1. g <= b /\ noise \in Nat
    BY <1>1, <1>8
  <2> QED
    BY <1>10, <2>1
<1>12. Len(heard \o more) = a + b
  BY <1>1, <1>7, <1>8, ConcatProperties DEF FrameLists
<1>13. Understood = heard \o more
  BY <1>2, <1>7, Zenon DEF Understood
<1> QED
  BY <1>8, <1>11, <1>12, <1>13, Zenon DEF ErrorCostsOneMessage

\* Each of the three steps of the stream keeps the invariant.
LEMMA SayKeepsCost ==
  ASSUME StreamOK, CostInv, NEW report \in Reports, Say(report)
  PROVE  CostInv'
<1>1. line \in Texts /\ buffer \in Texts /\ said \in FrameLists /\ heard \in FrameLists /\ noise \in Nat
  BY DEF StreamOK
<1>2. PICK text \in Texts : text = buffer \o line
  BY <1>1, TextsJoin
<1>3. PICK frame \in Texts, end \in Texts : frame = finalize(report) /\ end = <<CR, LF>>
  <2>1. finalize(report) \in Texts
    BY FitsMakesText
  <2>2. <<CR, LF>> \in Texts
    BY DEF Texts, CR, LF
  <2> QED
    BY <2>1, <2>2
<1>4. buffer' \o line' = text \o (frame \o end)
  <2>1. frame \o end \in Texts
    BY TextsJoin
  <2>2. (line \o frame) \o end = line \o (frame \o end)
    <3>1. line \in Texts
      BY <1>1
    <3> QED
      BY <3>1, TextsRegroup, SMTT(60)
  <2>3. (buffer \o line) \o (frame \o end) = buffer \o (line \o (frame \o end))
    <3>1. line \in Texts /\ buffer \in Texts
      BY <1>1
    <3> QED
      BY <2>1, <3>1, TextsRegroup, SMTT(60)
  <2>4. buffer' = buffer /\ line' = (line \o frame) \o end
    BY <1>3, Zenon DEF Say
  <2> QED
    BY <1>2, <2>2, <2>3, <2>4, Zenon
<1>5. PICK got, told \in Nat : got = Len(heard) /\ told = Len(said)
  BY <1>1, LenProperties DEF FrameLists
<1>6. Len(said') = told + 1 /\ Len(heard') = got /\ noise' = noise
  <2>1. report \o <<48, 48>> \in Texts
    <3>1. report \in Texts /\ <<48, 48>> \in Texts
      BY FrameAssumption DEF Fits, Texts
    <3> QED
      BY <3>1, TextsJoin
  <2>2. Len(Append(said, report \o <<48, 48>>)) = told + 1
    BY <1>1, <1>5, <2>1, AppendProperties DEF FrameLists
  <2> QED
    BY <1>5, <2>2, Zenon DEF Say
<1>7. Owes(text, got, noise, told)
  BY <1>2, <1>5, Zenon DEF CostInv
<1>8. Owes(text \o (frame \o end), got, noise, told + 1)
  BY <1>1, <1>3, <1>7, SayOwes, Zenon
<1> QED
  BY <1>4, <1>6, <1>8, Zenon DEF CostInv

LEMMA CorruptKeepsCost ==
  ASSUME StreamOK, CostInv, NEW i \in DOMAIN line, NEW c \in NoiseChars, Corrupt(i, c)
  PROVE  CostInv'
<1>1. line \in Texts /\ buffer \in Texts /\ said \in FrameLists /\ heard \in FrameLists /\ noise \in Nat
  BY DEF StreamOK
<1>2. PICK text \in Texts : text = buffer \o line
  BY <1>1, TextsJoin
<1>3. PICK p, q \in Nat : p = Len(buffer) /\ q = Len(line)
  BY <1>1, LenProperties DEF Texts
<1>4. i \in 1..q /\ c \in Nat
  BY <1>1, <1>3, FrameAssumption DEF Texts
<1>5. PICK changed \in Texts :
        /\ changed = [line EXCEPT ![i] = c] /\ Len(changed) = q
        /\ \A j \in 1..q : j # i => changed[j] = line[j]
  <2>1. [line EXCEPT ![i] = c] \in Texts /\ Len([line EXCEPT ![i] = c]) = q
    BY <1>1, <1>3, <1>4, ExceptSeq DEF Texts
  <2>2. \A j \in 1..q : j # i => [line EXCEPT ![i] = c][j] = line[j]
    BY <1>1, <1>3, <1>4, ExceptSeq DEF Texts
  <2> QED
    BY <2>1, <2>2, Zenon
<1>6. PICK other \in Texts : other = buffer \o changed
  BY <1>1, <1>5, TextsJoin
<1>7. Row(text, buffer, p, line, q) /\ Row(other, buffer, p, changed, q)
  <2>1. Row(buffer \o line, buffer, p, line, q)
    BY <1>1, <1>3, TextsConcat
  <2>2. Row(buffer \o changed, buffer, p, changed, q)
    BY <1>1, <1>3, <1>5, TextsConcat
  <2> QED
    BY <1>2, <1>6, <2>1, <2>2, Zenon
<1>8. PICK n \in Nat, pos \in Nat : n = p + q /\ pos = p + i /\ pos \in 1..n
  <2>1. p + q \in Nat /\ p + i \in Nat /\ p + i \in 1..p + q
    BY <1>4
  <2> QED
    BY <2>1
<1>9. Changed(text, other, n, pos)
  <2>1. ASSUME NEW j \in 1..n, j # pos, j <= p PROVE other[j] = text[j]
    <3>1. j \in 1..p
      BY <2>1
    <3> QED
      BY <1>7, <3>1, Zenon DEF Row
  <2>2. ASSUME NEW j \in 1..n, j # pos, ~(j <= p) PROVE other[j] = text[j]
    <3>1. PICK m \in 1..q : j = p + m /\ m # i
      <4>1. j - p \in 1..q /\ j = p + (j - p) /\ j - p # i
        BY <1>4, <1>8, <2>2
      <4> QED
        BY <4>1
    <3>2. other[p + m] = changed[m] /\ text[p + m] = line[m]
      BY <1>7, <3>1, Zenon DEF Row
    <3> QED
      BY <1>5, <3>1, <3>2, Zenon
  <2>3. Len(text) = n /\ Len(other) = n
    BY <1>7, <1>8, Zenon DEF Row
  <2> QED
    BY <2>1, <2>2, <2>3, Zenon DEF Changed
<1>10. PICK got, told \in Nat : got = Len(heard) /\ told = Len(said)
  BY <1>1, LenProperties DEF FrameLists
<1>11. Owes(text, got, noise, told)
  BY <1>2, <1>10, Zenon DEF CostInv
<1>12. Owes(other, got, noise + 1, told)
  BY <1>1, <1>8, <1>9, <1>11, CorruptOwes
<1>13. buffer' = buffer /\ line' = changed /\ noise' = noise + 1 /\ heard' = heard /\ said' = said
  BY <1>5, Zenon DEF Corrupt
<1> QED
  BY <1>6, <1>10, <1>12, <1>13, Zenon DEF CostInv

LEMMA ReadKeepsCost ==
  ASSUME StreamOK, CostInv,
         NEW n \in 1..(IF Len(line) < ReadSize THEN Len(line) ELSE ReadSize), Read(n)
  PROVE  CostInv'
<1>1. line \in Texts /\ buffer \in Texts /\ said \in FrameLists /\ heard \in FrameLists /\ noise \in Nat
  BY DEF StreamOK
<1>2. PICK read, unread \in Texts :
        read = SubSeq(line, 1, n) /\ unread = SubSeq(line, n + 1, Len(line)) /\ line = read \o unread
  BY <1>1, LineSplits
<1>3. PICK known \in Texts : known = buffer \o read /\ buffer \o line = known \o unread
  <2>1. buffer \o read \in Texts
    BY <1>1, TextsJoin
  <2>2. (buffer \o read) \o unread = buffer \o (read \o unread)
    BY <1>1, TextsRegroup
  <2> QED
    BY <1>2, <2>1, <2>2, Zenon
<1>4. PICK text \in Texts : text = known \o unread /\ text = buffer \o line
  BY <1>3, TextsJoin
<1>5. PICK k, q \in Nat : k = Len(known) /\ q = Len(unread)
  BY LenProperties DEF Texts
<1>6. Row(text, known, k, unread, q)
  <2>1. Row(known \o unread, known, k, unread, q)
    BY <1>5, TextsConcat
  <2> QED
    BY <1>4, <2>1, Zenon
<1>7. PICK got, told \in Nat : got = Len(heard) /\ told = Len(said)
  BY <1>1, LenProperties DEF FrameLists
<1>8. Owes(text, got, noise, told)
  BY <1>4, <1>7, Zenon DEF CostInv
<1>9. Heard(known) \in Nat /\ Owes(KeptOf(known) \o unread, got + Heard(known), noise, told)
  BY <1>1, <1>5, <1>6, <1>8, ReadOwes
<1>10. /\ heard' = heard \o Dispatch(extract_frames(known).frames)
       /\ buffer' = KeptOf(known) /\ line' = unread /\ said' = said /\ noise' = noise
  <2>1. heard' = heard \o Dispatch(extract_frames(known).frames)
    BY <1>2, <1>3, Zenon DEF Read
  <2>2. buffer' = KeptOf(known)
    BY <1>2, <1>3, Zenon DEF Read, KeptOf
  <2>3. line' = unread /\ said' = said /\ noise' = noise
    BY <1>2, Zenon DEF Read
  <2> QED
    BY <2>1, <2>2, <2>3
<1>11. Len(heard') = got + Heard(known)
  <2>1. PICK more \in FrameLists : more = Dispatch(extract_frames(known).frames)
    <3>1. extract_frames(known).frames \in FrameLists
      BY ExtractType
    <3>2. <<>> \in Texts
      BY DEF Texts
    <3> QED
      BY <3>1, <3>2, DispatchAppend
  <2>2. Len(heard \o more) = got + Len(more)
    BY <1>1, <1>7, ConcatProperties DEF FrameLists
  <2> QED
    BY <1>10, <2>1, <2>2, Zenon DEF Heard
<1> QED
  BY <1>7, <1>9, <1>10, <1>11, Zenon DEF CostInv

\* For every report, noise, read and frame length: a corrupted character costs at
\* most one message.
THEOREM ErrorsCostOneMessageEach == FrameSpec => []ErrorCostsOneMessage
<1>1. FrameInit => CostInv
  <2> SUFFICES ASSUME FrameInit PROVE CostInv
    OBVIOUS
  <2>1. buffer \o line = <<>> /\ Len(heard) = 0 /\ Len(said) = 0 /\ noise = 0
    <3>1. <<>> \o <<>> = <<>> /\ Len(<<>>) = 0
      BY EmptySeq, ConcatEmptySeq
    <3> QED
      BY <3>1, Zenon DEF FrameInit
  <2> QED
    BY <2>1, NothingOwed, Zenon DEF CostInv
<1>2. ASSUME StreamOK, CostInv, [FrameNext]_frameVars PROVE CostInv'
  <2>1. ASSUME NEW report \in Reports, Say(report) PROVE CostInv'
    BY <1>2, <2>1, SayKeepsCost, Zenon
  <2>2. ASSUME NEW i \in DOMAIN line, NEW c \in NoiseChars, Corrupt(i, c) PROVE CostInv'
    BY <1>2, <2>2, CorruptKeepsCost, Zenon
  <2>3. ASSUME NEW n \in 1..(IF Len(line) < ReadSize THEN Len(line) ELSE ReadSize), Read(n) PROVE CostInv'
    BY <1>2, <2>3, ReadKeepsCost, Zenon
  <2>4. ASSUME NEW request \in Requests, Write(request) PROVE CostInv'
    BY <1>2, <2>4, Zenon DEF Write, CostInv
  <2>5. CASE UNCHANGED frameVars
    BY <1>2, <2>5 DEF frameVars, CostInv
  <2> QED
    BY <1>2, <2>1, <2>2, <2>3, <2>4, <2>5, Zenon DEF FrameNext
<1> QED
  BY <1>1, <1>2, StreamTyped, OwedIsHeard, PTL DEF FrameSpec

-----------------------------------------------------------------------------
(***************************************************************************)
(* The connection.  TypeOK is inductive; NoLostWakeup is inductive with    *)
(* it; the other properties, and the refinement of CommandQueue, need the  *)
(* strengthenings below.                                                   *)
(***************************************************************************)
USE ConnectionAssumption

\* A paused connection has nothing to write: pause() empties the queue and
\* nothing enters it until resume().
PausedIsEmpty == paused => queue = <<>>

\* How many awaited writes are out at each point of the write stream.  One more
\* than the code intends is out only when a left-over response has been used
\* up: then nothing is awaited, so no frame can set the flag again.
GateInv ==
  /\ pump = "none" => inFlight = 0
  /\ pump \in {"scheduled", "idle", "running"} =>
       inFlight = 0 \/ (inFlight = 1 /\ ~response /\ awaiting = None)
  /\ pump = "reply" => inFlight \in 1..2
  /\ ~writer => pump = "none" /\ ~reader
  /\ session = 0 => ~writer /\ ~response /\ awaiting = None
  /\ session = 1 =>
       /\ pump \in {"scheduled", "idle", "running"} =>
            inFlight = 0 /\ ~response /\ awaiting = None
       /\ pump = "reply" => inFlight = 1

\* The urgent writes are the first k of the queue.
UrgentAre(k) == k \in 0..Len(queue) /\ \A i \in 1..Len(queue) : queue[i].urgent <=> i <= k

UrgentFirst == \E k \in Nat : UrgentAre(k)

\* The last RP frame on its way, or else the pause itself, tells the truth.
LatestIsTrue ==
  ~missed =>
    /\ \A i \in DOMAIN inbound :
         /\ inbound[i] \in RpFrames
         /\ \A j \in i+1..Len(inbound) : inbound[j] \notin RpFrames
         => ((inbound[i] = "RP_CONNECTED") <=> rpActive)
    /\ ~RpPending => (paused <=> rpActive)

-----------------------------------------------------------------------------
(***************************************************************************)
(* Types: the flags and the data apart, since no prover does both.         *)
(***************************************************************************)
LEMMA FlagsInvariant == FlagsOK /\ [Next]_vars => FlagsOK'
<1> SUFFICES ASSUME FlagsOK, [Next]_vars PROVE FlagsOK'
  OBVIOUS
<1> USE DEF FlagsOK, linkVars, queueVars, gateVars, panelVars
<1>1. ASSUME NEW reply \in Replies \cup {None}, NEW urgent \in BOOLEAN, Send(reply, urgent)
      PROVE  FlagsOK'
  BY <1>1, Zenon DEF Send
<1>2. CASE WriteStream
  BY <1>2, ZenonT(60) DEF WriteStream, PumpResumes, PumpFindsNothing, PumpWrites,
     ReplyReleases, WaitTimesOut, EndWait
<1>3. CASE PumpFails
  BY <1>3, Zenon DEF PumpFails
<1>4. ASSUME Resync PROVE wake' \in BOOLEAN
  BY <1>4, Zenon DEF Resync
<1>5. CASE ReceiveFrame
  BY <1>4, <1>5, Zenon DEF ReceiveFrame, Pause, Resume
<1>6. CASE OpenTransport
  BY <1>4, <1>6, Zenon DEF OpenTransport
<1>7. CASE ReaderEnds \/ ManagerCancels \/ Supervision
  BY <1>7, Zenon DEF ReaderEnds, ManagerCancels, Supervision, SupervisorCancels,
     CancelStreams, CloseTransport
<1>8. CASE PanelAnswers
  BY <1>8, Zenon DEF PanelAnswers
<1>9. ASSUME NEW frame \in Replies \cup {"IE"}, PanelBroadcasts(frame) PROVE FlagsOK'
  BY <1>9, Zenon DEF PanelBroadcasts
<1>10. CASE PanelProgramming
  BY <1>10, Zenon DEF PanelProgramming
<1>11. CASE UNCHANGED vars
  BY <1>11, Zenon DEF vars
<1> QED
  BY <1>1, <1>2, <1>3, <1>5, <1>6, <1>7, <1>8, <1>9, <1>10, <1>11 DEF Next

\* A write joins a queue of writes, at either end.
LEMMA EnqueueType ==
  ASSUME DataOK, NEW entry \in QueuedWrite
  PROVE  Enqueue(entry) \in Seq(QueuedWrite)
  BY DEF Enqueue, DataOK

\* The writes of one resync are writes.
LEMMA ResyncType ==
  ASSUME DataOK, Resync
  PROVE  queue' \in Seq(QueuedWrite) /\ accepted' \in Nat
<1>1. CASE paused
  BY <1>1 DEF DataOK, Resync, queueVars
<1>2. CASE ~paused
  <2> DEFINE batch == [i \in 1..Len(SyncBatch) |->
                         [id |-> accepted + i, reply |-> SyncBatch[i], urgent |-> FALSE]]
  <2>1. Len(SyncBatch) \in Nat
    BY DEF ConnectionAssumption
  <2>2. \A i \in 1..Len(SyncBatch) : batch[i] \in QueuedWrite
    BY <2>1 DEF DataOK, QueuedWrite, ConnectionAssumption
  <2>3. batch \in Seq(QueuedWrite)
    BY <2>1, <2>2
  <2>4. queue' = queue \o batch /\ accepted' = accepted + Len(SyncBatch)
    BY <1>2 DEF Resync
  <2> QED
    BY <2>1, <2>3, <2>4 DEF DataOK
<1> QED
  BY <1>1, <1>2

LEMMA DataInvariant == DataOK /\ [Next]_vars => DataOK'
<1> SUFFICES ASSUME DataOK, [Next]_vars PROVE DataOK'
  OBVIOUS
<1> USE DEF DataOK, linkVars, queueVars, gateVars, panelVars
<1>1. ASSUME NEW reply \in Replies \cup {None}, NEW urgent \in BOOLEAN, Send(reply, urgent)
      PROVE  DataOK'
  <2>1. [id |-> accepted + 1, reply |-> reply, urgent |-> urgent] \in QueuedWrite
    BY DEF QueuedWrite
  <2>2. queue' \in Seq(QueuedWrite)
    BY <1>1, <2>1, EnqueueType DEF Send
  <2> QED
    BY <1>1, <2>2 DEF Send
<1>2. CASE PumpResumes \/ PumpFindsNothing \/ ReplyReleases \/ WaitTimesOut
  BY <1>2 DEF PumpResumes, PumpFindsNothing, ReplyReleases, WaitTimesOut, EndWait
<1>3. CASE PumpWrites \/ PumpFails
  <2>1. Head(queue) \in QueuedWrite /\ Tail(queue) \in Seq(QueuedWrite)
    BY <1>3 DEF PumpWrites, PumpFails
  <2>2. Head(queue).reply \in Replies \cup {None}
    BY <2>1 DEF QueuedWrite
  <2>3. CASE PumpWrites
    <3>1. wire' \in Seq(Replies \cup {None}) /\ queue' \in Seq(QueuedWrite)
      BY <2>1, <2>2, <2>3 DEF PumpWrites
    <3>2. UNCHANGED <<session, accepted, events, inbound>>
      BY <2>3 DEF PumpWrites
    <3>3. CASE Head(queue).reply = None
      BY <2>3, <3>1, <3>2, <3>3 DEF PumpWrites
    <3>4. CASE Head(queue).reply # None
      <4>1. inFlight' = inFlight + 1
        BY <2>3, <3>4 DEF PumpWrites
      <4>2. \/ awaiting' = None /\ pump' = "running"
            \/ awaiting' = Head(queue).reply /\ pump' = "reply"
        BY <2>3, <3>4 DEF PumpWrites
      <4> QED
        BY <2>2, <3>1, <3>2, <4>1, <4>2
    <3> QED
      BY <3>3, <3>4
  <2>4. CASE PumpFails
    BY <2>1, <2>4 DEF PumpFails
  <2> QED
    BY <1>3, <2>3, <2>4
<1>4. CASE ReceiveFrame
  <2>1. inbound' \in Seq(Frames)
    BY <1>4 DEF ReceiveFrame
  <2>2. \/ UNCHANGED queueVars
        \/ queue' = <<>> /\ accepted' = accepted
        \/ Resync
    BY <1>4 DEF ReceiveFrame, Pause, Resume
  <2>3. queue' \in Seq(QueuedWrite) /\ accepted' \in Nat
    <3>1. CASE UNCHANGED queueVars
      BY <3>1
    <3>2. CASE queue' = <<>> /\ accepted' = accepted
      BY <3>2
    <3>3. CASE Resync
      BY <3>3, ResyncType
    <3> QED
      BY <2>2, <3>1, <3>2, <3>3
  <2>4. UNCHANGED <<session, pump, awaiting, inFlight, wire, events>>
    BY <1>4 DEF ReceiveFrame
  <2> QED
    BY <2>1, <2>3, <2>4
<1>5. CASE OpenTransport
  BY <1>5, ResyncType DEF OpenTransport
<1>6. CASE ReaderEnds \/ ManagerCancels \/ Supervision
  <2>1. CASE ReaderEnds
    BY <2>1 DEF ReaderEnds
  <2>2. ASSUME CancelStreams PROVE DataOK'
    BY <2>2 DEF CancelStreams
  <2>3. CASE CloseTransport
    BY <2>3 DEF CloseTransport
  <2> QED
    BY <1>6, <2>1, <2>2, <2>3 DEF ManagerCancels, Supervision, SupervisorCancels
<1>7. CASE PanelAnswers
  <2>1. Head(wire) \in Replies \cup {None} /\ Tail(wire) \in Seq(Replies \cup {None})
    BY <1>7 DEF PanelAnswers
  <2>2. wire' \in Seq(Replies \cup {None})
    BY <1>7, <2>1 DEF PanelAnswers
  <2>3. \/ inbound' = inbound
        \/ Head(wire) # None /\ inbound' = Append(inbound, Head(wire))
    BY <1>7 DEF PanelAnswers, Emit, LoseFrame
  <2>4. inbound' \in Seq(Frames)
    BY <2>1, <2>3, SMTT(60) DEF Frames
  <2>5. UNCHANGED <<session, pump, queue, accepted, awaiting, inFlight, events>>
    BY <1>7 DEF PanelAnswers
  <2> QED
    BY <2>2, <2>4, <2>5
<1>8. ASSUME NEW frame \in Replies \cup {"IE"}, PanelBroadcasts(frame) PROVE DataOK'
  BY <1>8 DEF PanelBroadcasts, Emit, Frames
<1>9. CASE PanelProgramming
  <2>1. \/ inbound' = inbound
        \/ inbound' = Append(inbound, "RP_DISCONNECTED")
        \/ inbound' = Append(inbound, "RP_CONNECTED")
    BY <1>9, Zenon DEF PanelProgramming, Emit, LoseFrame
  <2>2. "RP_DISCONNECTED" \in Frames /\ "RP_CONNECTED" \in Frames
    BY DEF Frames, RpFrames
  <2>3. inbound' \in Seq(Frames)
    <3>1. CASE inbound' = inbound
      BY <3>1
    <3>2. CASE inbound' = Append(inbound, "RP_DISCONNECTED")
      BY <2>2, <3>2
    <3>3. CASE inbound' = Append(inbound, "RP_CONNECTED")
      BY <2>2, <3>3
    <3> QED
      BY <2>1, <3>1, <3>2, <3>3
  <2>4. /\ UNCHANGED <<session, pump, queue, accepted, awaiting, inFlight, wire>>
        /\ events' = events + 1
    BY <1>9 DEF PanelProgramming
  <2> QED
    BY <2>3, <2>4
<1>10. CASE UNCHANGED vars
  BY <1>10 DEF vars
<1> QED
  BY <1>1, <1>2, <1>3, <1>4, <1>5, <1>6, <1>7, <1>8, <1>9, <1>10 DEF Next, WriteStream

\* Every variable keeps its type, for every bound and every set of replies.
THEOREM TypeCorrect == Spec => []TypeOK
<1>1. Init => FlagsOK
  BY Zenon DEF Init, FlagsOK
<1>2. Init => DataOK
  BY DEF Init, DataOK
<1> QED
  BY <1>1, <1>2, FlagsInvariant, DataInvariant, PTL DEF Spec, TypeOK

-----------------------------------------------------------------------------
(***************************************************************************)
(* The queue, the pause and the wake-up event.                             *)
(***************************************************************************)
LEMMA PausedIsEmptyStep == DataOK /\ PausedIsEmpty /\ [Next]_vars => PausedIsEmpty'
<1> SUFFICES ASSUME DataOK, PausedIsEmpty, [Next]_vars, paused'
             PROVE  queue' = <<>>
  BY DEF PausedIsEmpty
<1> USE DEF PausedIsEmpty, linkVars, queueVars, gateVars, panelVars
<1>1. ASSUME NEW reply \in Replies \cup {None}, NEW urgent \in BOOLEAN, Send(reply, urgent)
      PROVE  queue' = <<>>
  BY <1>1 DEF Send
<1>2. CASE PumpResumes \/ PumpFindsNothing \/ ReplyReleases \/ WaitTimesOut
  BY <1>2 DEF PumpResumes, PumpFindsNothing, ReplyReleases, WaitTimesOut, EndWait
<1>3. CASE PumpWrites \/ PumpFails
  BY <1>3 DEF PumpWrites, PumpFails
<1>4. ASSUME Resync, paused PROVE queue' = <<>>
  BY <1>4 DEF Resync
<1>5. CASE ReceiveFrame
  BY <1>4, <1>5 DEF ReceiveFrame, Pause, Resume
<1>6. CASE OpenTransport
  BY <1>4, <1>6 DEF OpenTransport
<1>7. CASE ReaderEnds \/ ManagerCancels \/ Supervision
  BY <1>7 DEF ReaderEnds, ManagerCancels, Supervision, SupervisorCancels,
     CancelStreams, CloseTransport
<1>8. CASE PanelAnswers \/ PanelProgramming
  BY <1>8 DEF PanelAnswers, PanelProgramming
<1>9. ASSUME NEW frame \in Replies \cup {"IE"}, PanelBroadcasts(frame) PROVE queue' = <<>>
  BY <1>9 DEF PanelBroadcasts
<1>10. CASE UNCHANGED vars
  BY <1>10 DEF vars
<1> QED
  BY <1>1, <1>2, <1>3, <1>5, <1>6, <1>7, <1>8, <1>9, <1>10 DEF Next, WriteStream

\* One step writes at most one entry of the queue, and only while not paused.
LEMMA WriteNeedsNoPause ==
  DataOK /\ PausedIsEmpty /\ [Next]_vars => (Len(wire') > Len(wire) => ~paused)
<1> SUFFICES ASSUME DataOK, PausedIsEmpty, [Next]_vars, paused
             PROVE  ~(Len(wire') > Len(wire))
  OBVIOUS
<1> USE DEF DataOK
<1>1. CASE PumpWrites
  BY <1>1 DEF PumpWrites, PausedIsEmpty
<1>2. CASE PanelAnswers
  <2>1. wire' = Tail(wire) /\ wire # <<>>
    BY <1>2 DEF PanelAnswers
  <2> QED
    BY <2>1
<1>3. CASE wire' = wire
  BY <1>3
<1> QED
  BY <1>1, <1>2, <1>3 DEF Next, vars, WriteStream, Supervision, Send, PumpResumes,
     PumpFindsNothing, ReplyReleases, WaitTimesOut, EndWait, PumpFails, ReceiveFrame,
     OpenTransport, ReaderEnds, ManagerCancels, SupervisorCancels, CancelStreams,
     CloseTransport, PanelBroadcasts, PanelProgramming

\* Between the RP frame that pauses the connection and the one that resumes it
\* nothing is written, on any number of transports.
THEOREM PauseIsSilent == Spec => SilentWhilePaused
<1>1. Init => PausedIsEmpty
  BY DEF Init, PausedIsEmpty
<1>2. DataOK /\ PausedIsEmpty /\ [Next]_vars => [Len(wire') > Len(wire) => ~paused]_vars
  BY WriteNeedsNoPause
<1>3. Spec => []DataOK
  BY TypeCorrect, PTL DEF TypeOK
<1> QED
  BY <1>1, <1>2, <1>3, PausedIsEmptyStep, PTL DEF Spec, SilentWhilePaused

LEMMA NoLostWakeupStep == DataOK /\ NoLostWakeup /\ [Next]_vars => NoLostWakeup'
<1> SUFFICES ASSUME DataOK, NoLostWakeup, [Next]_vars, pump' = "idle", queue' # <<>>
             PROVE  wake'
  BY DEF NoLostWakeup
<1> USE DEF NoLostWakeup, linkVars, queueVars, gateVars, panelVars
<1>1. ASSUME NEW reply \in Replies \cup {None}, NEW urgent \in BOOLEAN, Send(reply, urgent)
      PROVE  wake'
  BY <1>1 DEF Send
<1>2. CASE PumpResumes \/ ReplyReleases \/ WaitTimesOut
  BY <1>2 DEF PumpResumes, ReplyReleases, WaitTimesOut, EndWait
<1>3. CASE PumpFindsNothing
  BY <1>3 DEF PumpFindsNothing
<1>4. CASE PumpWrites \/ PumpFails
  BY <1>4 DEF PumpWrites, PumpFails
<1>5. CASE ReceiveFrame
  <2>1. pump = "idle"
    BY <1>5 DEF ReceiveFrame
  <2>2. CASE UNCHANGED queueVars
    BY <2>1, <2>2
  <2>3. CASE Resync
    <3>1. CASE paused
      BY <2>1, <2>3, <3>1 DEF Resync
    <3>2. CASE SyncBatch # <<>>
      BY <2>3, <3>2, <2>1 DEF Resync
    <3>3. CASE ~paused /\ SyncBatch = <<>>
      <4> DEFINE batch == [i \in 1..Len(SyncBatch) |->
                             [id |-> accepted + i, reply |-> SyncBatch[i], urgent |-> FALSE]]
      <4>1. queue' = queue \o batch /\ wake' = (wake \/ SyncBatch # <<>>)
        BY <2>3, <3>3, Zenon DEF Resync
      <4>2. Len(SyncBatch) = 0
        BY <3>3
      <4>3. batch = <<>>
        BY <4>2
      <4>4. queue # <<>>
        BY <4>1, <4>3 DEF DataOK
      <4> HIDE DEF batch
      <4>5. wake
        BY <2>1, <4>4
      <4> QED
        BY <4>1, <4>5
    <3> QED
      BY <3>1, <3>2, <3>3
  <2>4. CASE queue' = <<>>
    BY <2>4
  <2> QED
    BY <1>5, <2>2, <2>3, <2>4 DEF ReceiveFrame, Pause, Resume
<1>6. CASE OpenTransport
  BY <1>6 DEF OpenTransport
<1>7. CASE ReaderEnds \/ ManagerCancels \/ Supervision
  BY <1>7 DEF ReaderEnds, ManagerCancels, Supervision, SupervisorCancels,
     CancelStreams, CloseTransport
<1>8. CASE PanelAnswers \/ PanelProgramming
  BY <1>8 DEF PanelAnswers, PanelProgramming
<1>9. ASSUME NEW frame \in Replies \cup {"IE"}, PanelBroadcasts(frame) PROVE wake'
  BY <1>9 DEF PanelBroadcasts
<1>10. CASE UNCHANGED vars
  BY <1>10 DEF vars
<1> QED
  BY <1>1, <1>2, <1>3, <1>4, <1>5, <1>6, <1>7, <1>8, <1>9, <1>10 DEF Next, WriteStream

\* A queued write always finds the write stream awake or about to be.
THEOREM WakeupNeverLost == Spec => []NoLostWakeup
<1>1. Init => NoLostWakeup
  BY DEF Init, NoLostWakeup
<1>2. Spec => []DataOK
  BY TypeCorrect, PTL DEF TypeOK
<1> QED
  BY <1>1, <1>2, NoLostWakeupStep, PTL DEF Spec

-----------------------------------------------------------------------------
(***************************************************************************)
(* The gate: how many awaited writes are out at once.                      *)
(***************************************************************************)
LEMMA GateStep == DataOK /\ GateInv /\ [Next]_vars => GateInv'
<1> SUFFICES ASSUME DataOK, GateInv, [Next]_vars PROVE GateInv'
  OBVIOUS
<1> USE DEF GateInv, linkVars, queueVars, gateVars, panelVars
<1>1. ASSUME NEW reply \in Replies \cup {None}, NEW urgent \in BOOLEAN, Send(reply, urgent)
      PROVE  GateInv'
  BY <1>1 DEF Send
<1>2. CASE PumpResumes
  BY <1>2 DEF PumpResumes
<1>3. CASE PumpFindsNothing
  BY <1>3 DEF PumpFindsNothing
<1>4. CASE PumpWrites
  <2>1. pump = "running" /\ UNCHANGED <<session, writer, reader>> /\ session # 0 /\ writer
    BY <1>4 DEF PumpWrites
  <2>2. CASE Head(queue).reply = None
    BY <1>4, <2>1, <2>2 DEF PumpWrites
  <2>3. CASE Head(queue).reply # None /\ response
    <3>1. inFlight = 0 /\ session # 1
      BY <2>1, <2>3
    <3>2. inFlight' = 1 /\ ~response' /\ awaiting' = None /\ pump' = "running"
      BY <1>4, <2>3, <3>1 DEF PumpWrites
    <3> QED
      BY <2>1, <3>1, <3>2
  <2>4. CASE Head(queue).reply # None /\ ~response
    <3>1. inFlight \in 0..1 /\ (session = 1 => inFlight = 0)
      BY <2>1
    <3>2. inFlight' = inFlight + 1 /\ pump' = "reply"
      BY <1>4, <2>4 DEF PumpWrites
    <3> QED
      BY <2>1, <3>1, <3>2
  <2> QED
    BY <2>2, <2>3, <2>4
<1>5. CASE ReplyReleases \/ WaitTimesOut
  <2>1. pump = "reply" /\ EndWait
    BY <1>5 DEF ReplyReleases, WaitTimesOut
  <2>2. /\ ~response' /\ awaiting' = None /\ inFlight' = 0 /\ pump' = "running"
        /\ UNCHANGED <<session, writer, reader>>
    BY <2>1 DEF EndWait
  <2> QED
    BY <2>1, <2>2
<1>6. CASE PumpFails
  <2>1. /\ pump = "running" /\ pump' = "none" /\ inFlight' = 0
        /\ UNCHANGED <<session, writer, reader, response, awaiting>>
    BY <1>6 DEF PumpFails
  <2> QED
    BY <2>1
<1>7. CASE ReceiveFrame
  <2>1. /\ reader /\ inbound # <<>>
        /\ response' = (response \/ Head(inbound) = awaiting)
        /\ UNCHANGED <<session, writer, reader, pump, awaiting, inFlight>>
    BY <1>7 DEF ReceiveFrame
  <2>2. Head(inbound) # None
    <3>1. Head(inbound) \in Frames
      BY <2>1 DEF DataOK
    <3> QED
      BY <3>1 DEF Frames, RpFrames, ConnectionAssumption
  <2>3. awaiting = None => (response' <=> response)
    BY <2>1, <2>2
  <2> QED
    BY <2>1, <2>3
<1>8. CASE OpenTransport
  <2>1. /\ ~writer /\ writer' /\ pump' = "scheduled" /\ session' = session + 1
        /\ UNCHANGED <<response, awaiting, inFlight>>
    BY <1>8 DEF OpenTransport
  <2>2. inFlight = 0 /\ session \in Nat
    BY <2>1 DEF DataOK
  <2>3. session' # 0 /\ (session' = 1 => session = 0)
    BY <2>1, <2>2
  <2> QED
    BY <2>1, <2>2, <2>3
<1>9. CASE ReaderEnds
  BY <1>9 DEF ReaderEnds
<1>10. ASSUME CancelStreams, reader \/ writer PROVE GateInv'
  <2>1. session' = session /\ session # 0
    BY <1>10 DEF CancelStreams
  <2> QED
    BY <1>10, <2>1 DEF CancelStreams
<1>11. CASE SupervisorCancels \/ ManagerCancels
  BY <1>10, <1>11 DEF SupervisorCancels, ManagerCancels
<1>12. CASE CloseTransport
  BY <1>12 DEF CloseTransport
<1>13. CASE PanelAnswers \/ PanelProgramming
  BY <1>13 DEF PanelAnswers, PanelProgramming
<1>14. ASSUME NEW frame \in Replies \cup {"IE"}, PanelBroadcasts(frame) PROVE GateInv'
  BY <1>14 DEF PanelBroadcasts
<1>15. CASE UNCHANGED vars
  BY <1>15 DEF vars
<1> QED
  BY <1>1, <1>2, <1>3, <1>4, <1>5, <1>6, <1>7, <1>8, <1>9, <1>11, <1>12, <1>13, <1>14, <1>15
     DEF Next, WriteStream, Supervision

\* The write stream never has more than one awaited write out on its first
\* transport, nor more than two on any other.
THEOREM OverlapIsBounded == Spec => []OverlapBounded
<1>1. Init => GateInv
  BY DEF Init, GateInv
<1>2. DataOK /\ GateInv => OverlapBounded
  BY DEF DataOK, GateInv, OverlapBounded
<1>3. Spec => []DataOK
  BY TypeCorrect, PTL DEF TypeOK
<1> QED
  BY <1>1, <1>2, <1>3, GateStep, PTL DEF Spec

-----------------------------------------------------------------------------
(***************************************************************************)
(* The pause and the panel.                                                *)
(***************************************************************************)

\* Appending a frame that is no RP frame changes nothing about the last one.
LEMMA AppendOther ==
  ASSUME DataOK, LatestIsTrue, NEW frame, frame \notin RpFrames,
         inbound' = Append(inbound, frame), UNCHANGED <<missed, rpActive, paused>>
  PROVE  LatestIsTrue'
<1> USE DEF DataOK
<1>1. /\ Len(inbound') = Len(inbound) + 1 /\ Len(inbound) \in Nat
      /\ \A i \in 1..Len(inbound) : inbound'[i] = inbound[i]
      /\ inbound'[Len(inbound) + 1] = frame
      /\ DOMAIN inbound = 1..Len(inbound) /\ DOMAIN inbound' = 1..Len(inbound')
  OBVIOUS
<1>2. RpPending' <=> RpPending
  BY <1>1 DEF RpPending
<1> SUFFICES ASSUME ~missed PROVE LatestIsTrue'
  BY DEF LatestIsTrue
<1>3. ASSUME NEW i \in DOMAIN inbound', inbound'[i] \in RpFrames,
             \A j \in i+1..Len(inbound') : inbound'[j] \notin RpFrames
      PROVE  (inbound'[i] = "RP_CONNECTED") <=> rpActive
  <2>1. i \in 1..Len(inbound) /\ inbound[i] = inbound'[i]
    BY <1>1, <1>3
  <2>2. \A j \in i+1..Len(inbound) : inbound[j] \notin RpFrames
    BY <1>1, <1>3, <2>1
  <2> QED
    BY <1>1, <1>3, <2>1, <2>2 DEF LatestIsTrue
<1>4. ~RpPending => (paused <=> rpActive)
  BY DEF LatestIsTrue
<1> QED
  BY <1>2, <1>3, <1>4 DEF LatestIsTrue

\* A new RP frame is the last one.
LEMMA AppendRp ==
  ASSUME DataOK, NEW frame \in RpFrames, inbound' = Append(inbound, frame),
         (frame = "RP_CONNECTED") <=> rpActive'
  PROVE  LatestIsTrue'
<1> USE DEF DataOK
<1>1. /\ Len(inbound') = Len(inbound) + 1 /\ Len(inbound) \in Nat
      /\ inbound'[Len(inbound) + 1] = frame
      /\ DOMAIN inbound' = 1..Len(inbound')
  OBVIOUS
<1>2. RpPending'
  BY <1>1 DEF RpPending
<1>3. ASSUME NEW i \in DOMAIN inbound', inbound'[i] \in RpFrames,
             \A j \in i+1..Len(inbound') : inbound'[j] \notin RpFrames
      PROVE  (inbound'[i] = "RP_CONNECTED") <=> rpActive'
  <2>1. i = Len(inbound')
    BY <1>1, <1>3, SMTT(60)
  <2> QED
    BY <1>1, <2>1
<1> QED
  BY <1>2, <1>3 DEF LatestIsTrue

\* Reading a frame: either another RP frame is still to come, or the one just
\* read was the last, or there was none.
LEMMA ReadFrameIsTrue ==
  ASSUME DataOK, LatestIsTrue, ReceiveFrame
  PROVE  LatestIsTrue'
<1> USE DEF DataOK
<1>1. /\ inbound # <<>> /\ inbound' = Tail(inbound)
      /\ UNCHANGED <<missed, rpActive>>
  BY DEF ReceiveFrame, panelVars
<1>2. /\ Len(inbound') = Len(inbound) - 1 /\ Len(inbound) \in Nat /\ Len(inbound) > 0
      /\ \A i \in 1..Len(inbound') : inbound'[i] = inbound[i + 1]
      /\ Head(inbound) = inbound[1]
      /\ DOMAIN inbound = 1..Len(inbound) /\ DOMAIN inbound' = 1..Len(inbound')
  BY <1>1
<1>3. /\ Head(inbound) \notin RpFrames => paused' = paused
      /\ Head(inbound) = "RP_CONNECTED" => paused' = TRUE
      /\ Head(inbound) = "RP_DISCONNECTED" => paused' = FALSE
  <2>1. Head(inbound) \in Replies \cup {"IE"} => UNCHANGED paused
    BY DEF ReceiveFrame, ConnectionAssumption
  <2>2. Head(inbound) = "RP_CONNECTED" => paused' = TRUE
    BY DEF ReceiveFrame, Pause, ConnectionAssumption
  <2>3. Head(inbound) = "RP_DISCONNECTED" => paused' = FALSE
    BY DEF ReceiveFrame, Resume, ConnectionAssumption
  <2>4. Head(inbound) \in Frames
    BY <1>1
  <2> QED
    BY <2>1, <2>2, <2>3, <2>4 DEF Frames, RpFrames
<1> SUFFICES ASSUME ~missed PROVE LatestIsTrue'
  BY <1>1 DEF LatestIsTrue
<1>4. ASSUME NEW i \in DOMAIN inbound', inbound'[i] \in RpFrames,
             \A j \in i+1..Len(inbound') : inbound'[j] \notin RpFrames
      PROVE  (inbound'[i] = "RP_CONNECTED") <=> rpActive'
  <2>1. i + 1 \in DOMAIN inbound /\ inbound[i + 1] = inbound'[i]
    BY <1>2
  <2>2. ASSUME NEW j \in (i+1)+1..Len(inbound) PROVE inbound[j] \notin RpFrames
    <3>1. j - 1 \in i+1..Len(inbound') /\ inbound'[j - 1] = inbound[j]
      BY <1>2
    <3> QED
      BY <1>4, <3>1
  <2> QED
    BY <1>1, <1>4, <2>1, <2>2 DEF LatestIsTrue
<1>5. ASSUME ~RpPending' PROVE paused' <=> rpActive
  <2>1. \A j \in 2..Len(inbound) : inbound[j] \notin RpFrames
    <3> SUFFICES ASSUME NEW j \in 2..Len(inbound) PROVE inbound[j] \notin RpFrames
      OBVIOUS
    <3>1. j - 1 \in DOMAIN inbound' /\ inbound'[j - 1] = inbound[j]
      BY <1>2
    <3> QED
      BY <1>5, <3>1 DEF RpPending
  <2>2. CASE Head(inbound) \in RpFrames
    <3>1. (Head(inbound) = "RP_CONNECTED") <=> rpActive
      <4>1. 1 \in DOMAIN inbound /\ inbound[1] \in RpFrames
        BY <1>2, <2>2
      <4>2. \A j \in 1+1..Len(inbound) : inbound[j] \notin RpFrames
        <5> HIDE DEF DataOK
        <5> QED
          BY <2>1
      <4>3. (inbound[1] = "RP_CONNECTED") <=> rpActive
        BY <4>1, <4>2 DEF LatestIsTrue
      <4> QED
        BY <1>2, <4>3
    <3> QED
      BY <1>3, <2>2, <3>1 DEF RpFrames
  <2>3. CASE Head(inbound) \notin RpFrames
    <3>1. ~RpPending
      BY <1>2, <2>1, <2>3 DEF RpPending
    <3> QED
      BY <1>3, <2>3, <3>1 DEF LatestIsTrue
  <2> QED
    BY <2>2, <2>3
<1> QED
  BY <1>1, <1>4, <1>5 DEF LatestIsTrue

LEMMA LatestStep == DataOK /\ LatestIsTrue /\ [Next]_vars => LatestIsTrue'
<1> SUFFICES ASSUME DataOK, LatestIsTrue, [Next]_vars PROVE LatestIsTrue'
  OBVIOUS
<1>1. ASSUME UNCHANGED <<inbound, missed, rpActive, paused>> PROVE LatestIsTrue'
  BY <1>1 DEF LatestIsTrue, RpPending
<1>2. CASE ReceiveFrame
  BY <1>2, ReadFrameIsTrue
<1>3. CASE CloseTransport
  <2>1. /\ inbound' = <<>> /\ missed' = (missed \/ RpPending)
        /\ UNCHANGED <<rpActive, paused>>
    BY <1>3 DEF CloseTransport
  <2>2. DOMAIN inbound' = {}
    BY <2>1
  <2>3. CASE missed \/ RpPending
    <3>1. missed'
      BY <2>1, <2>3
    <3> QED
      BY <3>1 DEF LatestIsTrue
  <2>4. CASE ~missed /\ ~RpPending
    <3>1. paused <=> rpActive
      BY <2>4 DEF LatestIsTrue
    <3>2. paused' <=> rpActive'
      BY <2>1, <3>1, Zenon
    <3> QED
      BY <2>2, <3>2 DEF LatestIsTrue
  <2> QED
    BY <2>3, <2>4
<1>4. CASE PanelAnswers
  <2>1. UNCHANGED <<missed, rpActive, paused>>
    BY <1>4 DEF PanelAnswers, panelVars
  <2>2. \/ inbound' = inbound
        \/ wire # <<>> /\ Head(wire) # None /\ inbound' = Append(inbound, Head(wire))
    BY <1>4 DEF PanelAnswers, Emit, LoseFrame
  <2>3. wire # <<>> /\ Head(wire) # None => Head(wire) \notin RpFrames
    BY DEF DataOK, RpFrames, ConnectionAssumption
  <2> QED
    BY <1>1, <2>1, <2>2, <2>3, AppendOther
<1>5. ASSUME NEW frame \in Replies \cup {"IE"}, PanelBroadcasts(frame) PROVE LatestIsTrue'
  <2>1. frame \notin RpFrames
    BY DEF RpFrames, ConnectionAssumption
  <2> QED
    BY <1>5, <2>1, AppendOther DEF PanelBroadcasts, Emit
<1>6. CASE PanelProgramming
  <2>1. rpActive' = ~rpActive /\ (missed' = TRUE
            \/ inbound' = Append(inbound, IF rpActive THEN "RP_DISCONNECTED" ELSE "RP_CONNECTED"))
    BY <1>6 DEF PanelProgramming, Emit
  <2>2. CASE missed' = TRUE
    BY <2>2 DEF LatestIsTrue
  <2>3. CASE rpActive /\ inbound' = Append(inbound, "RP_DISCONNECTED")
    <3>1. "RP_DISCONNECTED" \in RpFrames /\ ~rpActive'
      BY <2>1, <2>3 DEF RpFrames
    <3> QED
      BY <2>3, <3>1, AppendRp
  <2>4. CASE ~rpActive /\ inbound' = Append(inbound, "RP_CONNECTED")
    <3>1. "RP_CONNECTED" \in RpFrames /\ rpActive'
      BY <2>1, <2>4 DEF RpFrames
    <3> QED
      BY <2>4, <3>1, AppendRp
  <2> QED
    BY <2>1, <2>2, <2>3, <2>4
<1> QED
  BY <1>1, <1>2, <1>3, <1>4, <1>5, <1>6
     DEF Next, vars, linkVars, queueVars, gateVars, panelVars, WriteStream, Supervision, Send,
     PumpResumes, PumpFindsNothing, PumpWrites, ReplyReleases, WaitTimesOut, EndWait, PumpFails,
     OpenTransport, ReaderEnds, ManagerCancels, SupervisorCancels, CancelStreams

\* Unless an RP frame went missing, the connection is paused exactly while ElkRP
\* has the panel, as soon as the frames on their way have been read.
THEOREM PauseTracks == Spec => []PauseTracksPanel
<1>1. Init => LatestIsTrue
  BY DEF Init, LatestIsTrue, RpPending
<1>2. TypeOK /\ LatestIsTrue => PauseTracksPanel
  <2> SUFFICES ASSUME TypeOK, LatestIsTrue, ~missed, ~RpPending PROVE paused = rpActive
    BY Zenon DEF PauseTracksPanel
  <2>1. paused <=> rpActive
    BY Zenon DEF LatestIsTrue
  <2>2. paused \in BOOLEAN /\ rpActive \in BOOLEAN
    BY Zenon DEF TypeOK, FlagsOK
  <2>3. CASE paused
    BY <2>1, <2>2, <2>3, Zenon
  <2>4. CASE ~paused
    BY <2>1, <2>2, <2>4, Zenon
  <2> QED
    BY <2>3, <2>4, Zenon
<1>3. TypeOK => DataOK
  BY DEF TypeOK
<1> QED
  BY <1>1, <1>2, <1>3, TypeCorrect, LatestStep, PTL DEF Spec

-----------------------------------------------------------------------------
(***************************************************************************)
(* The promise: ElkConnection implements CommandQueue.                     *)
(***************************************************************************)
HIDE ConnectionAssumption

\* The queue parted after its first k writes.
LEMMA PartedQueue ==
  ASSUME NEW S, NEW s \in Seq(S), NEW k \in 0..Len(s)
  PROVE  /\ SubSeq(s, 1, k) \in Seq(S) /\ Len(SubSeq(s, 1, k)) = k
         /\ \A i \in 1..k : SubSeq(s, 1, k)[i] = s[i]
         /\ SubSeq(s, k + 1, Len(s)) \in Seq(S)
         /\ Len(SubSeq(s, k + 1, Len(s))) = Len(s) - k
         /\ \A i \in 1..Len(s) - k : SubSeq(s, k + 1, Len(s))[i] = s[k + i]
<1>1. Len(s) \in Nat /\ k \in Nat /\ k <= Len(s)
  BY LenProperties
<1>2. \A i \in 1..Len(s) : s[i] \in S
  BY ElementOfSeq
<1>3. /\ SubSeq(s, 1, k) \in Seq(S)
      /\ Len(SubSeq(s, 1, k)) = IF 1 <= k THEN k - 1 + 1 ELSE 0
      /\ \A i \in 1..k - 1 + 1 : SubSeq(s, 1, k)[i] = s[1 + i - 1]
  <2>1. \A i \in 1..k : s[i] \in S
    BY <1>1, <1>2
  <2>2. 1 \in Int /\ k \in Int
    BY <1>1
  <2> QED
    BY <2>1, <2>2, SubSeqProperties
<1>4. /\ SubSeq(s, k + 1, Len(s)) \in Seq(S)
      /\ Len(SubSeq(s, k + 1, Len(s))) = IF k + 1 <= Len(s) THEN Len(s) - (k + 1) + 1 ELSE 0
      /\ \A i \in 1..Len(s) - (k + 1) + 1 : SubSeq(s, k + 1, Len(s))[i] = s[(k + 1) + i - 1]
  <2>1. \A i \in k + 1..Len(s) : s[i] \in S
    BY <1>1, <1>2
  <2>2. k + 1 \in Int /\ Len(s) \in Int
    BY <1>1
  <2> QED
    BY <2>1, <2>2, SubSeqProperties
<1>5. \A i \in 1..k : SubSeq(s, 1, k)[i] = s[i]
  BY <1>1, <1>3
<1>6. \A i \in 1..Len(s) - k : SubSeq(s, k + 1, Len(s))[i] = s[k + i]
  BY <1>1, <1>4
<1> QED
  BY <1>1, <1>3, <1>4, <1>5, <1>6

LEMMA CountOfFirst ==
  ASSUME NEW s \in Seq(QueuedWrite), NEW k \in 0..Len(s),
         \A i \in 1..Len(s) : s[i].urgent <=> i <= k
  PROVE  Cardinality({i \in DOMAIN s : s[i].urgent}) = k
<1>1. Len(s) \in Nat /\ k \in Nat /\ k <= Len(s) /\ DOMAIN s = 1..Len(s)
  BY LenProperties
<1>2. {i \in DOMAIN s : s[i].urgent} = 1..k
  BY <1>1
<1>3. Cardinality(1..k) = IF 1 > k THEN 0 ELSE k - 1 + 1
  <2>1. 1 \in Int /\ k \in Int
    BY <1>1
  <2> QED
    BY <2>1, FS_Interval
<1>4. Cardinality(1..k) = k
  BY <1>1, <1>3
<1> QED
  BY <1>2, <1>4, Zenon

\* Sequences of one element set and of one length differ in some element.
LEMMA SameElements ==
  ASSUME NEW S, NEW s \in Seq(S), NEW t \in Seq(S), Len(s) = Len(t),
         \A i \in 1..Len(s) : s[i] = t[i]
  PROVE  s = t
  BY SeqEqual

\* Then the mapping of Promise parts the queue after k.
LEMMA MappingIs ==
  ASSUME queue \in Seq(QueuedWrite), NEW k, UrgentAre(k)
  PROVE  Urgents = k
  BY CountOfFirst DEF Urgents, UrgentAre

\* Writes that are not urgent join the queue at its end: Accept.
LEMMA JoinsAtTheEnd ==
  ASSUME DataOK, NEW k, UrgentAre(k), ~paused, UNCHANGED paused,
         NEW batch \in Seq({entry \in QueuedWrite : ~entry.urgent}),
         queue' = queue \o batch
  PROVE  UrgentFirst' /\ Promise!Next
<1> DEFINE N == {entry \in QueuedWrite : ~entry.urgent}
           rest == SubSeq(queue, k + 1, Len(queue))
           new  == SubSeq(queue', k + 1, Len(queue'))
<1>1. /\ Len(queue) \in Nat /\ Len(batch) \in Nat /\ k \in Nat /\ k <= Len(queue)
      /\ queue \in Seq(QueuedWrite) /\ batch \in Seq(QueuedWrite)
  BY LenProperties, SeqMonotonic DEF DataOK, UrgentAre
<1>2. /\ queue' \in Seq(QueuedWrite) /\ Len(queue') = Len(queue) + Len(batch)
      /\ \A i \in 1..Len(queue) + Len(batch) :
           queue'[i] = IF i <= Len(queue) THEN queue[i] ELSE batch[i - Len(queue)]
  BY <1>1, ConcatProperties
<1>3. \A i \in 1..Len(batch) : ~batch[i].urgent
  BY ElementOfSeq
<1>4. k \in 0..Len(queue')
  BY <1>1, <1>2
<1>5. ASSUME NEW i \in 1..Len(queue') PROVE queue'[i].urgent <=> i <= k
  <2>1. CASE i <= Len(queue)
    BY <1>1, <1>2, <2>1 DEF UrgentAre
  <2>2. CASE ~(i <= Len(queue))
    <3>1. i - Len(queue) \in 1..Len(batch) /\ queue'[i] = batch[i - Len(queue)] /\ ~(i <= k)
      BY <1>1, <1>2, <2>2
    <3> QED
      BY <1>3, <3>1
  <2> QED
    BY <2>1, <2>2
<1>6. Urgents = k /\ Urgents' = k
  BY <1>1, <1>2, <1>4, <1>5, MappingIs, CountOfFirst DEF Urgents
<1>7. SubSeq(queue', 1, k) = SubSeq(queue, 1, k)
  <2>1. /\ SubSeq(queue, 1, k) \in Seq(QueuedWrite) /\ Len(SubSeq(queue, 1, k)) = k
        /\ \A i \in 1..k : SubSeq(queue, 1, k)[i] = queue[i]
    BY <1>1, PartedQueue
  <2>2. /\ SubSeq(queue', 1, k) \in Seq(QueuedWrite) /\ Len(SubSeq(queue', 1, k)) = k
        /\ \A i \in 1..k : SubSeq(queue', 1, k)[i] = queue'[i]
    BY <1>2, <1>4, PartedQueue
  <2>3. \A i \in 1..k : queue'[i] = queue[i]
    BY <1>1, <1>2
  <2> QED
    BY <2>1, <2>2, <2>3, SameElements
<1>8. /\ rest \in Seq(QueuedWrite) /\ Len(rest) = Len(queue) - k
      /\ \A i \in 1..Len(queue) - k : rest[i] = queue[k + i]
  BY <1>1, PartedQueue
<1>9. /\ new \in Seq(QueuedWrite) /\ Len(new) = Len(queue') - k
      /\ \A i \in 1..Len(queue') - k : new[i] = queue'[k + i]
  BY <1>2, <1>4, PartedQueue
<1>10. /\ rest \o batch \in Seq(QueuedWrite) /\ Len(rest \o batch) = Len(rest) + Len(batch)
       /\ \A i \in 1..Len(rest) + Len(batch) :
            (rest \o batch)[i] = IF i <= Len(rest) THEN rest[i] ELSE batch[i - Len(rest)]
  BY <1>1, <1>8, ConcatProperties, ZenonT(60)
<1> HIDE DEF rest, new
<1>11. new = rest \o batch
  <2>1. Len(new) = Len(rest \o batch)
    BY <1>1, <1>2, <1>8, <1>9, <1>10
  <2>2. ASSUME NEW i \in 1..Len(new) PROVE new[i] = (rest \o batch)[i]
    <3>1. /\ k + i \in 1..Len(queue) + Len(batch) /\ i \in 1..Len(queue') - k
          /\ i \in 1..Len(rest) + Len(batch) /\ i \in Int
      BY <1>1, <1>2, <1>8, <1>9
    <3>2. PICK j \in 1..Len(queue) + Len(batch) : j = k + i
      BY <3>1
    <3>3. new[i] = IF j <= Len(queue) THEN queue[j] ELSE batch[j - Len(queue)]
      BY <1>2, <1>9, <3>1, <3>2
    <3>4. CASE i <= Len(rest)
      <4>1. j <= Len(queue) /\ i \in 1..Len(queue) - k
        BY <1>1, <1>8, <3>1, <3>2, <3>4
      <4> QED
        BY <1>8, <1>10, <3>1, <3>2, <3>3, <3>4, <4>1
    <3>5. CASE ~(i <= Len(rest))
      <4>1. ~(j <= Len(queue)) /\ j - Len(queue) = i - Len(rest)
        BY <1>1, <1>8, <3>1, <3>2, <3>5
      <4> QED
        BY <1>10, <3>1, <3>3, <3>5, <4>1
    <3> QED
      BY <3>4, <3>5
  <2> QED
    BY <1>9, <1>10, <2>1, <2>2, SameElements
<1>12. SubSeq(new, Len(rest) + 1, Len(new)) = batch
  <2>1. Len(rest) \in 0..Len(new) /\ Len(new) - Len(rest) = Len(batch) /\ Len(rest) \in Nat
    BY <1>1, <1>8, <1>10, <1>11
  <2>2. /\ SubSeq(new, Len(rest) + 1, Len(new)) \in Seq(QueuedWrite)
        /\ Len(SubSeq(new, Len(rest) + 1, Len(new))) = Len(new) - Len(rest)
        /\ \A i \in 1..Len(new) - Len(rest) :
             SubSeq(new, Len(rest) + 1, Len(new))[i] = new[Len(rest) + i]
    BY <1>9, <2>1, PartedQueue
  <2>3. ASSUME NEW i \in 1..Len(batch) PROVE new[Len(rest) + i] = batch[i]
    <3>1. /\ Len(rest) + i \in 1..Len(rest) + Len(batch) /\ ~(Len(rest) + i <= Len(rest))
          /\ Len(rest) + i - Len(rest) = i
      BY <1>1, <2>1
    <3> QED
      BY <1>10, <1>11, <3>1
  <2> QED
    BY <1>1, <2>1, <2>2, <2>3, SameElements
<1>13. Promise!Batch = batch
  BY <1>6, <1>12 DEF Promise!Batch, new, rest
<1>14. Promise!Accept(batch)
  BY <1>6, <1>7, <1>11 DEF Promise!Accept, new, rest
<1>15. UrgentFirst'
  BY <1>1, <1>4, <1>5 DEF UrgentFirst, UrgentAre
<1> QED
  BY <1>13, <1>14, <1>15, Zenon DEF Promise!Next

\* An urgent write goes before all others: AcceptUrgent.
LEMMA JoinsInFront ==
  ASSUME DataOK, NEW k, UrgentAre(k), ~paused, UNCHANGED paused,
         NEW entry \in QueuedWrite, entry.urgent, queue' = <<entry>> \o queue
  PROVE  UrgentFirst' /\ Promise!Next
<1>1. /\ Len(queue) \in Nat /\ k \in Nat /\ k <= Len(queue) /\ queue \in Seq(QueuedWrite)
      /\ <<entry>> \in Seq(QueuedWrite) /\ Len(<<entry>>) = 1 /\ <<entry>>[1] = entry
  BY LenProperties DEF DataOK, UrgentAre
<1>2. /\ queue' \in Seq(QueuedWrite) /\ Len(queue') = 1 + Len(queue)
      /\ \A i \in 1..1 + Len(queue) : queue'[i] = IF i <= 1 THEN <<entry>>[i] ELSE queue[i - 1]
  BY <1>1, ConcatProperties
<1>3. queue'[1] = entry /\ \A i \in 1..Len(queue) : queue'[i + 1] = queue[i]
  <2>1. queue'[1] = entry
    BY <1>1, <1>2
  <2>2. ASSUME NEW i \in 1..Len(queue) PROVE queue'[i + 1] = queue[i]
    <3>1. PICK j \in 1..1 + Len(queue) : j = i + 1 /\ ~(j <= 1) /\ j - 1 = i
      BY <1>1
    <3> QED
      BY <1>2, <3>1
  <2> QED
    BY <2>1, <2>2
<1>4. k + 1 \in 0..Len(queue')
  BY <1>1, <1>2
<1>5. ASSUME NEW i \in 1..Len(queue') PROVE queue'[i].urgent <=> i <= k + 1
  <2>1. CASE i = 1
    BY <1>1, <1>3, <2>1
  <2>2. CASE i # 1
    <3>1. PICK j \in 1..Len(queue) : i = j + 1
      <4>1. i - 1 \in 1..Len(queue) /\ i = (i - 1) + 1
        BY <1>1, <1>2, <2>2
      <4> QED
        BY <4>1
    <3>2. queue'[i] = queue[j] /\ (i <= k + 1 <=> j <= k)
      BY <1>1, <1>3, <3>1
    <3> QED
      BY <3>2 DEF UrgentAre
  <2> QED
    BY <2>1, <2>2
<1>6. Urgents = k /\ Urgents' = k + 1
  BY <1>1, <1>2, <1>4, <1>5, MappingIs, CountOfFirst DEF Urgents
<1> DEFINE first == SubSeq(queue, 1, k)
           new   == SubSeq(queue', 1, k + 1)
<1>7. first \in Seq(QueuedWrite) /\ Len(first) = k /\ \A i \in 1..k : first[i] = queue[i]
  BY <1>1, PartedQueue
<1>8. /\ new \in Seq(QueuedWrite) /\ Len(new) = k + 1
      /\ \A i \in 1..k + 1 : new[i] = queue'[i]
  BY <1>2, <1>4, PartedQueue
<1>9. /\ <<entry>> \o first \in Seq(QueuedWrite) /\ Len(<<entry>> \o first) = 1 + k
      /\ \A i \in 1..1 + k :
           (<<entry>> \o first)[i] = IF i <= 1 THEN <<entry>>[i] ELSE first[i - 1]
  BY <1>1, <1>7, ConcatProperties
<1>10. new = <<entry>> \o first
  <2> HIDE DEF new, first
  <2>1. ASSUME NEW i \in 1..Len(new) PROVE new[i] = (<<entry>> \o first)[i]
    <3>1. CASE i = 1
      <4>1. new[1] = entry /\ (<<entry>> \o first)[1] = entry
        BY <1>1, <1>3, <1>8, <1>9
      <4> QED
        BY <3>1, <4>1
    <3>2. CASE i # 1
      <4>1. PICK j \in 1..k : i = j + 1 /\ j = i - 1 /\ j \in 1..Len(queue)
        <5>1. i - 1 \in 1..k /\ i = (i - 1) + 1 /\ i - 1 \in 1..Len(queue)
          BY <1>1, <1>8, <3>2
        <5> QED
          BY <5>1
      <4>2. new[i] = queue[j]
        BY <1>3, <1>8, <4>1
      <4>3. (<<entry>> \o first)[i] = first[j]
        BY <1>1, <1>8, <1>9, <3>2, <4>1
      <4> QED
        BY <1>7, <4>1, <4>2, <4>3
    <3> QED
      BY <3>1, <3>2
  <2> QED
    BY <1>1, <1>8, <1>9, <2>1, SameElements
<1>11. SubSeq(queue', (k + 1) + 1, Len(queue')) = SubSeq(queue, k + 1, Len(queue))
  <2> DEFINE a == SubSeq(queue', (k + 1) + 1, Len(queue'))
             b == SubSeq(queue, k + 1, Len(queue))
  <2>1. /\ b \in Seq(QueuedWrite) /\ Len(b) = Len(queue) - k
        /\ \A i \in 1..Len(queue) - k : b[i] = queue[k + i]
    BY <1>1, PartedQueue
  <2>2. /\ a \in Seq(QueuedWrite) /\ Len(a) = Len(queue') - (k + 1)
        /\ \A i \in 1..Len(queue') - (k + 1) : a[i] = queue'[(k + 1) + i]
    BY <1>2, <1>4, PartedQueue, ZenonT(60)
  <2> HIDE DEF a, b
  <2>3. Len(a) = Len(b) /\ Len(queue') - (k + 1) = Len(queue) - k
    BY <1>1, <1>2, <2>1, <2>2
  <2>4. ASSUME NEW i \in 1..Len(a) PROVE a[i] = b[i]
    <3>1. /\ k + i \in 1..Len(queue) /\ (k + 1) + i = (k + i) + 1
          /\ i \in 1..Len(queue) - k /\ i \in 1..Len(queue') - (k + 1)
      BY <1>1, <2>1, <2>3
    <3>2. b[i] = queue[k + i]
      BY <2>1, <3>1
    <3>3. a[i] = queue'[(k + 1) + i]
      BY <2>2, <3>1
    <3>4. queue'[(k + i) + 1] = queue[k + i]
      BY <1>3, <3>1
    <3> QED
      BY <3>1, <3>2, <3>3, <3>4
  <2>5. a = b
    BY <2>1, <2>2, <2>3, <2>4, SameElements
  <2> QED
    BY <2>5 DEF a, b
<1>12. Promise!AcceptUrgent(entry)
  BY <1>6, <1>10, <1>11 DEF Promise!AcceptUrgent
<1>13. new[1] = entry
  BY <1>1, <1>3, <1>8
<1>14. SubSeq(queue, 1, Urgents)' = new
  BY <1>6
<1>15. Len(new) > 0
  BY <1>1, <1>8
<1>16. /\ Len(SubSeq(queue, 1, Urgents)') > 0 /\ SubSeq(queue, 1, Urgents)'[1] = entry
       /\ entry \in {e \in QueuedWrite : e.urgent}
  BY <1>13, <1>14, <1>15
<1>17. UrgentFirst'
  <2>1. PICK n \in Nat : n = k + 1
    BY <1>1
  <2>2. UrgentAre(n)'
    BY <1>4, <1>5, <2>1 DEF UrgentAre
  <2> QED
    BY <2>2 DEF UrgentFirst
<1> QED
  BY <1>12, <1>16, <1>17, Zenon DEF Promise!Next

\* The first write of the queue leaves it: Take.
LEMMA LeavesFromTheFront ==
  ASSUME DataOK, NEW k, UrgentAre(k), ~paused, UNCHANGED paused,
         queue # <<>>, queue' = Tail(queue)
  PROVE  UrgentFirst' /\ Promise!Next
<1>1. /\ Len(queue) \in Nat /\ k \in Nat /\ k <= Len(queue) /\ queue \in Seq(QueuedWrite)
      /\ Len(queue) > 0
  BY LenProperties, EmptySeq DEF DataOK, UrgentAre
<1>2. /\ queue' \in Seq(QueuedWrite) /\ Len(queue') = Len(queue) - 1
      /\ \A i \in 1..Len(queue') : queue'[i] = queue[i + 1]
  BY <1>1, HeadTailProperties
<1>3. /\ SubSeq(queue, 1, k) \in Seq(QueuedWrite) /\ Len(SubSeq(queue, 1, k)) = k
      /\ \A i \in 1..k : SubSeq(queue, 1, k)[i] = queue[i]
      /\ SubSeq(queue, k + 1, Len(queue)) \in Seq(QueuedWrite)
      /\ Len(SubSeq(queue, k + 1, Len(queue))) = Len(queue) - k
      /\ \A i \in 1..Len(queue) - k : SubSeq(queue, k + 1, Len(queue))[i] = queue[k + i]
  BY <1>1, PartedQueue
<1>4. CASE k = 0
  <2>1. ASSUME NEW i \in 1..Len(queue') PROVE ~queue'[i].urgent /\ ~(i <= 0)
    <3>1. i + 1 \in 1..Len(queue) /\ ~(i + 1 <= k) /\ ~(i <= 0)
      BY <1>1, <1>2, <1>4
    <3> QED
      BY <1>2, <3>1 DEF UrgentAre
  <2>2. 0 \in 0..Len(queue') /\ 0 \in Nat
    BY <1>1, <1>2
  <2>3. UrgentAre(0)'
    BY <2>1, <2>2 DEF UrgentAre
  <2>4. Urgents = 0 /\ Urgents' = 0
    BY <1>1, <1>2, <1>4, <2>1, <2>2, MappingIs, CountOfFirst DEF Urgents
  <2>5. SubSeq(queue, 1, 0) = <<>> /\ SubSeq(queue', 1, 0) = <<>>
    BY SubSeqEmpty
  <2>6. SubSeq(queue, 1, Len(queue)) = queue /\ SubSeq(queue', 1, Len(queue')) = queue'
    BY <1>1, <1>2, SubSeqFull
  <2>7. Promise!Take
    <3>1. /\ SubSeq(queue, 1, Urgents) = <<>> /\ SubSeq(queue, 1, Urgents)' = <<>>
          /\ SubSeq(queue, Urgents + 1, Len(queue)) = queue
          /\ SubSeq(queue, Urgents + 1, Len(queue))' = queue'
      BY <2>4, <2>5, <2>6
    <3> QED
      BY <3>1 DEF Promise!Take
  <2> QED
    BY <2>2, <2>3, <2>7, Zenon DEF Promise!Next, UrgentFirst
<1>5. CASE k > 0
  <2>1. PICK n \in Nat : k = n + 1 /\ n \in 0..Len(queue')
    <3>1. k - 1 \in Nat /\ k = (k - 1) + 1 /\ k - 1 \in 0..Len(queue')
      BY <1>1, <1>2, <1>5
    <3> QED
      BY <3>1
  <2>2. ASSUME NEW i \in 1..Len(queue') PROVE queue'[i].urgent <=> i <= n
    <3>1. i + 1 \in 1..Len(queue) /\ (i + 1 <= k <=> i <= n)
      BY <1>1, <1>2, <2>1
    <3> QED
      BY <1>2, <3>1 DEF UrgentAre
  <2>3. Urgents = k /\ Urgents' = n
    BY <1>1, <1>2, <2>1, <2>2, MappingIs, CountOfFirst DEF Urgents
  <2>4. SubSeq(queue', 1, n) = Tail(SubSeq(queue, 1, k))
    <3>1. /\ SubSeq(queue', 1, n) \in Seq(QueuedWrite) /\ Len(SubSeq(queue', 1, n)) = n
          /\ \A i \in 1..n : SubSeq(queue', 1, n)[i] = queue'[i]
      BY <1>2, <2>1, PartedQueue
    <3>2. SubSeq(queue, 1, k) # <<>>
      BY <1>3, <1>5
    <3>3. /\ Tail(SubSeq(queue, 1, k)) \in Seq(QueuedWrite)
          /\ Len(Tail(SubSeq(queue, 1, k))) = Len(SubSeq(queue, 1, k)) - 1
          /\ \A i \in 1..Len(Tail(SubSeq(queue, 1, k))) :
               Tail(SubSeq(queue, 1, k))[i] = SubSeq(queue, 1, k)[i + 1]
      BY <1>3, <3>2, HeadTailProperties
    <3>4. ASSUME NEW i \in 1..n PROVE SubSeq(queue', 1, n)[i] = Tail(SubSeq(queue, 1, k))[i]
      <4>1. i \in 1..Len(queue') /\ i + 1 \in 1..k
        BY <1>2, <2>1
      <4>2. Len(Tail(SubSeq(queue, 1, k))) = n
        BY <1>3, <2>1, <3>3
      <4> QED
        BY <1>2, <1>3, <3>1, <3>3, <4>1, <4>2, SMTT(60)
    <3>5. Len(Tail(SubSeq(queue, 1, k))) = n
      BY <1>3, <2>1, <3>3
    <3> QED
      BY <3>1, <3>3, <3>4, <3>5, SameElements
  <2>5. SubSeq(queue', n + 1, Len(queue')) = SubSeq(queue, k + 1, Len(queue))
    <3> DEFINE a == SubSeq(queue', n + 1, Len(queue'))
               b == SubSeq(queue, k + 1, Len(queue))
    <3>1. /\ a \in Seq(QueuedWrite) /\ Len(a) = Len(queue') - n
          /\ \A i \in 1..Len(queue') - n : a[i] = queue'[n + i]
      BY <1>2, <2>1, PartedQueue, ZenonT(60)
    <3>2. /\ b \in Seq(QueuedWrite) /\ Len(b) = Len(queue) - k
          /\ \A i \in 1..Len(queue) - k : b[i] = queue[k + i]
      BY <1>3
    <3> HIDE DEF a, b
    <3>3. Len(a) = Len(b)
      BY <1>1, <1>2, <2>1, <3>1, <3>2
    <3>4. ASSUME NEW i \in 1..Len(a) PROVE a[i] = b[i]
      <4>1. /\ n + i \in 1..Len(queue') /\ (n + i) + 1 = k + i
            /\ i \in 1..Len(queue) - k /\ i \in 1..Len(queue') - n
        BY <1>1, <1>2, <2>1, <3>1, <3>2, <3>3
      <4>2. a[i] = queue'[n + i]
        BY <3>1, <4>1
      <4>3. b[i] = queue[k + i]
        BY <3>2, <4>1
      <4>4. queue'[n + i] = queue[(n + i) + 1]
        BY <1>2, <4>1
      <4> QED
        BY <4>1, <4>2, <4>3, <4>4
    <3>5. a = b
      BY <3>1, <3>2, <3>3, <3>4, SameElements
    <3> QED
      BY <3>5 DEF a, b
  <2>6. SubSeq(queue, 1, k) # <<>>
    BY <1>3, <1>5
  <2>7. UrgentAre(n)'
    BY <2>1, <2>2 DEF UrgentAre
  <2>8. Promise!Take
    BY <2>3, <2>4, <2>5, <2>6 DEF Promise!Take
  <2> QED
    BY <2>7, <2>8, Zenon DEF Promise!Next, UrgentFirst
<1> QED
  BY <1>1, <1>4, <1>5

\* The pause throws every write away: Hold.
LEMMA PauseHolds ==
  ASSUME Pause
  PROVE  UrgentFirst' /\ Promise!Next
<1>1. queue' = <<>> /\ paused' = TRUE
  BY DEF Pause
<1>2. queue' \in Seq(QueuedWrite) /\ Len(queue') = 0
  BY <1>1
<1>3. UrgentAre(0)' /\ 0 \in Nat
  BY <1>2 DEF UrgentAre
<1>4. Urgents' = 0
  <2>1. 0 \in 0..Len(queue') /\ \A i \in 1..Len(queue') : queue'[i].urgent <=> i <= 0
    BY <1>2
  <2> QED
    BY <1>2, <2>1, CountOfFirst DEF Urgents
<1>5. SubSeq(queue', 1, 0) = <<>> /\ SubSeq(queue', 0 + 1, Len(queue')) = <<>>
  BY <1>1, <1>2, SubSeqEmpty
<1>6. Promise!Hold
  BY <1>1, <1>4, <1>5 DEF Promise!Hold
<1> QED
  BY <1>3, <1>6, Zenon DEF Promise!Next, UrgentFirst

\* Nothing happens to the queue.
LEMMA QueueUnchanged ==
  ASSUME UrgentFirst, UNCHANGED queue
  PROVE  /\ UrgentFirst'
         /\ UNCHANGED <<SubSeq(queue, Urgents + 1, Len(queue)), SubSeq(queue, 1, Urgents)>>
<1>1. UrgentFirst'
  BY DEF UrgentFirst, UrgentAre
<1>2. Urgents' = Urgents
  BY DEF Urgents
<1> QED
  BY <1>1, <1>2

\* A resync is one accepted batch, or nothing while paused.
LEMMA ResyncAccepts ==
  ASSUME DataOK, UrgentFirst, Resync, UNCHANGED paused
  PROVE  UrgentFirst' /\ [Promise!Next]_(Promise!vars)
<1>1. CASE paused
  BY <1>1, QueueUnchanged DEF Resync, queueVars, Promise!vars
<1>2. CASE ~paused
  <2> DEFINE batch == [i \in 1..Len(SyncBatch) |->
                         [id |-> accepted + i, reply |-> SyncBatch[i], urgent |-> FALSE]]
             N     == {entry \in QueuedWrite : ~entry.urgent}
  <2>1. Len(SyncBatch) \in Nat
    BY ConnectionAssumption DEF ConnectionAssumption
  <2>2. ASSUME NEW i \in 1..Len(SyncBatch) PROVE batch[i] \in N
    <3>1. batch[i] = [id |-> accepted + i, reply |-> SyncBatch[i], urgent |-> FALSE]
      OBVIOUS
    <3>2. accepted + i \in Nat /\ SyncBatch[i] \in Replies \cup {None}
      BY <2>1, ConnectionAssumption DEF DataOK, ConnectionAssumption
    <3> QED
      BY <3>1, <3>2 DEF QueuedWrite
  <2>3. batch \in Seq(N)
    <3> HIDE DEF N
    <3> QED
      BY <2>1, <2>2
  <2>4. queue' = queue \o batch
    BY <1>2 DEF Resync
  <2>5. PICK k \in Nat : UrgentAre(k)
    BY DEF UrgentFirst
  <2> HIDE DEF batch
  <2> QED
    BY <1>2, <2>3, <2>4, <2>5, JoinsAtTheEnd
<1> QED
  BY <1>1, <1>2

\* Every step of the connection is one of the queue it promises, or none.
LEMMA PromiseStep ==
  ASSUME DataOK, UrgentFirst, PausedIsEmpty, [Next]_vars
  PROVE  UrgentFirst' /\ [Promise!Next]_(Promise!vars)
<1> DEFINE Goal == UrgentFirst' /\ [Promise!Next]_(Promise!vars)
<1>0. PICK k \in Nat : UrgentAre(k)
  BY DEF UrgentFirst
<1>1. ASSUME NEW reply \in Replies \cup {None}, NEW urgent \in BOOLEAN, Send(reply, urgent)
      PROVE  Goal
  <2> DEFINE entry == [id |-> accepted + 1, reply |-> reply, urgent |-> urgent]
  <2>1. entry \in QueuedWrite /\ entry.urgent = urgent
    BY DEF QueuedWrite, DataOK
  <2>2. ~paused /\ UNCHANGED paused /\ queue' = Enqueue(entry)
    BY <1>1 DEF Send
  <2> HIDE DEF entry
  <2>3. CASE urgent
    <3>1. queue' = <<entry>> \o queue
      BY <2>1, <2>2, <2>3 DEF Enqueue
    <3> QED
      BY <1>0, <2>1, <2>2, <2>3, <3>1, JoinsInFront
  <2>4. CASE ~urgent
    <3>1. queue' = queue \o <<entry>>
      BY <2>1, <2>2, <2>4, AppendIsConcat DEF Enqueue, DataOK
    <3>2. <<entry>> \in Seq({e \in QueuedWrite : ~e.urgent})
      BY <2>1, <2>4
    <3> QED
      BY <1>0, <2>2, <3>1, <3>2, JoinsAtTheEnd
  <2> QED
    BY <2>3, <2>4
<1>2. ASSUME UNCHANGED <<queue, paused>> PROVE Goal
  BY <1>2, QueueUnchanged DEF Promise!vars
<1>3. CASE PumpWrites \/ PumpFails
  <2>1. queue # <<>> /\ queue' = Tail(queue) /\ UNCHANGED paused
    BY <1>3 DEF PumpWrites, PumpFails
  <2>2. ~paused
    BY <2>1 DEF PausedIsEmpty
  <2> QED
    BY <1>0, <2>1, <2>2, LeavesFromTheFront
<1>4. CASE ReceiveFrame
  <2>1. \/ UNCHANGED <<paused, queueVars>>
        \/ Pause
        \/ Resume
        \/ Resync /\ UNCHANGED paused
    BY <1>4 DEF ReceiveFrame
  <2>2. CASE UNCHANGED <<paused, queueVars>>
    BY <1>2, <2>2 DEF queueVars
  <2>3. CASE Resume
    <3>1. paused' = FALSE /\ UNCHANGED queue
      BY <2>3 DEF Resume, queueVars
    <3>2. Promise!Release
      BY <3>1, QueueUnchanged DEF Promise!Release
    <3> QED
      BY <3>1, <3>2, QueueUnchanged, Zenon DEF Promise!Next
  <2> QED
    BY <2>1, <2>2, <2>3, PauseHolds, ResyncAccepts
<1>5. CASE OpenTransport
  BY <1>5, ResyncAccepts DEF OpenTransport
<1> QED
  BY <1>1, <1>2, <1>3, <1>4, <1>5
     DEF Next, vars, queueVars, WriteStream, Supervision, PumpResumes, PumpFindsNothing,
     ReplyReleases, WaitTimesOut, EndWait, ReaderEnds, ManagerCancels, SupervisorCancels,
     CancelStreams, CloseTransport, PanelAnswers, PanelBroadcasts, PanelProgramming

LEMMA PromiseStart == Init => UrgentFirst /\ Promise!Init
<1> SUFFICES ASSUME Init PROVE UrgentFirst /\ Promise!Init
  OBVIOUS
<1>1. queue = <<>> /\ paused = FALSE /\ queue \in Seq(QueuedWrite) /\ Len(queue) = 0
  BY DEF Init
<1>2. UrgentAre(0) /\ 0 \in Nat
  BY <1>1 DEF UrgentAre
<1>3. Urgents = 0
  BY <1>1, <1>2, MappingIs
<1>4. SubSeq(queue, 1, 0) = <<>> /\ SubSeq(queue, 0 + 1, Len(queue)) = <<>>
  BY <1>1, SubSeqEmpty
<1>5. Promise!Init
  BY <1>1, <1>3, <1>4 DEF Promise!Init
<1> QED
  BY <1>2, <1>5 DEF UrgentFirst

\* Whatever the transports do, the write queue is the one the callers of send()
\* are promised: ElkConnection implements CommandQueue.
THEOREM PromiseKept == Spec => KeepsPromise
<1>1. Init => PausedIsEmpty
  BY DEF Init, PausedIsEmpty
<1>2. DataOK /\ UrgentFirst /\ PausedIsEmpty /\ [Next]_vars
        => UrgentFirst' /\ [Promise!Next]_(Promise!vars)
  BY PromiseStep
<1>3. Spec => []DataOK
  BY TypeCorrect, PTL DEF TypeOK
<1> QED
  BY <1>1, <1>2, <1>3, PausedIsEmptyStep, PromiseStart, PTL DEF Spec, KeepsPromise, Promise!Spec
=============================================================================
