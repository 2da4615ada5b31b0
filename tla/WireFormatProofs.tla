-------------------------- MODULE WireFormatProofs --------------------------
(***************************************************************************)
(* That the texts say what they are to say, and fit their buffers: for     *)
(* every set of clients, of whatever addresses and ports, and any length   *)
(* of the list.                                                            *)
(***************************************************************************)
EXTENDS WireFormat, FiniteSetTheorems, SequenceTheorems, TLAPS

-----------------------------------------------------------------------------
(* Induction, and functions defined by recursion.                            *)

\* A set with 0 that has with each number the next one has them all: if n were
\* not in it, adding one would map its part below n into that part without 0,
\* which is smaller.
LEMMA Induction ==
  ASSUME NEW P, 0 \in P, \A n \in Nat : n \in P => n + 1 \in P
  PROVE  Nat \subseteq P
<1> SUFFICES ASSUME NEW n \in Nat, n \notin P PROVE FALSE
  OBVIOUS
<1> DEFINE L == P \cap (0..n)
           f == [x \in L |-> x + 1]
<1>1. 0 \in L /\ \A x \in L : x + 1 \in L
  OBVIOUS
<1>2. /\ IsFiniteSet(L) /\ IsFiniteSet(L \ {0}) /\ Cardinality(L) \in Nat
      /\ Cardinality(L \ {0}) = Cardinality(L) - 1
  <2>1. IsFiniteSet(0..n)
    BY FS_Interval
  <2>2. IsFiniteSet(L) /\ Cardinality(L) \in Nat
    BY <2>1, FS_Subset, FS_CardinalityType
  <2> HIDE DEF L
  <2> QED
    BY <1>1, <2>2, FS_RemoveElement
<1>3. f \in Injection(L, L \ {0})
  BY <1>1 DEF Injection, IsInjective
<1>4. Cardinality(L) <= Cardinality(L \ {0})
  BY <1>2, <1>3, FS_Injection
<1> QED
  BY <1>2, <1>4

\* So does a set that has each number of which it has all the smaller ones.
LEMMA StrongInduction ==
  ASSUME NEW P, \A n \in Nat : (\A j \in 0..(n - 1) : j \in P) => n \in P
  PROVE  Nat \subseteq P
<1> DEFINE Q == {n \in Nat : \A j \in 0..n : j \in P}
<1>1. 0 \in Q
  OBVIOUS
<1>2. ASSUME NEW n \in Nat, n \in Q PROVE n + 1 \in Q
  <2>1. \A j \in 0..((n + 1) - 1) : j \in P
    BY <1>2
  <2>2. n + 1 \in P
    BY <2>1
  <2> QED
    BY <1>2, <2>2
<1>3. Nat \subseteq Q
  <2> HIDE DEF Q
  <2> QED
    BY <1>1, <1>2, Induction
<1> QED
  BY <1>3

\* A set of numbers that is not empty has a smallest one.
LEMMA FirstIs ==
  ASSUME NEW places \in SUBSET Nat, places # {}
  PROVE  /\ First(places) \in places
         /\ \A j \in places : First(places) <= j
<1>1. \E i \in places : \A j \in places : i <= j
  <2> SUFFICES ASSUME \A i \in places : \E j \in places : j < i PROVE FALSE
    OBVIOUS
  <2> DEFINE P == Nat \ places
  <2>1. \A n \in Nat : (\A j \in 0..(n - 1) : j \in P) => n \in P
    OBVIOUS
  <2>2. Nat \subseteq P
    <3> HIDE DEF P
    <3> QED
      BY <2>1, StrongInduction
  <2> QED
    BY <2>2
<1> QED
  BY <1>1 DEF First

\* A function on 0..m may be defined by its value at 0, and its value at each
\* other number by the one before.
Follows(f, m, X, x0, step) ==
  /\ f \in [0..m -> X] /\ f[0] = x0
  /\ \A i \in 1..m : f[i] = step[i][f[i - 1]]

\* What a recursive definition of LET stands for exists.
LEMMA Recursion ==
  ASSUME NEW m, NEW X, NEW x0, NEW step,
         m \in Nat, x0 \in X, step \in [1..m -> [X -> X]]
  PROVE  \E f : Follows(f, m, X, x0, step)
<1> DEFINE Good(f, n) == /\ f \in [0..n -> X] /\ f[0] = x0
                         /\ \A i \in 1..n : f[i] = step[i][f[i - 1]]
           P == {n \in Nat : n <= m => \E f : Good(f, n)}
<1>1. 0 \in P
  <2>1. Good([i \in 0..0 |-> x0], 0)
    OBVIOUS
  <2> QED
    BY <2>1
<1>2. ASSUME NEW n \in Nat, n \in P PROVE n + 1 \in P
  <2> SUFFICES ASSUME n + 1 <= m PROVE \E f : Good(f, n + 1)
    OBVIOUS
  <2>1. PICK f : Good(f, n)
    BY <1>2
  <2> DEFINE g == [i \in 0..(n + 1) |-> IF i = n + 1 THEN step[n + 1][f[n]] ELSE f[i]]
  <2>2. f[n] \in X /\ n + 1 \in 1..m
    BY <2>1
  <2>3. step[n + 1][f[n]] \in X
    BY <2>2
  <2>4. g \in [0..(n + 1) -> X] /\ g[0] = x0
    BY <2>1, <2>3
  <2>5. ASSUME NEW i \in 1..(n + 1) PROVE g[i] = step[i][g[i - 1]]
    <3>1. g[i - 1] = f[i - 1]
      OBVIOUS
    <3>2. CASE i = n + 1
      <4>1. g[n + 1] = step[n + 1][f[n]] /\ (n + 1) - 1 = n
        OBVIOUS
      <4> HIDE DEF g
      <4> QED
        BY <3>1, <3>2, <4>1
    <3>3. CASE i # n + 1
      BY <2>1, <3>1, <3>3
    <3> QED
      BY <3>2, <3>3
  <2> QED
    BY <2>4, <2>5
<1>3. m \in P
  <2> HIDE DEF P
  <2> QED
    BY <1>1, <1>2, Induction
<1>4. PICK f : Good(f, m)
  BY <1>3
<1>5. Follows(f, m, X, x0, step)
  BY <1>4 DEF Follows
<1> QED
  BY <1>5

-----------------------------------------------------------------------------
(* The digits, and the numbers they write.                                   *)

Digits == {Digit[i] : i \in 1..16}
Ten == {Digit[i] : i \in 1..10}

\* DigitValue undoes Digit, and no digit is a character of the punctuation.
LEMMA DigitsAre ==
  /\ \A i \in 0..15 : Digit[i + 1] \in Digits /\ DigitValue[Digit[i + 1]] = i
  /\ \A i \in 0..9 : Digit[i + 1] \in Ten
  /\ Ten \subseteq Digits
  /\ \A d \in Digits : d # "<" /\ d # ">" /\ d # "," /\ d # " "
<1>1. DOMAIN Digit = 1..16
  BY DEF Digit
<1>2. \A i, j \in 1..16 : Digit[i] = Digit[j] => i = j
  BY DEF Digit
<1>3. ASSUME NEW i \in 0..15 PROVE DigitValue[Digit[i + 1]] = i
  <2>1. Digit[i + 1] \in {Digit[j] : j \in DOMAIN Digit}
    BY <1>1
  <2>2. (CHOOSE j \in DOMAIN Digit : Digit[j] = Digit[i + 1]) = i + 1
    BY <1>1, <1>2
  <2> QED
    BY <2>1, <2>2 DEF DigitValue
<1>4. Digits = {"0", "1", "2", "3", "4", "5", "6", "7",
                "8", "9", "a", "b", "c", "d", "e", "f"}
  BY DEF Digits, Digit
<1>5. \A i \in 0..15 : Digit[i + 1] \in Digits
  <2>1. \A i \in 0..15 : i + 1 \in 1..16
    OBVIOUS
  <2> QED
    BY <2>1 DEF Digits
<1>6. \A i \in 0..9 : Digit[i + 1] \in Ten
  <2>1. \A i \in 0..9 : i + 1 \in 1..10
    OBVIOUS
  <2> QED
    BY <2>1 DEF Ten
<1>7. Ten \subseteq Digits
  <2>1. 1..10 \subseteq 1..16
    OBVIOUS
  <2> QED
    BY <2>1 DEF Digits, Ten
<1>8. \A d \in Digits : d # "<" /\ d # ">" /\ d # "," /\ d # " "
  BY <1>4
<1> QED
  BY <1>3, <1>5, <1>6, <1>7, <1>8

\* What Decimal is defined by, and that there is such a function: on 0..n for
\* each n, and these agree.
Lowest(n) == <<Digit[(n % 10) + 1]>>
WritesTo(g, n) ==
  /\ g \in [0..n -> Seq(Ten)]
  /\ \A i \in 0..n : g[i] = IF i < 10 THEN Lowest(i) ELSE g[i \div 10] \o Lowest(i)

\* One digit, the last one of n.
LEMMA LowestIs ==
  ASSUME NEW n \in Nat
  PROVE  /\ Lowest(n) \in Seq(Ten) /\ Len(Lowest(n)) = 1
         /\ Lowest(n)[1] = Digit[(n % 10) + 1]
<1>1. n % 10 \in 0..9
  OBVIOUS
<1>2. Digit[(n % 10) + 1] \in Ten
  BY <1>1, DigitsAre
<1> QED
  BY <1>2 DEF Lowest

\* n without its last digit is a smaller number.
LEMMA Shorter ==
  ASSUME NEW n \in Nat
  PROVE  n \div 10 \in Nat /\ (n >= 10 => n \div 10 \in 0..(n - 1) /\ n \div 10 >= 1)
OBVIOUS

\* As far as one likes, the decimals can be tabulated,
LEMMA WritesToExists ==
  \A n \in Nat : \E g : WritesTo(g, n)
<1> DEFINE P == {n \in Nat : \E g : WritesTo(g, n)}
<1>1. 0 \in P
  <2> DEFINE g == [i \in 0..0 |-> Lowest(0)]
  <2>1. g \in [0..0 -> Seq(Ten)]
    BY LowestIs
  <2>2. \A i \in 0..0 : i = 0 /\ g[i] = Lowest(i)
    OBVIOUS
  <2>3. WritesTo(g, 0)
    <3> HIDE DEF g
    <3> QED
      BY <2>1, <2>2 DEF WritesTo
  <2> QED
    BY <2>3
<1>2. ASSUME NEW n \in Nat, n \in P PROVE n + 1 \in P
  <2>1. PICK g : WritesTo(g, n)
    BY <1>2
  <2> DEFINE new == IF n + 1 < 10 THEN Lowest(n + 1) ELSE g[(n + 1) \div 10] \o Lowest(n + 1)
             h == [i \in 0..(n + 1) |-> IF i = n + 1 THEN new ELSE g[i]]
  <2>2. new \in Seq(Ten)
    <3>1. n + 1 >= 10 => (n + 1) \div 10 \in 0..n
      OBVIOUS
    <3>2. n + 1 >= 10 => g[(n + 1) \div 10] \in Seq(Ten)
      BY <2>1, <3>1 DEF WritesTo
    <3>3. Lowest(n + 1) \in Seq(Ten)
      BY LowestIs
    <3>4. n + 1 >= 10 => g[(n + 1) \div 10] \o Lowest(n + 1) \in Seq(Ten)
      BY <3>2, <3>3, ConcatProperties
    <3> QED
      BY <3>3, <3>4
  <2> HIDE DEF new
  <2>3. h \in [0..(n + 1) -> Seq(Ten)]
    BY <2>1, <2>2 DEF WritesTo
  <2>4. h[n + 1] = new /\ \A i \in 0..n : h[i] = g[i]
    OBVIOUS
  <2> HIDE DEF h
  <2>5. ASSUME NEW i \in 0..(n + 1)
        PROVE  h[i] = IF i < 10 THEN Lowest(i) ELSE h[i \div 10] \o Lowest(i)
    <3>1. i >= 10 => h[i \div 10] = g[i \div 10]
      <4>1. i >= 10 => i \div 10 \in 0..n
        BY Shorter
      <4> QED
        BY <4>1, <2>4
    <3>2. CASE i = n + 1
      BY <2>4, <3>1, <3>2 DEF new
    <3>3. CASE i \in 0..n
      <4>1. g[i] = IF i < 10 THEN Lowest(i) ELSE g[i \div 10] \o Lowest(i)
        BY <2>1, <3>3 DEF WritesTo
      <4> QED
        BY <2>4, <3>1, <3>3, <4>1
    <3> QED
      BY <3>2, <3>3
  <2>6. WritesTo(h, n + 1)
    BY <2>3, <2>5 DEF WritesTo
  <2> QED
    BY <2>6
<1>3. Nat \subseteq P
  <2> HIDE DEF P
  <2> QED
    BY <1>1, <1>2, Induction
<1> QED
  BY <1>3

\* and two tables agree where both have a decimal,
LEMMA WritesToUnique ==
  ASSUME NEW g, NEW n \in Nat, WritesTo(g, n),
         NEW h, NEW m \in Nat, WritesTo(h, m)
  PROVE  \A i \in Nat : i <= n /\ i <= m => g[i] = h[i]
<1> DEFINE P == {i \in Nat : i <= n /\ i <= m => g[i] = h[i]}
<1>1. ASSUME NEW i \in Nat, \A j \in 0..(i - 1) : j \in P PROVE i \in P
  <2> SUFFICES ASSUME i <= n, i <= m PROVE g[i] = h[i]
    OBVIOUS
  <2>1. /\ g[i] = IF i < 10 THEN Lowest(i) ELSE g[i \div 10] \o Lowest(i)
        /\ h[i] = IF i < 10 THEN Lowest(i) ELSE h[i \div 10] \o Lowest(i)
    <3>1. i \in 0..n /\ i \in 0..m
      OBVIOUS
    <3>2. g[i] = IF i < 10 THEN Lowest(i) ELSE g[i \div 10] \o Lowest(i)
      BY <3>1 DEF WritesTo
    <3>3. h[i] = IF i < 10 THEN Lowest(i) ELSE h[i \div 10] \o Lowest(i)
      BY <3>1 DEF WritesTo
    <3> QED
      BY <3>2, <3>3
  <2>2. i >= 10 => g[i \div 10] = h[i \div 10]
    BY <1>1, Shorter
  <2> QED
    BY <2>1, <2>2
<1>2. Nat \subseteq P
  <2> HIDE DEF P
  <2> QED
    BY <1>1, StrongInduction
<1> QED
  BY <1>2

\* so the recursive definition of Decimal has the function it describes.
LEMMA DecimalDef ==
  /\ Decimal \in [Nat -> Seq(Ten)]
  /\ \A n \in Nat : Decimal[n] = IF n < 10 THEN Lowest(n) ELSE Decimal[n \div 10] \o Lowest(n)
<1> DEFINE Part(n) == CHOOSE g : WritesTo(g, n)
           D == [n \in Nat |-> Part(n)[n]]
<1>1. \A n \in Nat : WritesTo(Part(n), n)
  BY WritesToExists
<1> HIDE DEF Part
<1>2. \A n \in Nat : D[n] \in Seq(Ten)
  BY <1>1 DEF WritesTo
<1>3. ASSUME NEW n \in Nat
      PROVE  D[n] = IF n < 10 THEN Lowest(n) ELSE D[n \div 10] \o Lowest(n)
  <2>1. D[n] = IF n < 10 THEN Lowest(n) ELSE Part(n)[n \div 10] \o Lowest(n)
    BY <1>1 DEF WritesTo
  <2>2. n \div 10 \in Nat /\ n \div 10 <= n
    BY Shorter
  <2>3. D[n \div 10] = Part(n \div 10)[n \div 10]
    BY <2>2
  <2>4. Part(n)[n \div 10] = Part(n \div 10)[n \div 10]
    BY <1>1, <2>2, WritesToUnique
  <2> QED
    BY <2>1, <2>3, <2>4
<1>4. D = [n \in Nat |-> IF n < 10 THEN Lowest(n) ELSE D[n \div 10] \o Lowest(n)]
  <2>1. DOMAIN D = Nat
    OBVIOUS
  <2>2. D = [n \in Nat |-> D[n]]
    OBVIOUS
  <2> HIDE DEF D
  <2> QED
    BY <1>3, <2>2
<1>5. Decimal = [n \in Nat |-> IF n < 10 THEN Lowest(n) ELSE Decimal[n \div 10] \o Lowest(n)]
  <2> HIDE DEF D
  <2>1. \E f : f = [n \in Nat |-> IF n < 10 THEN Lowest(n) ELSE f[n \div 10] \o Lowest(n)]
    BY <1>4
  <2> QED
    BY <2>1 DEF Decimal, Lowest
<1>6. \A n \in Nat : Decimal[n] = IF n < 10 THEN Lowest(n) ELSE Decimal[n \div 10] \o Lowest(n)
  BY <1>5
<1>7. ASSUME NEW n \in Nat PROVE Decimal[n] \in Seq(Ten)
  <2> DEFINE P == {i \in Nat : Decimal[i] \in Seq(Ten)}
  <2>1. ASSUME NEW i \in Nat, \A j \in 0..(i - 1) : j \in P PROVE i \in P
    <3>1. i >= 10 => Decimal[i \div 10] \in Seq(Ten)
      BY <2>1, Shorter
    <3>2. Lowest(i) \in Seq(Ten)
      BY LowestIs
    <3>3. i >= 10 => Decimal[i \div 10] \o Lowest(i) \in Seq(Ten)
      BY <3>1, <3>2, ConcatProperties
    <3>4. CASE i < 10
      BY <1>6, <3>2, <3>4
    <3>5. CASE i >= 10
      <4>1. Decimal[i] = Decimal[i \div 10] \o Lowest(i)
        <5>1. ~(i < 10)
          BY <3>5
        <5> QED
          BY <1>6, <5>1, Zenon
      <4> QED
        BY <3>3, <3>5, <4>1
    <3> QED
      BY <3>4, <3>5
  <2>2. Nat \subseteq P
    <3> HIDE DEF P
    <3> QED
      BY <2>1, StrongInduction
  <2> QED
    BY <2>2
<1>8. Decimal \in [Nat -> Seq(Ten)]
  <2>1. DOMAIN Decimal = Nat /\ Decimal = [n \in Nat |-> Decimal[n]]
    BY <1>5
  <2> QED
    BY <1>7, <2>1
<1> QED
  BY <1>6, <1>8

Word == 65536

\* How many digits there are: of a port, five at most.
LEMMA DecimalLength ==
  ASSUME NEW n \in Nat
  PROVE  /\ Len(Decimal[n]) \in 1..(1 + n \div 10)
         /\ n < Word => Len(Decimal[n]) <= 5
<1>1. ASSUME NEW k \in Nat, k < 10
      PROVE  Len(Decimal[k]) = 1
  BY <1>1, DecimalDef, LowestIs
<1>2. ASSUME NEW k \in Nat, k >= 10
      PROVE  /\ Len(Decimal[k]) = Len(Decimal[k \div 10]) + 1
             /\ Len(Decimal[k \div 10]) \in Nat
  <2>1. ~(k < 10)
    BY <1>2
  <2>2. Decimal[k] = Decimal[k \div 10] \o Lowest(k)
    BY <2>1, DecimalDef, Zenon
  <2>3. Decimal[k \div 10] \in Seq(Ten)
    BY DecimalDef, Shorter
  <2>4. Lowest(k) \in Seq(Ten) /\ Len(Lowest(k)) = 1
    BY LowestIs
  <2>5. Len(Decimal[k \div 10] \o Lowest(k)) = Len(Decimal[k \div 10]) + Len(Lowest(k))
    BY <2>3, <2>4, ConcatProperties
  <2>6. Len(Decimal[k \div 10]) \in Nat
    BY <2>3, LenProperties
  <2> QED
    BY <2>2, <2>4, <2>5, <2>6
<1>3. Len(Decimal[n]) \in 1..(1 + n \div 10)
  <2> DEFINE P == {k \in Nat : Len(Decimal[k]) \in 1..(1 + k \div 10)}
  <2>1. ASSUME NEW k \in Nat, \A j \in 0..(k - 1) : j \in P PROVE k \in P
    <3>1. CASE k < 10
      <4>1. Len(Decimal[k]) = 1
        BY <1>1, <3>1
      <4>2. k \div 10 \in Nat
        OBVIOUS
      <4>3. 1 \in 1..(1 + k \div 10)
        BY <4>2
      <4> QED
        BY <4>1, <4>3
    <3>2. CASE k >= 10
      <4>1. k \div 10 \in 0..(k - 1) /\ k \div 10 >= 1
        BY <3>2, Shorter
      <4>2. Len(Decimal[k \div 10]) \in 1..(1 + (k \div 10) \div 10)
        BY <2>1, <4>1
      <4>3. (k \div 10) \div 10 <= k \div 10 - 1
        BY <4>1
      <4> QED
        BY <1>2, <3>2, <4>1, <4>2, <4>3
    <3> QED
      BY <3>1, <3>2
  <2>2. Nat \subseteq P
    <3> HIDE DEF P
    <3> QED
      BY <2>1, StrongInduction
  <2> QED
    BY <2>2
<1>4. ASSUME NEW k \in Nat, k < 100 PROVE Len(Decimal[k]) <= 2
  <2>1. k \div 10 \in Nat /\ k \div 10 < 10
    BY <1>4
  <2>2. Len(Decimal[k \div 10]) = 1
    BY <1>1, <2>1
  <2>3. k < 10 => Len(Decimal[k]) = 1
    BY <1>1
  <2>4. ASSUME k >= 10 PROVE Len(Decimal[k]) = 1 + 1
    <3>1. Len(Decimal[k]) = Len(Decimal[k \div 10]) + 1
      BY <1>2, <2>4
    <3> QED
      BY <2>2, <3>1
  <2>5. Len(Decimal[k]) \in Nat
    BY DecimalDef, LenProperties
  <2>6. k < 10 \/ k >= 10
    OBVIOUS
  <2> DEFINE L == Len(Decimal[k])
  <2>7. L \in Nat /\ (k < 10 => L = 1) /\ (k >= 10 => L = 1 + 1)
    BY <2>3, <2>4, <2>5
  <2>8. L <= 2
    <3> HIDE DEF L
    <3> QED
      BY <2>6, <2>7
  <2> QED
    BY <2>8
<1>5. ASSUME NEW k \in Nat, k < 1000 PROVE Len(Decimal[k]) <= 3
  <2>1. k \div 10 \in Nat /\ k \div 10 < 100
    BY <1>5
  <2> QED
    BY <1>1, <1>2, <1>4, <2>1
<1>6. ASSUME NEW k \in Nat, k < 10000 PROVE Len(Decimal[k]) <= 4
  <2>1. k \div 10 \in Nat /\ k \div 10 < 1000
    BY <1>6
  <2> QED
    BY <1>1, <1>2, <1>5, <2>1
<1>7. ASSUME n < 100000 PROVE Len(Decimal[n]) <= 5
  <2>1. n \div 10 \in Nat /\ n \div 10 < 10000
    BY <1>7
  <2> QED
    BY <1>1, <1>2, <1>6, <2>1
<1>8. n < Word => n < 100000
  BY SMT DEF Word
<1> QED
  BY <1>3, <1>7, <1>8

\* The values of the digits read so far.
Values(v, s) ==
  /\ v \in [0..Len(s) -> Nat]
  /\ v[0] = 0
  /\ \A i \in 1..Len(s) : v[i] = 10 * v[i - 1] + DigitValue[s[i]]

\* atoi goes through the digits from left to right.
LEMMA NumberDef ==
  ASSUME NEW s \in Seq(Digits)
  PROVE  \E v : Values(v, s) /\ Number(s) = v[Len(s)]
<1>1. \A i \in 1..Len(s) : DigitValue[s[i]] \in Nat
  <2> SUFFICES ASSUME NEW i \in 1..Len(s) PROVE DigitValue[s[i]] \in Nat
    OBVIOUS
  <2>1. s[i] \in Digits
    OBVIOUS
  <2>2. PICK j \in 1..16 : s[i] = Digit[j]
    BY <2>1 DEF Digits
  <2>3. j - 1 \in 0..15 /\ (j - 1) + 1 = j
    OBVIOUS
  <2>4. DigitValue[Digit[(j - 1) + 1]] = j - 1
    BY <2>3, DigitsAre
  <2>5. DigitValue[s[i]] = j - 1
    BY <2>2, <2>3, <2>4, Zenon
  <2>6. j - 1 \in Nat
    BY <2>3
  <2> QED
    BY <2>5, <2>6, Zenon
<1> DEFINE step == [i \in 1..Len(s) |-> [x \in Nat |-> 10 * x + DigitValue[s[i]]]]
<1>2. Len(s) \in Nat
  OBVIOUS
<1>3. step \in [1..Len(s) -> [Nat -> Nat]]
  BY <1>1
<1>4. PICK v \in [0..Len(s) -> Nat] : v[0] = 0 /\ \A i \in 1..Len(s) : v[i] = step[i][v[i - 1]]
  <2> HIDE DEF step
  <2> DEFINE m == Len(s)
             X == Nat
             x0 == 0
  <2>1. x0 \in X /\ m \in Nat /\ step \in [1..m -> [X -> X]]
    BY <1>2, <1>3
  <2> HIDE DEF m, X, x0, step
  <2>2. \E v : Follows(v, m, X, x0, step)
    BY <2>1, Recursion, Zenon
  <2>3. PICK v : Follows(v, m, X, x0, step)
    BY <2>2
  <2> QED
    BY <2>3 DEF m, X, x0, Follows
<1>5. \A i \in 1..Len(s) : v[i] = 10 * v[i - 1] + DigitValue[s[i]]
  <2> SUFFICES ASSUME NEW i \in 1..Len(s) PROVE v[i] = 10 * v[i - 1] + DigitValue[s[i]]
    OBVIOUS
  <2>1. i - 1 \in 0..Len(s)
    BY <1>2
  <2>2. v[i - 1] \in Nat
    BY <2>1
  <2>3. v[i] = step[i][v[i - 1]]
    BY <1>4
  <2>4. step[i] = [x \in Nat |-> 10 * x + DigitValue[s[i]]]
    OBVIOUS
  <2> QED
    BY <2>2, <2>3, <2>4
<1>6. v = [i \in 0..Len(s) |-> IF i = 0 THEN 0 ELSE 10 * v[i - 1] + DigitValue[s[i]]]
  <2>1. v = [i \in 0..Len(s) |-> v[i]]
    OBVIOUS
  <2>2. \A i \in 0..Len(s) : v[i] = IF i = 0 THEN 0 ELSE 10 * v[i - 1] + DigitValue[s[i]]
    <3>1. \A i \in 0..Len(s) : i # 0 => i \in 1..Len(s)
      BY <1>2
    <3> HIDE DEF step
    <3> QED
      BY <1>4, <1>5, <3>1
  <2> HIDE DEF step
  <2> QED
    BY <2>1, <2>2, Zenon
<1> DEFINE w == CHOOSE f : f = [i \in 0..Len(s) |-> IF i = 0 THEN 0 ELSE 10 * f[i - 1] + DigitValue[s[i]]]
<1>7. w = [i \in 0..Len(s) |-> IF i = 0 THEN 0 ELSE 10 * w[i - 1] + DigitValue[s[i]]]
  BY <1>6
<1>8. Number(s) = w[Len(s)]
  BY DEF Number
<1> HIDE DEF w
<1>9. w[0] = 0 /\ \A i \in 1..Len(s) : w[i] = 10 * w[i - 1] + DigitValue[s[i]]
  BY <1>2, <1>7
<1>10. \A i \in 0..Len(s) : w[i] \in Nat
  <2> DEFINE P == {i \in Nat : i <= Len(s) => w[i] \in Nat}
  <2>1. 0 \in P
    BY <1>9
  <2>2. ASSUME NEW i \in Nat, i \in P PROVE i + 1 \in P
    <3> SUFFICES ASSUME i + 1 <= Len(s) PROVE w[i + 1] \in Nat
      OBVIOUS
    <3>1. i + 1 \in 1..Len(s) /\ (i + 1) - 1 = i /\ i <= Len(s)
      BY <1>2
    <3>2. w[i + 1] = 10 * w[i] + DigitValue[s[i + 1]]
      BY <1>9, <3>1
    <3>3. w[i] \in Nat /\ DigitValue[s[i + 1]] \in Nat
      BY <1>1, <2>2, <3>1
    <3> QED
      BY <3>2, <3>3
  <2>3. Nat \subseteq P
    <3> HIDE DEF P
    <3> QED
      BY <2>1, <2>2, Induction
  <2> QED
    BY <2>3
<1>11. w \in [0..Len(s) -> Nat]
  BY <1>7, <1>10
<1> QED
  BY <1>8, <1>9, <1>11 DEF Values

\* One more digit makes ten times as much, and that digit.
LEMMA NumberAppend ==
  ASSUME NEW s \in Seq(Digits), NEW c \in Seq(Digits), Len(c) = 1
  PROVE  Number(s \o c) = 10 * Number(s) + DigitValue[c[1]]
<1> DEFINE t == s \o c
<1>1. /\ t \in Seq(Digits) /\ Len(t) = Len(s) + 1 /\ Len(s) \in Nat
      /\ \A i \in 1..Len(s) : t[i] = s[i]
      /\ t[Len(s) + 1] = c[1]
  BY ConcatProperties
<1> HIDE DEF t
<1>2. PICK v : Values(v, s) /\ Number(s) = v[Len(s)]
  BY NumberDef
<1>3. PICK w : Values(w, t) /\ Number(t) = w[Len(t)]
  BY <1>1, NumberDef
<1> DEFINE P == {i \in Nat : i <= Len(s) => w[i] = v[i]}
<1>4. 0 \in P
  BY <1>2, <1>3 DEF Values
<1>5. ASSUME NEW i \in Nat, i \in P PROVE i + 1 \in P
  <2> SUFFICES ASSUME i + 1 <= Len(s) PROVE w[i + 1] = v[i + 1]
    OBVIOUS
  <2>1. w[i] = v[i]
    BY <1>1, <1>5
  <2>2. i + 1 \in 1..Len(s) /\ i + 1 \in 1..Len(t) /\ (i + 1) - 1 = i
    BY <1>1
  <2>3. w[i + 1] = 10 * w[i] + DigitValue[t[i + 1]]
    BY <1>3, <2>2 DEF Values
  <2>4. v[i + 1] = 10 * v[i] + DigitValue[s[i + 1]]
    BY <1>2, <2>2 DEF Values
  <2> QED
    BY <1>1, <2>1, <2>2, <2>3, <2>4
<1>6. Nat \subseteq P
  <2> HIDE DEF P
  <2> QED
    BY <1>4, <1>5, Induction
<1>7. w[Len(s)] = v[Len(s)]
  BY <1>1, <1>6
<1>8. w[Len(t)] = 10 * w[Len(s)] + DigitValue[c[1]]
  <2>1. Len(t) \in 1..Len(t) /\ Len(t) - 1 = Len(s) /\ t[Len(t)] = c[1]
    BY <1>1
  <2>2. w[Len(t)] = 10 * w[Len(t) - 1] + DigitValue[t[Len(t)]]
    BY <1>3, <2>1 DEF Values
  <2> QED
    BY <2>1, <2>2
<1> QED
  BY <1>2, <1>3, <1>7, <1>8 DEF t

\* What is read from a number's text is the number.
LEMMA NumberOfDecimal ==
  \A n \in Nat : Number(Decimal[n]) = n
<1> DEFINE P == {n \in Nat : Number(Decimal[n]) = n}
<1>1. ASSUME NEW n \in Nat, \A j \in 0..(n - 1) : j \in P PROVE n \in P
  <2>1. /\ Lowest(n) \in Seq(Digits) /\ Len(Lowest(n)) = 1
        /\ DigitValue[Lowest(n)[1]] = n % 10
    <3>1. n % 10 \in 0..15
      OBVIOUS
    <3> QED
      BY <3>1, LowestIs, DigitsAre, SeqMonotonic
  <2>2. CASE n < 10
    <3> DEFINE none == <<>>
    <3>1. none \in Seq(Digits) /\ none \o Lowest(n) = Lowest(n)
      BY <2>1, ConcatEmptySeq
    <3>2. Number(none) = 0
      <4>1. PICK v : Values(v, none) /\ Number(none) = v[Len(none)]
        BY <3>1, NumberDef
      <4> QED
        BY <4>1 DEF Values
    <3> HIDE DEF none
    <3>3. Number(Lowest(n)) = 10 * Number(none) + DigitValue[Lowest(n)[1]]
      BY <2>1, <3>1, NumberAppend
    <3>4. Decimal[n] = Lowest(n)
      BY <2>2, DecimalDef
    <3>5. n % 10 = n
      BY <2>2
    <3> QED
      BY <2>1, <3>2, <3>3, <3>4, <3>5
  <2>3. CASE n >= 10
    <3>1. n \div 10 \in 0..(n - 1) /\ n \div 10 \in Nat
      BY <2>3, Shorter
    <3>2. Number(Decimal[n \div 10]) = n \div 10
      BY <1>1, <3>1
    <3>3. Decimal[n \div 10] \in Seq(Digits)
      BY <3>1, DecimalDef, DigitsAre, SeqMonotonic
    <3>4. Decimal[n] = Decimal[n \div 10] \o Lowest(n)
      <4>1. ~(n < 10)
        BY <2>3
      <4> QED
        BY <4>1, DecimalDef, Zenon
    <3>5. Number(Decimal[n]) = 10 * (n \div 10) + (n % 10)
      BY <2>1, <3>2, <3>3, <3>4, NumberAppend
    <3>6. 10 * (n \div 10) + (n % 10) = n
      OBVIOUS
    <3> QED
      BY <3>5, <3>6
  <2> QED
    BY <2>2, <2>3
<1>2. Nat \subseteq P
  <2> HIDE DEF P
  <2> QED
    BY <1>1, StrongInduction
<1> QED
  BY <1>2

-----------------------------------------------------------------------------
(* Pointers into a text: what is left of it behind its first k characters.   *)

Char == Digits \cup {"<", ">", ",", " "} \cup DOMAIN Letters

\* u stands in s behind the first k characters.
At(s, k, u) == k + Len(u) <= Len(s) /\ \A i \in 1..Len(u) : s[k + i] = u[i]

\* The rest behind the first k characters,
LEMMA BehindIs ==
  ASSUME NEW s \in Seq(Char), NEW k \in 0..Len(s)
  PROVE  /\ Behind(s, k) \in Seq(Char) /\ Len(Behind(s, k)) = Len(s) - k
         /\ \A i \in 1..(Len(s) - k) : Behind(s, k)[i] = s[k + i]
<1>1. Len(s) \in Nat /\ k + 1 \in Int /\ \A i \in (k + 1)..Len(s) : s[i] \in Char
  OBVIOUS
<1>2. /\ SubSeq(s, k + 1, Len(s)) \in Seq(Char)
      /\ Len(SubSeq(s, k + 1, Len(s))) = IF k + 1 <= Len(s) THEN Len(s) - (k + 1) + 1 ELSE 0
      /\ \A i \in 1..(Len(s) - (k + 1) + 1) : SubSeq(s, k + 1, Len(s))[i] = s[(k + 1) + i - 1]
  BY <1>1, SubSeqProperties
<1> DEFINE r == SubSeq(s, k + 1, Len(s))
<1>3. Len(r) = Len(s) - k
  BY <1>1, <1>2
<1>4. ASSUME NEW i \in 1..(Len(s) - k) PROVE r[i] = s[k + i]
  <2>1. i \in 1..(Len(s) - (k + 1) + 1) /\ (k + 1) + i - 1 = k + i
    BY <1>1
  <2>2. r[i] = s[(k + 1) + i - 1]
    BY <1>2, <2>1
  <2> QED
    BY <2>1, <2>2
<1> QED
  BY <1>2, <1>3, <1>4 DEF Behind

\* the rest of a rest (a pointer that is moved on),
LEMMA BehindBehind ==
  ASSUME NEW s \in Seq(Char), NEW k \in 0..Len(s), NEW m \in Nat, k + m <= Len(s)
  PROVE  Behind(Behind(s, k), m) = Behind(s, k + m)
<1> DEFINE r == Behind(s, k)
           a == Behind(r, m)
           b == Behind(s, k + m)
<1>1. /\ Len(s) \in Nat /\ k + m \in 0..Len(s)
      /\ r \in Seq(Char) /\ Len(r) = Len(s) - k
      /\ \A i \in 1..(Len(s) - k) : r[i] = s[k + i]
      /\ m \in 0..(Len(s) - k)
  BY BehindIs
<1>2. /\ a \in Seq(Char) /\ Len(a) = Len(s) - k - m
      /\ \A i \in 1..(Len(s) - k - m) : a[i] = r[m + i]
  <2> HIDE DEF r
  <2>1. m \in 0..Len(r) /\ Len(r) - m = Len(s) - k - m
    BY <1>1
  <2>2. /\ Behind(r, m) \in Seq(Char) /\ Len(Behind(r, m)) = Len(r) - m
        /\ \A i \in 1..(Len(r) - m) : Behind(r, m)[i] = r[m + i]
    BY <1>1, <2>1, BehindIs
  <2> QED
    BY <2>1, <2>2
<1>3. /\ b \in Seq(Char) /\ Len(b) = Len(s) - (k + m)
      /\ \A i \in 1..(Len(s) - (k + m)) : b[i] = s[(k + m) + i]
  BY <1>1, BehindIs
<1> HIDE DEF r, a, b
<1>4. Len(a) = Len(b) /\ Len(a) \in Nat
  BY <1>1, <1>2, <1>3
<1>5. ASSUME NEW i \in 1..Len(a) PROVE a[i] = b[i]
  <2>1. /\ i \in 1..(Len(s) - k - m) /\ m + i \in 1..(Len(s) - k)
        /\ i \in 1..(Len(s) - (k + m)) /\ k + (m + i) = (k + m) + i
    BY <1>1, <1>2
  <2>2. a[i] = r[m + i] /\ r[m + i] = s[k + (m + i)]
    BY <1>1, <1>2, <2>1
  <2>3. b[i] = s[(k + m) + i]
    BY <1>3, <2>1
  <2> QED
    BY <2>1, <2>2, <2>3
<1>6. a = b
  BY <1>2, <1>3, <1>4, <1>5, SeqEqual
<1> QED
  BY <1>6 DEF a, b, r

\* the rest behind no character,
LEMMA BehindNothing ==
  ASSUME NEW s \in Seq(Char)
  PROVE  Behind(s, 0) = s
<1>1. Len(s) \in Nat /\ 0 \in 0..Len(s) /\ 0 + 1 = 1
  OBVIOUS
<1> QED
  BY <1>1, SubSeqFull DEF Behind

\* and the rest that is empty.
LEMMA BehindAll ==
  ASSUME NEW s \in Seq(Char)
  PROVE  \A k \in 0..Len(s) : Behind(s, k) = Null <=> k = Len(s)
<1> SUFFICES ASSUME NEW k \in 0..Len(s) PROVE Behind(s, k) = Null <=> k = Len(s)
  OBVIOUS
<1>1. Len(s) \in Nat /\ Behind(s, k) \in Seq(Char) /\ Len(Behind(s, k)) = Len(s) - k
  BY BehindIs
<1>2. Behind(s, k) = <<>> <=> Len(Behind(s, k)) = 0
  BY <1>1, EmptySeq
<1> QED
  BY <1>1, <1>2 DEF Null

\* From finds the first of the places.
LEMMA FromIs ==
  ASSUME NEW s \in Seq(Char), NEW places \in SUBSET (1..Len(s)),
         NEW m \in places, \A i \in places : m <= i
  PROVE  From(s, places) = Behind(s, m - 1)
<1>1. Len(s) \in Nat /\ places \in SUBSET Nat /\ places # {} /\ m \in Nat
  OBVIOUS
<1>2. First(places) \in places /\ \A j \in places : First(places) <= j
  BY <1>1, FirstIs
<1>3. First(places) = m
  <2>1. First(places) \in Nat /\ First(places) <= m /\ m <= First(places)
    BY <1>1, <1>2
  <2> QED
    BY <1>1, <2>1
<1>4. (m - 1) + 1 = m
  BY <1>1
<1> QED
  BY <1>1, <1>3, <1>4 DEF From, Behind

\* strchr from behind the first k characters.
LEMMA StrChrIs ==
  ASSUME NEW s \in Seq(Char), NEW k \in 0..Len(s), NEW j \in k..(Len(s) - 1),
         NEW c, s[j + 1] = c, \A i \in (k + 1)..j : s[i] # c
  PROVE  StrChr(Behind(s, k), c) = Behind(s, j)
<1> DEFINE r == Behind(s, k)
           places == {i \in DOMAIN r : r[i] = c}
<1>1. /\ Len(s) \in Nat /\ r \in Seq(Char) /\ Len(r) = Len(s) - k
      /\ \A i \in 1..(Len(s) - k) : r[i] = s[k + i]
  <2>1. Len(s) \in Nat
    BY LenProperties
  <2> QED
    BY <2>1, BehindIs, Zenon
<1> HIDE DEF r
<1>0. DOMAIN r = 1..Len(r)
  BY <1>1, LenProperties
<1>2. places \in SUBSET (1..Len(r))
  BY <1>0
<1>3. (j - k) + 1 \in places
  <2>1. (j - k) + 1 \in 1..(Len(s) - k) /\ k + ((j - k) + 1) = j + 1
    BY <1>1
  <2> QED
    BY <1>0, <1>1, <2>1
<1>4. \A i \in places : (j - k) + 1 <= i
  <2> SUFFICES ASSUME NEW i \in 1..(Len(s) - k), r[i] = c, i < (j - k) + 1 PROVE FALSE
    BY <1>1, <1>0
  <2>1. k + i \in (k + 1)..j /\ s[k + i] = c
    BY <1>1
  <2> QED
    BY <2>1
<1>5. From(r, places) = Behind(r, ((j - k) + 1) - 1)
  <2> HIDE DEF places
  <2> QED
    BY <1>1, <1>2, <1>3, <1>4, FromIs
<1>6. ((j - k) + 1) - 1 = j - k /\ j - k \in Nat /\ k + (j - k) = j /\ j <= Len(s)
  BY <1>1
<1>7. Behind(r, j - k) = Behind(s, j)
  BY <1>6, BehindBehind DEF r
<1> QED
  BY <1>5, <1>6, <1>7 DEF StrChr, r

\* strstr from there, for a pattern whose first character does not come earlier.
LEMMA StrStrIs ==
  ASSUME NEW s \in Seq(Char), NEW k \in 0..Len(s), NEW pattern \in Seq(Char), pattern # <<>>,
         NEW j \in k..Len(s), At(s, j, pattern), \A i \in (k + 1)..j : s[i] # pattern[1]
  PROVE  StrStr(Behind(s, k), pattern) = Behind(s, j)
<1> DEFINE r == Behind(s, k)
           p == Len(pattern)
           places == {i \in 1..(Len(r) - p + 1) : SubSeq(r, i, i + p - 1) = pattern}
<1>1. /\ Len(s) \in Nat /\ r \in Seq(Char) /\ Len(r) = Len(s) - k
      /\ \A i \in 1..(Len(s) - k) : r[i] = s[k + i]
      /\ \A i \in 1..Len(r) : r[i] \in Char
  BY BehindIs
<1>2. p \in Nat /\ p >= 1
  BY EmptySeq
<1>3. j + p <= Len(s) /\ \A i \in 1..p : s[j + i] = pattern[i]
  BY DEF At
<1> HIDE DEF r, p
<1>4. \A i \in 1..(Len(r) - p + 1) :
         /\ SubSeq(r, i, i + p - 1) \in Seq(Char) /\ Len(SubSeq(r, i, i + p - 1)) = p
         /\ \A l \in 1..p : SubSeq(r, i, i + p - 1)[l] = r[i + l - 1]
  <2> SUFFICES ASSUME NEW i \in 1..(Len(r) - p + 1)
               PROVE  /\ SubSeq(r, i, i + p - 1) \in Seq(Char) /\ Len(SubSeq(r, i, i + p - 1)) = p
                      /\ \A l \in 1..p : SubSeq(r, i, i + p - 1)[l] = r[i + l - 1]
    OBVIOUS
  <2>1. i \in Int /\ i + p - 1 \in Int /\ \A l \in i..(i + p - 1) : r[l] \in Char
    BY <1>1, <1>2
  <2>2. (i + p - 1) - i + 1 = p /\ i <= i + p - 1
    BY <1>1, <1>2
  <2> QED
    BY <2>1, <2>2, SubSeqProperties
<1>5. places \in SUBSET (1..Len(r))
  BY <1>1, <1>2
<1>6. (j - k) + 1 \in places
  <2> DEFINE i == (j - k) + 1
  <2>1. i \in 1..(Len(r) - p + 1)
    BY <1>1, <1>2, <1>3
  <2>2. \A l \in 1..p : i + l - 1 \in 1..(Len(s) - k) /\ k + (i + l - 1) = j + l
    BY <1>1, <1>2, <1>3
  <2>3. \A l \in 1..p : r[i + l - 1] = pattern[l]
    <3> SUFFICES ASSUME NEW l \in 1..p PROVE r[i + l - 1] = pattern[l]
      OBVIOUS
    <3>1. i + l - 1 \in 1..(Len(s) - k) /\ k + (i + l - 1) = j + l
      BY <2>2
    <3>2. r[i + l - 1] = s[j + l]
      BY <1>1, <3>1
    <3> QED
      BY <1>3, <3>2
  <2> HIDE DEF i
  <2>4. SubSeq(r, i, i + p - 1) = pattern
    <3> DEFINE u == SubSeq(r, i, i + p - 1)
    <3>1. u \in Seq(Char) /\ Len(u) = p /\ \A l \in 1..p : u[l] = r[i + l - 1]
      BY <1>4, <2>1, Zenon
    <3>2. \A l \in 1..p : u[l] = pattern[l]
      BY <2>3, <3>1
    <3>3. Len(u) = Len(pattern) /\ \A l \in 1..Len(u) : u[l] = pattern[l]
      BY <3>1, <3>2 DEF p
    <3> HIDE DEF u
    <3>4. u = pattern
      BY <3>1, <3>3, SeqEqual
    <3> QED
      BY <3>4 DEF u
  <2> QED
    BY <2>1, <2>4 DEF i
<1>7. \A i \in places : (j - k) + 1 <= i
  <2> SUFFICES ASSUME NEW i \in places, ~((j - k) + 1 <= i) PROVE FALSE
    OBVIOUS
  <2>0. i < (j - k) + 1 /\ i \in Int
    BY <1>1, <1>2
  <2>1. i \in 1..(Len(r) - p + 1) /\ SubSeq(r, i, i + p - 1) = pattern /\ 1 \in 1..p
    BY <1>2
  <2>2. r[i + 1 - 1] = pattern[1]
    BY <1>4, <2>1
  <2>3. i + 1 - 1 = i /\ i \in 1..(Len(s) - k) /\ k + i \in (k + 1)..j
    BY <1>1, <1>2, <2>0, <2>1
  <2> QED
    BY <1>1, <2>2, <2>3
<1>8. From(r, places) = Behind(r, ((j - k) + 1) - 1)
  <2> HIDE DEF places
  <2> QED
    BY <1>1, <1>5, <1>6, <1>7, FromIs
<1>9. ((j - k) + 1) - 1 = j - k /\ j - k \in Nat /\ k + (j - k) = j /\ j <= Len(s)
  BY <1>1
<1>10. Behind(r, j - k) = Behind(s, j)
  BY <1>9, BehindBehind DEF r
<1>11. StrStr(r, pattern) = From(r, places)
  BY DEF StrStr, p
<1> QED
  BY <1>8, <1>9, <1>10, <1>11 DEF r

-----------------------------------------------------------------------------
(* Texts inside texts.                                                       *)

LEMMA AtConcat ==
  ASSUME NEW s \in Seq(Char), NEW k \in Nat, NEW u \in Seq(Char), NEW v \in Seq(Char),
         At(s, k, u \o v)
  PROVE  At(s, k, u) /\ At(s, k + Len(u), v)
<1> DEFINE w == u \o v
<1>1. /\ Len(s) \in Nat /\ Len(u) \in Nat /\ Len(v) \in Nat /\ Len(w) = Len(u) + Len(v)
      /\ \A i \in 1..Len(u) + Len(v) : w[i] = IF i <= Len(u) THEN u[i] ELSE v[i - Len(u)]
  BY ConcatProperties, LenProperties
<1>2. k + Len(w) <= Len(s) /\ \A i \in 1..Len(w) : s[k + i] = w[i]
  BY DEF At
<1> HIDE DEF w
<1>3. At(s, k, u)
  <2>1. k + Len(u) <= Len(s)
    BY <1>1, <1>2
  <2>2. \A i \in 1..Len(u) : s[k + i] = u[i]
    BY <1>1, <1>2
  <2> QED
    BY <2>1, <2>2 DEF At
<1>4. ASSUME NEW i \in 1..Len(v) PROVE s[(k + Len(u)) + i] = v[i]
  <2>1. /\ Len(u) + i \in 1..Len(w) /\ Len(u) + i \in 1..Len(u) + Len(v)
        /\ (Len(u) + i) - Len(u) = i /\ ~(Len(u) + i <= Len(u))
        /\ k + (Len(u) + i) = (k + Len(u)) + i
    BY <1>1
  <2>2. w[Len(u) + i] = v[i]
    BY <1>1, <2>1
  <2> QED
    BY <1>2, <2>1, <2>2
<1>5. (k + Len(u)) + Len(v) <= Len(s)
  BY <1>1, <1>2
<1> QED
  BY <1>3, <1>4, <1>5 DEF At

\* A text stands in itself,
LEMMA AtSelf ==
  ASSUME NEW s \in Seq(Char)
  PROVE  At(s, 0, s)
<1>1. Len(s) \in Nat /\ 0 + Len(s) <= Len(s) /\ \A i \in 1..Len(s) : 0 + i = i
  OBVIOUS
<1> QED
  BY <1>1 DEF At

\* and what stands in a part of a text stands in the text.
LEMMA AtAt ==
  ASSUME NEW s \in Seq(Char), NEW k \in Nat, NEW u \in Seq(Char), At(s, k, u),
         NEW m \in Nat, NEW v \in Seq(Char), At(u, m, v)
  PROVE  At(s, k + m, v)
<1>1. Len(s) \in Nat /\ Len(u) \in Nat /\ Len(v) \in Nat
  OBVIOUS
<1>2. /\ k + Len(u) <= Len(s) /\ \A i \in 1..Len(u) : s[k + i] = u[i]
      /\ m + Len(v) <= Len(u) /\ \A i \in 1..Len(v) : u[m + i] = v[i]
  BY DEF At
<1>3. ASSUME NEW i \in 1..Len(v) PROVE s[(k + m) + i] = v[i]
  <2>1. m + i \in 1..Len(u) /\ k + (m + i) = (k + m) + i
    BY <1>1, <1>2
  <2> QED
    BY <1>2, <2>1
<1>4. (k + m) + Len(v) <= Len(s)
  BY <1>1, <1>2
<1> QED
  BY <1>3, <1>4 DEF At

\* What stands behind the first k characters is what a pointer there begins with.
LEMMA AtIsSubSeq ==
  ASSUME NEW s \in Seq(Char), NEW k \in Nat, NEW u \in Seq(Char), At(s, k, u)
  PROVE  SubSeq(Behind(s, k), 1, Len(u)) = u
<1>1. Len(s) \in Nat /\ Len(u) \in Nat /\ k \in 0..Len(s) /\ Len(u) <= Len(s) - k
  BY LenProperties DEF At
<1> DEFINE r == Behind(s, k)
<1>2. /\ r \in Seq(Char) /\ Len(r) = Len(s) - k
      /\ \A i \in 1..(Len(s) - k) : r[i] = s[k + i]
  BY <1>1, BehindIs
<1>3. \A i \in 1..Len(u) : s[k + i] = u[i]
  BY DEF At
<1> HIDE DEF r
<1> DEFINE t == SubSeq(r, 1, Len(u))
<1>4. \A i \in 1..Len(u) : r[i] = u[i] /\ r[i] \in Char
  BY <1>1, <1>2, <1>3
<1>5. /\ t \in Seq(Char) /\ Len(t) = IF 1 <= Len(u) THEN Len(u) - 1 + 1 ELSE 0
      /\ \A i \in 1..(Len(u) - 1 + 1) : t[i] = r[1 + i - 1]
  <2>1. 1 \in Int /\ Len(u) \in Int
    BY <1>1
  <2> QED
    BY <1>4, <2>1, SubSeqProperties
<1> HIDE DEF t
<1>6. Len(t) = Len(u)
  BY <1>1, <1>5
<1>7. ASSUME NEW i \in 1..Len(u) PROVE t[i] = u[i]
  <2>1. i \in 1..(Len(u) - 1 + 1) /\ 1 + i - 1 = i
    BY <1>1
  <2> QED
    BY <1>4, <1>5, <2>1
<1>8. t = u
  BY <1>5, <1>6, <1>7, SeqEqual
<1> QED
  BY <1>8 DEF t, r

\* extractStringBetweenPatterns finds u, if the patterns stand around it and
\* neither begins earlier.
LEMMA ExtractIs ==
  ASSUME NEW s \in Seq(Char), NEW k \in 0..Len(s),
         NEW start \in Seq(Char), NEW end \in Seq(Char), start # <<>>, end # <<>>,
         NEW a \in k..Len(s), At(s, a, start), \A i \in (k + 1)..a : s[i] # start[1],
         NEW u \in Seq(Char), At(s, a + Len(start), u), \A i \in 1..Len(u) : u[i] # end[1],
         At(s, a + Len(start) + Len(u), end)
  PROVE  Extract(start, end, Behind(s, k)) = u
<1> DEFINE b == a + Len(start)
           e == b + Len(u)
<1>1. /\ Len(s) \in Nat /\ Len(u) \in Nat /\ Len(start) \in Nat \ {0} /\ Len(end) \in Nat \ {0}
      /\ a \in Nat /\ b \in Nat /\ e \in Nat /\ a < b /\ b <= e /\ e < Len(s)
  <2>1. Len(start) \in Nat \ {0} /\ Len(end) \in Nat \ {0} /\ Len(s) \in Nat /\ Len(u) \in Nat
    BY EmptySeq, LenProperties
  <2>2. a + Len(start) + Len(u) + Len(end) <= Len(s)
    BY DEF At
  <2> QED
    BY <2>1, <2>2
<1>2. StrStr(Behind(s, k), start) = Behind(s, a) /\ Behind(s, a) # Null
  <2>1. StrStr(Behind(s, k), start) = Behind(s, a)
    BY StrStrIs
  <2>2. a \in 0..Len(s) /\ a # Len(s)
    BY <1>1
  <2> QED
    BY <2>1, <2>2, BehindAll
<1>3. Behind(Behind(s, a), Len(start)) = Behind(s, b)
  <2>1. a \in 0..Len(s) /\ Len(start) \in Nat /\ a + Len(start) <= Len(s)
    BY <1>1
  <2> QED
    BY <2>1, BehindBehind
<1>4. StrStr(Behind(s, b), end) = Behind(s, e) /\ Behind(s, e) # Null
  <2>1. b \in 0..Len(s) /\ e \in b..Len(s) /\ e # Len(s) /\ e \in 0..Len(s)
    BY <1>1
  <2>2. ASSUME NEW i \in (b + 1)..e PROVE s[i] # end[1]
    <3>1. i - b \in 1..Len(u) /\ b + (i - b) = i
      BY <1>1
    <3>2. s[b + (i - b)] = u[i - b]
      BY <3>1 DEF At
    <3> QED
      BY <3>1, <3>2
  <2>3. At(s, e, end)
    OBVIOUS
  <2> HIDE DEF b, e
  <2>4. StrStr(Behind(s, b), end) = Behind(s, e)
    BY <2>1, <2>2, <2>3, StrStrIs
  <2> QED
    BY <2>1, <2>4, BehindAll
<1>5. Len(Behind(s, b)) - Len(Behind(s, e)) = Len(u)
  <2>1. b \in 0..Len(s) /\ e \in 0..Len(s)
    BY <1>1
  <2>2. Len(Behind(s, b)) = Len(s) - b /\ Len(Behind(s, e)) = Len(s) - e
    <3> HIDE DEF b, e
    <3> QED
      BY <2>1, BehindIs
  <2> QED
    BY <1>1, <2>2
<1>6. SubSeq(Behind(s, b), 1, Len(u)) = u
  BY <1>1, AtIsSubSeq
<1> HIDE DEF b, e
<1> QED
  BY <1>2, <1>3, <1>4, <1>5, <1>6 DEF Extract

Blank == " "
Comma == ","

\* atoi behind k blanks.
LEMMA AtoIIs ==
  ASSUME NEW s \in Seq(Char), NEW k \in Nat, \A i \in 1..k : s[i] = Blank,
         NEW d \in Seq(Ten), d # <<>>, At(s, k, d),
         k + Len(d) = Len(s) \/ s[k + Len(d) + 1] \notin Ten
  PROVE  AtoI(s) = Number(d)
<1>1. Len(s) \in Nat /\ Len(d) \in Nat \ {0} /\ k + Len(d) <= Len(s) /\ k \in 0..Len(s)
  <2>1. Len(s) \in Nat /\ Len(d) \in Nat \ {0}
    BY EmptySeq, LenProperties
  <2>2. k + Len(d) <= Len(s)
    BY DEF At
  <2> QED
    BY <2>1, <2>2
<1>2. \A i \in 1..Len(d) : s[k + i] = d[i] /\ d[i] \in Ten
  BY DEF At
<1>3. d \in Seq(Char)
  <2>1. Ten \subseteq Char
    BY DigitsAre DEF Char
  <2> QED
    BY <2>1, SeqMonotonic
<1> DEFINE blanks == {i \in DOMAIN s : s[i] # Blank}
<1>4. From(s, blanks) = Behind(s, k)
  <2>1. blanks \in SUBSET (1..Len(s))
    BY LenProperties
  <2>2. k + 1 \in blanks
    <3>1. s[k + 1] \in Ten /\ k + 1 \in 1..Len(s)
      <4>1. 1 \in 1..Len(d) /\ k + 1 \in 1..Len(s)
        BY <1>1
      <4> QED
        BY <1>2, <4>1
    <3>2. s[k + 1] # Blank
      BY <3>1, DigitsAre DEF Blank
    <3> QED
      BY <3>1, <3>2, LenProperties
  <2>3. \A i \in blanks : k + 1 <= i
    BY <1>1, <2>1
  <2>4. From(s, blanks) = Behind(s, (k + 1) - 1)
    <3> HIDE DEF blanks
    <3> QED
      BY <2>1, <2>2, <2>3, FromIs
  <2>5. (k + 1) - 1 = k
    BY <1>1
  <2> QED
    BY <2>4, <2>5
<1> DEFINE r == Behind(s, k)
           others == {i \in DOMAIN r : r[i] \notin Ten}
<1>5. /\ r \in Seq(Char) /\ Len(r) = Len(s) - k
      /\ \A i \in 1..(Len(s) - k) : r[i] = s[k + i]
  BY <1>1, BehindIs
<1>6. SubSeq(r, 1, Len(d)) = d
  BY <1>3, AtIsSubSeq
<1> HIDE DEF r
<1>7. DOMAIN r = 1..Len(r) /\ Len(r) \in Nat /\ Len(d) <= Len(r)
  BY <1>1, <1>5, LenProperties
<1>8. \A i \in 1..Len(d) : r[i] \in Ten
  BY <1>1, <1>2, <1>5
<1>9. Len(r) - Len(From(r, others)) = Len(d)
  <2>1. CASE Len(d) = Len(r)
    <3>1. others = {}
      BY <1>7, <1>8, <2>1
    <3>2. From(r, others) = <<>>
      BY <3>1 DEF From
    <3> QED
      BY <1>1, <2>1, <3>2, EmptySeq
  <2>2. CASE Len(d) < Len(r)
    <3>1. Len(d) + 1 \in others
      <4>1. Len(d) + 1 \in 1..(Len(s) - k) /\ k + (Len(d) + 1) = k + Len(d) + 1
        BY <1>1, <1>5, <2>2
      <4>2. k + Len(d) # Len(s)
        BY <1>1, <1>5, <2>2
      <4>3. r[Len(d) + 1] \notin Ten
        BY <1>5, <4>1, <4>2
      <4> QED
        BY <1>5, <1>7, <4>1, <4>3
    <3>2. \A i \in others : Len(d) + 1 <= i
      BY <1>1, <1>7, <1>8
    <3>3. others \in SUBSET (1..Len(r))
      BY <1>7
    <3>4. From(r, others) = Behind(r, (Len(d) + 1) - 1)
      <4> HIDE DEF others
      <4> QED
        BY <1>5, <3>1, <3>2, <3>3, FromIs
    <3>5. (Len(d) + 1) - 1 = Len(d) /\ Len(d) \in 0..Len(r)
      BY <1>1, <1>7
    <3>6. Len(Behind(r, Len(d))) = Len(r) - Len(d)
      BY <1>5, <3>5, BehindIs
    <3>7. From(r, others) = Behind(r, Len(d))
      BY <3>4, <3>5
    <3>8. Len(From(r, others)) = Len(r) - Len(d)
      BY <3>6, <3>7
    <3> HIDE DEF others
    <3> QED
      BY <1>1, <1>7, <3>8
  <2>3. Len(d) = Len(r) \/ Len(d) < Len(r)
    BY <1>1, <1>7
  <2> HIDE DEF others
  <2> QED
    BY <2>1, <2>2, <2>3
<1>10. AtoI(s) = Number(SubSeq(r, 1, Len(r) - Len(From(r, others))))
  BY <1>4, Zenon DEF AtoI, r, Ten, Blank
<1> QED
  BY <1>6, <1>9, <1>10

-----------------------------------------------------------------------------
(* Addresses and ports.                                                      *)

\* Twice swapped, a port is what its lower sixteen bits are.
LEMMA SwappedIs ==
  ASSUME NEW n \in Nat
  PROVE  /\ Swapped(n) \in Nat /\ Swapped(n) < Word
         /\ Swapped(Swapped(n)) = n % Word
<1> DEFINE lo == n % 256
           hi == (n \div 256) % 256
           w == lo * 256 + hi
<1>1. /\ lo \in Int /\ 0 <= lo /\ lo < 256
      /\ hi \in Int /\ 0 <= hi /\ hi < 256
  OBVIOUS
<1>2. n % Word = hi * 256 + lo
  <2> DEFINE a == n \div 256
             b == a \div 256
             c == hi * 256 + lo
  <2>1. n = 256 * a + lo /\ a \in Nat
    OBVIOUS
  <2>2. a = 256 * b + hi /\ b \in Nat
    BY <2>1
  <2> HIDE DEF a, b, lo, hi
  <2>3. n = Word * b + c
    BY <1>1, <2>1, <2>2, SMT DEF Word
  <2>4. c \in Int /\ 0 <= c /\ c < Word
    BY <1>1, SMT DEF Word
  <2> HIDE DEF c
  <2>5. n % Word = c
    BY <2>2, <2>3, <2>4, SMT DEF Word
  <2> QED
    BY <2>5 DEF c
<1>3. w \in Nat /\ w < Word /\ w % 256 = hi /\ w \div 256 = lo /\ lo % 256 = lo
  <2> HIDE DEF lo, hi
  <2> QED
    BY <1>1, SMT DEF Word
<1>4. Swapped(n) = w
  BY DEF Swapped
<1> HIDE DEF w, lo, hi
<1>5. Swapped(w) = hi * 256 + lo
  BY <1>3 DEF Swapped
<1> QED
  BY <1>2, <1>3, <1>4, <1>5

IpAddress == [1..4 -> 0..255]

\* The eight nibbles of an address, and the first of them that is printed.
Nibbles(ip) == [i \in 1..8 |-> LET b == ip[(i + 1) \div 2]
                               IN  IF i % 2 = 1 THEN b \div 16 ELSE b % 16]
Printed(ip) == {i \in 1..8 : Nibbles(ip)[i] # 0 \/ i = 8}

\* The eight nibbles make up the four bytes.
LEMMA NibblesAre ==
  ASSUME NEW ip \in IpAddress
  PROVE  /\ \A i \in 1..8 : Nibbles(ip)[i] \in 0..15
         /\ \A i \in 1..4 : 16 * Nibbles(ip)[2 * i - 1] + Nibbles(ip)[2 * i] = ip[i]
<1>1. \A i \in 1..8 : (i + 1) \div 2 \in 1..4
  OBVIOUS
<1>2. ASSUME NEW b \in Int, 0 <= b, b < 256
      PROVE  /\ b \div 16 \in Int /\ 0 <= b \div 16 /\ b \div 16 < 16
             /\ b % 16 \in Int /\ 0 <= b % 16 /\ b % 16 < 16
             /\ 16 * (b \div 16) + (b % 16) = b
  <2>1. b \div 16 \in Int /\ b % 16 \in Int
    BY <1>2
  <2>2. 0 <= b % 16 /\ b % 16 < 16
    BY <1>2
  <2>3. 16 * (b \div 16) + (b % 16) = b
    BY <1>2
  <2>4. 0 <= b \div 16 /\ b \div 16 < 16
    BY <1>2
  <2> QED
    BY <2>1, <2>2, <2>3, <2>4
<1>3. ASSUME NEW i \in 1..8 PROVE Nibbles(ip)[i] \in 0..15
  <2> DEFINE b == ip[(i + 1) \div 2]
  <2>1. b \in 0..255
    BY <1>1 DEF IpAddress
  <2>2. Nibbles(ip)[i] = IF i % 2 = 1 THEN b \div 16 ELSE b % 16
    BY DEF Nibbles
  <2> HIDE DEF b
  <2>3. b \in Int /\ 0 <= b /\ b < 256
    BY <2>1
  <2> QED
    BY <1>2, <2>2, <2>3
<1>4. ASSUME NEW i \in 1..4
      PROVE  16 * Nibbles(ip)[2 * i - 1] + Nibbles(ip)[2 * i] = ip[i]
  <2>1. /\ 2 * i - 1 \in 1..8 /\ 2 * i \in 1..8
        /\ ((2 * i - 1) + 1) \div 2 = i /\ (2 * i + 1) \div 2 = i
        /\ (2 * i - 1) % 2 = 1 /\ (2 * i) % 2 # 1
    OBVIOUS
  <2>2. Nibbles(ip)[2 * i - 1] = ip[i] \div 16 /\ Nibbles(ip)[2 * i] = ip[i] % 16
    BY <2>1 DEF Nibbles
  <2>3. ip[i] \in 0..255
    BY DEF IpAddress
  <2>4. ip[i] \in Int /\ 0 <= ip[i] /\ ip[i] < 256
    BY <2>3
  <2> QED
    BY <1>2, <2>2, <2>4
<1> QED
  BY <1>3, <1>4

\* %x prints the nibbles from the first that is not 0 on, or the last one.
LEMMA HexIs ==
  ASSUME NEW ip \in IpAddress
  PROVE  \E m \in 1..8 :
            /\ \A i \in 1..(m - 1) : Nibbles(ip)[i] = 0
            /\ Hex(ip) \in Seq(Digits) /\ Len(Hex(ip)) = 9 - m
            /\ \A i \in 1..(9 - m) : Hex(ip)[i] = Digit[Nibbles(ip)[m + i - 1] + 1]
<1> DEFINE m == First(Printed(ip))
           full == [i \in 1..8 |-> Digit[Nibbles(ip)[i] + 1]]
<1>1. m \in Printed(ip) /\ \A j \in Printed(ip) : m <= j
  <2>1. Printed(ip) \in SUBSET Nat /\ 8 \in Printed(ip)
    BY DEF Printed
  <2> QED
    BY <2>1, FirstIs
<1>2. m \in 1..8
  BY <1>1 DEF Printed
<1> HIDE DEF m
<1>3. \A i \in 1..(m - 1) : Nibbles(ip)[i] = 0
  <2> SUFFICES ASSUME NEW i \in 1..(m - 1), Nibbles(ip)[i] # 0 PROVE FALSE
    OBVIOUS
  <2>1. i \in 1..8 /\ i < m
    BY <1>2
  <2>2. i \in Printed(ip)
    BY <2>1 DEF Printed
  <2> QED
    BY <1>1, <1>2, <2>1, <2>2
<1>4. \A i \in 1..8 : full[i] \in Digits
  BY NibblesAre, DigitsAre
<1>5. Len(full) = 8
  OBVIOUS
<1>6. Hex(ip) = SubSeq(full, m, 8)
  <2>1. Hex(ip) = From(full, Printed(ip))
    BY DEF Hex, Nibbles, Printed
  <2>2. Printed(ip) # {}
    BY <1>1
  <2> HIDE DEF full
  <2> QED
    BY <1>5, <2>1, <2>2 DEF From, m
<1> HIDE DEF full
<1>7. /\ SubSeq(full, m, 8) \in Seq(Digits)
      /\ Len(SubSeq(full, m, 8)) = IF m <= 8 THEN 8 - m + 1 ELSE 0
      /\ \A i \in 1..(8 - m + 1) : SubSeq(full, m, 8)[i] = full[m + i - 1]
  <2>1. m \in Int /\ 8 \in Int /\ \A i \in m..8 : full[i] \in Digits
    BY <1>2, <1>4
  <2> QED
    BY <2>1, SubSeqProperties
<1>8. Len(Hex(ip)) = 9 - m
  BY <1>2, <1>6, <1>7
<1>9. ASSUME NEW i \in 1..(9 - m) PROVE Hex(ip)[i] = Digit[Nibbles(ip)[m + i - 1] + 1]
  <2>1. i \in 1..(8 - m + 1) /\ m + i - 1 \in 1..8
    BY <1>2
  <2>2. Hex(ip)[i] = full[m + i - 1]
    BY <1>6, <1>7, <2>1
  <2> QED
    BY <2>1, <2>2 DEF full
<1> QED
  BY <1>2, <1>3, <1>6, <1>7, <1>8, <1>9

\* An address is read as it was written.
LEMMA AddressOfHex ==
  ASSUME NEW ip \in IpAddress
  PROVE  /\ Hex(ip) \in Seq(Digits) /\ Len(Hex(ip)) \in 1..8
         /\ Address(Hex(ip)) = ip
<1>1. PICK m \in 1..8 :
         /\ \A i \in 1..(m - 1) : Nibbles(ip)[i] = 0
         /\ Hex(ip) \in Seq(Digits) /\ Len(Hex(ip)) = 9 - m
         /\ \A i \in 1..(9 - m) : Hex(ip)[i] = Digit[Nibbles(ip)[m + i - 1] + 1]
  BY HexIs
<1> DEFINE s == Hex(ip)
           nibble(i) == IF i + Len(s) > 8 THEN DigitValue[s[i + Len(s) - 8]] ELSE 0
<1>2. ASSUME NEW i \in 1..8 PROVE nibble(i) = Nibbles(ip)[i]
  <2>1. CASE i < m
    <3>1. i \in 1..(m - 1) /\ ~(i + (9 - m) > 8)
      BY <2>1
    <3> QED
      BY <1>1, <3>1
  <2>2. CASE i >= m
    <3> DEFINE j == i + (9 - m) - 8
    <3>1. i + (9 - m) > 8 /\ j \in 1..(9 - m) /\ m + j - 1 = i
      BY <2>2
    <3>2. s[j] = Digit[Nibbles(ip)[i] + 1]
      BY <1>1, <3>1
    <3>3. DigitValue[s[j]] = Nibbles(ip)[i]
      BY <3>2, NibblesAre, DigitsAre
    <3> QED
      BY <1>1, <3>1, <3>3
  <2> QED
    BY <2>1, <2>2
<1>3. Address(s) = [i \in 1..4 |-> 16 * nibble(2 * i - 1) + nibble(2 * i)]
  BY DEF Address
<1> HIDE DEF nibble, s
<1>4. ASSUME NEW i \in 1..4 PROVE 16 * nibble(2 * i - 1) + nibble(2 * i) = ip[i]
  <2>1. 2 * i - 1 \in 1..8 /\ 2 * i \in 1..8
    OBVIOUS
  <2> QED
    BY <1>2, <2>1, NibblesAre
<1>5. Address(s) = [i \in 1..4 |-> ip[i]]
  BY <1>3, <1>4
<1>6. Address(s) = ip
  BY <1>5 DEF IpAddress
<1>7. Len(s) \in 1..8
  BY <1>1 DEF s
<1> QED
  BY <1>1, <1>6, <1>7 DEF s

-----------------------------------------------------------------------------
(* Tuples in texts.                                                          *)

Open == <<"<">>
Between == <<Comma, Blank>>
Close == <<">">>

\* The two characters between the parts of a tuple.
LEMMA BlankIs ==
  /\ Blank \in Char /\ Comma \in Char
  /\ Blank # Comma /\ Blank # "<" /\ Comma # "<"
<1>1. Blank \in Char /\ Comma \in Char
  BY Zenon DEF Blank, Comma, Char
<1>2. " " # "," /\ " " # "<" /\ "," # "<"
  OBVIOUS
<1>3. Blank # Comma /\ Blank # "<" /\ Comma # "<"
  BY <1>2, Zenon DEF Blank, Comma
<1> QED
  BY <1>1, <1>3

\* Digits are none of the characters that are looked for.
LEMMA DigitIs ==
  /\ Digits \subseteq Char /\ Ten \subseteq Digits
  /\ \A d \in Digits : d # Blank /\ d # Comma /\ d # "<" /\ d # ">"
<1>1. \A d \in Digits : d # Blank /\ d # Comma
  BY DigitsAre, Zenon DEF Blank, Comma
<1>2. \A d \in Digits : d # "<" /\ d # ">"
  BY DigitsAre, Zenon
<1>3. Digits \subseteq Char
  BY Zenon DEF Char
<1>4. Ten \subseteq Digits
  BY DigitsAre, Zenon
<1> QED
  BY <1>1, <1>2, <1>3, <1>4, Zenon

\* What begins a tuple,
LEMMA OpenIs ==
  Open \in Seq(Char) /\ Len(Open) = 1 /\ Open[1] = "<" /\ Open # <<>>
<1>1. "<" \in Char
  BY Zenon DEF Char
<1> QED
  BY <1>1 DEF Open

\* what stands between its parts,
LEMMA BetweenIs ==
  /\ Between \in Seq(Char) /\ Len(Between) = 2 /\ Between # <<>>
  /\ Between[1] = Comma /\ Between[2] = Blank
BY BlankIs DEF Between

\* and what ends it.
LEMMA CloseIs ==
  Close \in Seq(Char) /\ Len(Close) = 1 /\ Close[1] = ">" /\ Close # <<>>
<1>1. ">" \in Char
  BY Zenon DEF Char
<1> QED
  BY <1>1 DEF Close

\* Two texts, one behind the other.
LEMMA Joined ==
  ASSUME NEW u \in Seq(Char), NEW v \in Seq(Char)
  PROVE  u \o v \in Seq(Char) /\ Len(u \o v) = Len(u) + Len(v)
BY ConcatProperties

\* What can be written as a tuple, and its two parts.
Tuple == [ip : IpAddress, port : Nat]
H(t) == Hex(t.ip)
D(t) == Decimal[Swapped(t.port)]

\* The address as it is printed: eight digits at most, and read back the same.
LEMMA HIs ==
  ASSUME NEW t, t.ip \in IpAddress
  PROVE  /\ H(t) \in Seq(Digits) /\ H(t) \in Seq(Char) /\ H(t) # <<>>
         /\ Len(H(t)) \in Int /\ 1 <= Len(H(t)) /\ Len(H(t)) <= 8
         /\ Address(H(t)) = t.ip
<1>1. H(t) \in Seq(Digits) /\ Len(H(t)) \in 1..8 /\ Address(H(t)) = t.ip
  BY AddressOfHex DEF H
<1>2. H(t) \in Seq(Char)
  BY <1>1, DigitIs, SeqMonotonic
<1>3. Len(H(t)) \in Int /\ 1 <= Len(H(t)) /\ Len(H(t)) <= 8
  <2>1. \A i \in 1..8 : i \in Int /\ 1 <= i /\ i <= 8
    OBVIOUS
  <2> QED
    BY <1>1, <2>1, Zenon
<1>4. H(t) # <<>>
  BY <1>1, <1>3, EmptySeq
<1> QED
  BY <1>1, <1>2, <1>3, <1>4

\* The port as it is printed: five digits at most, and read back modulo 2^16.
LEMMA DIs ==
  ASSUME NEW t, t.port \in Nat
  PROVE  /\ D(t) \in Seq(Ten) /\ D(t) \in Seq(Digits) /\ D(t) \in Seq(Char) /\ D(t) # <<>>
         /\ Len(D(t)) \in Int /\ 1 <= Len(D(t)) /\ Len(D(t)) <= 5
         /\ Swapped(Number(D(t))) = t.port % Word
<1> DEFINE n == Swapped(t.port)
<1>1. n \in Nat /\ n < Word /\ Swapped(n) = t.port % Word
  BY SwappedIs
<1>2. D(t) = Decimal[n]
  BY DEF D
<1> HIDE DEF n
<1>3. Decimal[n] \in Seq(Ten) /\ Number(Decimal[n]) = n
  BY <1>1, DecimalDef, NumberOfDecimal
<1>4. Len(Decimal[n]) \in 1..(1 + n \div 10) /\ Len(Decimal[n]) <= 5
  BY <1>1, DecimalLength, Zenon
<1>5. n \div 10 \in Int
  BY <1>1
<1>6. Len(D(t)) \in Int /\ 1 <= Len(D(t)) /\ Len(D(t)) <= 5
  BY <1>2, <1>4, <1>5
<1>7. D(t) \in Seq(Digits)
  BY <1>2, <1>3, DigitIs, SeqMonotonic
<1>8. D(t) \in Seq(Char)
  BY <1>7, DigitIs, SeqMonotonic
<1>9. D(t) # <<>>
  BY <1>6, <1>7, EmptySeq
<1> QED
  BY <1>1, <1>2, <1>3, <1>6, <1>7, <1>8, <1>9

\* The text of a tuple has seventeen characters at most.
LEMMA TupleTextIs ==
  ASSUME NEW t, t.ip \in IpAddress, t.port \in Nat
  PROVE  /\ TupleText(t) = (((Open \o H(t)) \o Between) \o D(t)) \o Close
         /\ TupleText(t) \in Seq(Char)
         /\ Len(TupleText(t)) = Len(H(t)) + Len(D(t)) + 4
         /\ Len(TupleText(t)) \in 6..17
<1>1. TupleText(t) = (((Open \o H(t)) \o Between) \o D(t)) \o Close
  BY Zenon DEF TupleText, Open, Between, Close, H, D, Comma, Blank
<1> DEFINE a == Open \o H(t)
           b == a \o Between
           c == b \o D(t)
           e == c \o Close
<1>2. a \in Seq(Char) /\ Len(a) = 1 + Len(H(t))
  BY OpenIs, HIs, Joined
<1> HIDE DEF a
<1>3. b \in Seq(Char) /\ Len(b) = 3 + Len(H(t))
  <2>1. b \in Seq(Char) /\ Len(b) = (1 + Len(H(t))) + 2
    BY <1>2, BetweenIs, Joined
  <2> QED
    BY <2>1, HIs
<1> HIDE DEF b
<1>4. c \in Seq(Char) /\ Len(c) = 3 + Len(H(t)) + Len(D(t))
  BY <1>3, HIs, DIs, Joined
<1> HIDE DEF c
<1>5. e \in Seq(Char) /\ Len(e) = (3 + Len(H(t)) + Len(D(t))) + 1
  BY <1>4, CloseIs, Joined
<1>6. TupleText(t) = e
  BY <1>1 DEF c, b, a
<1> HIDE DEF e
<1>7. Len(e) = Len(H(t)) + Len(D(t)) + 4 /\ Len(e) \in 6..17
  <2> DEFINE h == Len(H(t))
             d == Len(D(t))
  <2>1. h \in Int /\ 1 <= h /\ h <= 8
    BY HIs
  <2>2. d \in Int /\ 1 <= d /\ d <= 5
    BY DIs
  <2> HIDE DEF h, d
  <2>3. (3 + h + d) + 1 = h + d + 4 /\ h + d + 4 \in 6..17
    BY <2>1, <2>2
  <2> QED
    BY <1>5, <2>3 DEF h, d
<1> QED
  BY <1>1, <1>5, <1>6, <1>7, Zenon

\* Where the parts of a tuple stand.
LEMMA TupleAt ==
  ASSUME NEW t, t.ip \in IpAddress, t.port \in Nat,
         NEW s \in Seq(Char), NEW k \in Nat, At(s, k, TupleText(t))
  PROVE  /\ At(s, k, Open)
         /\ At(s, k + 1, H(t))
         /\ At(s, k + 1 + Len(H(t)), Between)
         /\ At(s, k + 3 + Len(H(t)), D(t))
         /\ At(s, k + 3 + Len(H(t)) + Len(D(t)), Close)
<1> DEFINE a == Open \o H(t)
           b == a \o Between
           c == b \o D(t)
           e == c \o Close
<1>1. At(s, k, e)
  BY TupleTextIs
<1>2. Len(H(t)) \in Nat /\ Len(D(t)) \in Nat
  BY HIs, DIs
<1>3. a \in Seq(Char) /\ Len(a) = 1 + Len(H(t))
  BY OpenIs, HIs, Joined
<1>4. b \in Seq(Char) /\ Len(b) = (1 + Len(H(t))) + 2
  <2> HIDE DEF a
  <2> QED
    BY <1>3, BetweenIs, Joined
<1>5. c \in Seq(Char) /\ Len(c) = ((1 + Len(H(t))) + 2) + Len(D(t))
  <2> HIDE DEF a, b
  <2>1. D(t) \in Seq(Char)
    BY DIs
  <2> QED
    BY <1>4, <2>1, Joined
<1>6. At(s, k, c) /\ At(s, k + Len(c), Close)
  <2> HIDE DEF a, b, c
  <2> QED
    BY <1>1, <1>5, CloseIs, AtConcat
<1>7. At(s, k, b) /\ At(s, k + Len(b), D(t))
  <2> HIDE DEF a, b
  <2> QED
    BY <1>4, <1>6, DIs, AtConcat
<1>8. At(s, k, a) /\ At(s, k + Len(a), Between)
  <2> HIDE DEF a
  <2> QED
    BY <1>3, <1>7, BetweenIs, AtConcat
<1>9. At(s, k, Open) /\ At(s, k + Len(Open), H(t))
  BY <1>8, OpenIs, HIs, AtConcat
<1>10. /\ k + Len(Open) = k + 1 /\ k + Len(a) = k + 1 + Len(H(t))
       /\ k + Len(b) = k + 3 + Len(H(t)) /\ k + Len(c) = k + 3 + Len(H(t)) + Len(D(t))
  <2> HIDE DEF a, b, c
  <2> QED
    BY <1>2, <1>3, <1>4, <1>5, OpenIs
<1> HIDE DEF a, b, c
<1> QED
  BY <1>6, <1>7, <1>8, <1>9, <1>10

\* A pointer before a tuple, with neither "<" nor "," between, finds that tuple:
\* its address, and its port as far as it was sent.
LEMMA TupleReadIs ==
  ASSUME NEW t, t.ip \in IpAddress, t.port \in Nat,
         NEW s \in Seq(Char), NEW j \in Nat, NEW k \in Nat, j <= k, At(s, k, TupleText(t)),
         \A i \in (j + 1)..k : s[i] # "<" /\ s[i] # Comma
  PROVE  /\ HasTuple(Behind(s, j))
         /\ TupleOf(Behind(s, j)) = [ip |-> t.ip, port |-> t.port % Word]
<1> DEFINE r == Behind(s, j)
           h == H(t)
           d == D(t)
           b == k + 1 + Len(h)
<1>1. /\ h \in Seq(Digits) /\ h \in Seq(Char) /\ h # <<>> /\ Len(h) \in Nat
      /\ Address(h) = t.ip
  BY HIs
<1>2. /\ d \in Seq(Ten) /\ d \in Seq(Digits) /\ d \in Seq(Char) /\ d # <<>> /\ Len(d) \in Nat
      /\ Swapped(Number(d)) = t.port % Word
  BY DIs
<1>3. /\ At(s, k, Open) /\ At(s, k + 1, h) /\ At(s, b, Between)
      /\ At(s, k + 3 + Len(h), d) /\ At(s, k + 3 + Len(h) + Len(d), Close)
  BY TupleAt
<1> HIDE DEF h, d
<1>4. Len(s) \in Nat /\ b + 2 <= Len(s) /\ b \in Nat /\ k < b
  <2>1. Len(s) \in Nat /\ b \in Nat /\ k < b
    BY <1>1, LenProperties
  <2>2. b + Len(Between) <= Len(s)
    BY <1>3, Zenon DEF At
  <2> HIDE DEF b
  <2> QED
    BY <2>1, <2>2, BetweenIs
<1>5. ExtractedIp(r) = h
  <2>1. j \in 0..Len(s) /\ k \in j..Len(s)
    BY <1>4
  <2>2. At(s, k + Len(Open), h)
    BY <1>3, OpenIs
  <2>3. At(s, k + Len(Open) + Len(h), Between)
    BY <1>3, OpenIs
  <2>4. \A i \in (j + 1)..k : s[i] # Open[1]
    BY OpenIs
  <2>5. \A i \in 1..Len(h) : h[i] # Between[1]
    BY <1>1, DigitIs, BetweenIs
  <2>6. Open \in Seq(Char) /\ Open # <<>> /\ Between \in Seq(Char) /\ Between # <<>>
    BY OpenIs, BetweenIs
  <2>7. Extract(Open, Between, Behind(s, j)) = h
    BY <1>1, <1>3, <2>1, <2>2, <2>3, <2>4, <2>5, <2>6, ExtractIs
  <2> QED
    BY <2>7, Zenon DEF ExtractedIp, Open, Between, Comma, Blank
<1>6. ExtractedPort(r) = d
  <2>1. j \in 0..Len(s) /\ b \in j..Len(s)
    BY <1>4
  <2>2. b + 2 = k + 3 + Len(h) /\ b + 2 + Len(d) = k + 3 + Len(h) + Len(d)
    BY <1>1, <1>2
  <2>3. At(s, b + Len(Between), d)
    BY <1>3, <2>2, BetweenIs
  <2>4. At(s, b + Len(Between) + Len(d), Close)
    BY <1>3, <2>2, BetweenIs
  <2>5. \A i \in (j + 1)..b : s[i] # Between[1]
    <3> SUFFICES ASSUME NEW i \in (j + 1)..b PROVE s[i] # Comma
      BY BetweenIs
    <3>1. CASE i <= k
      <4>1. i \in (j + 1)..k
        BY <3>1
      <4> QED
        BY <4>1
    <3>2. CASE i = k + 1
      <4>1. 1 \in 1..Len(Open)
        BY OpenIs
      <4>2. s[k + 1] = Open[1]
        BY <1>3, <4>1 DEF At
      <4> QED
        BY <3>2, <4>2, OpenIs, BlankIs
    <3>3. CASE i > k + 1
      <4> DEFINE m == i - (k + 1)
      <4>1. m \in 1..Len(h) /\ k + 1 + m = i
        BY <1>1, <3>3
      <4> HIDE DEF m
      <4>2. s[k + 1 + m] = h[m]
        BY <1>3, <4>1 DEF At
      <4>3. h[m] \in Digits
        BY <1>1, <4>1
      <4> QED
        BY <4>1, <4>2, <4>3, DigitIs
    <3> QED
      BY <1>4, <3>1, <3>2, <3>3
  <2>6. \A i \in 1..Len(d) : d[i] # Close[1]
    BY <1>2, DigitIs, CloseIs
  <2>7. Between \in Seq(Char) /\ Between # <<>> /\ Close \in Seq(Char) /\ Close # <<>>
    BY BetweenIs, CloseIs
  <2>8. At(s, b, Between)
    BY <1>3
  <2> HIDE DEF b
  <2>9. Extract(Between, Close, Behind(s, j)) = d
    BY <1>2, <2>8, <2>1, <2>3, <2>4, <2>5, <2>6, <2>7, ExtractIs
  <2> QED
    BY <2>9, Zenon DEF ExtractedPort, Between, Close, Comma, Blank
<1>7. AtoI(d) = Number(d)
  <2>1. 0 \in Nat /\ \A i \in 1..0 : d[i] = Blank
    OBVIOUS
  <2>2. At(d, 0, d)
    BY <1>2, AtSelf
  <2>3. 0 + Len(d) = Len(d)
    BY <1>2
  <2> QED
    BY <1>2, <2>1, <2>2, <2>3, AtoIIs
<1>8. HasTuple(r)
  BY <1>1, <1>2, <1>5, <1>6, Zenon DEF HasTuple, Null
<1>9. TupleOf(r) = [ip |-> t.ip, port |-> t.port % Word]
  BY <1>1, <1>2, <1>5, <1>6, <1>7, Zenon DEF TupleOf
<1> QED
  BY <1>8, <1>9

\* From a pointer on, the next tuple begins behind the first blank that follows
\* the first one at a distance of two characters or more.
LEMMA NextTupleIs ==
  ASSUME NEW s \in Seq(Char), NEW k \in 0..Len(s), NEW a \in k..Len(s), NEW b \in Nat,
         a + 2 <= b, b < Len(s), s[a + 1] = Blank, s[b + 1] = Blank,
         \A i \in (k + 1)..a : s[i] # Blank,
         \A i \in (a + 3)..b : s[i] # Blank
  PROVE  NextTuple(Behind(s, k)) = Behind(s, b + 1)
<1>1. Len(s) \in Nat
  BY LenProperties
<1>2. StrChr(Behind(s, k), Blank) = Behind(s, a)
  <2>1. a \in k..(Len(s) - 1)
    BY <1>1
  <2> QED
    BY <2>1, StrChrIs
<1>3. Behind(Behind(s, a), 2) = Behind(s, a + 2)
  <2>1. a \in 0..Len(s) /\ 2 \in Nat /\ a + 2 <= Len(s)
    BY <1>1
  <2> QED
    BY <2>1, BehindBehind
<1>4. StrChr(Behind(s, a + 2), Blank) = Behind(s, b)
  <2> DEFINE c == a + 2
  <2>1. c \in 0..Len(s) /\ b \in c..(Len(s) - 1) /\ c + 1 = a + 3
    BY <1>1
  <2>2. \A i \in (c + 1)..b : s[i] # Blank
    BY <2>1
  <2> HIDE DEF c
  <2>3. StrChr(Behind(s, c), Blank) = Behind(s, b)
    BY <2>1, <2>2, StrChrIs
  <2> QED
    BY <2>3 DEF c
<1>5. Behind(Behind(s, b), 1) = Behind(s, b + 1)
  <2>1. b \in 0..Len(s) /\ 1 \in Nat /\ b + 1 <= Len(s)
    BY <1>1
  <2> QED
    BY <2>1, BehindBehind
<1> QED
  BY <1>2, <1>3, <1>4, <1>5, Zenon DEF NextTuple, Blank

-----------------------------------------------------------------------------
(* Messages.                                                                 *)

Lead(command) == <<command, Blank>>

\* A command is none of the characters that are looked for.
LEMMA CommandIs ==
  ASSUME NEW c \in DOMAIN Letters
  PROVE  /\ c \in Char /\ c # "<" /\ c # Comma /\ c # Blank /\ c \notin Ten
         /\ Letters[c] \in Int /\ Letters[c] <= 11
<1>1. c \in {"USER_ON", "USER_OFF", "CLIENT_LIST", "LOG_ON", "LOG_OFF", "GET_CLIENTS"}
  BY DEF Letters
<1>2. c \in Char
  BY Zenon DEF Char
<1>3. c # "<"
  BY <1>1
<1>4. c # Comma
  <2>1. \A x \in {"USER_ON", "USER_OFF", "CLIENT_LIST", "LOG_ON", "LOG_OFF", "GET_CLIENTS"} : x # ","
    OBVIOUS
  <2> QED
    BY <1>1, <2>1, Zenon DEF Comma
<1>5. c # Blank
  <2>1. \A x \in {"USER_ON", "USER_OFF", "CLIENT_LIST", "LOG_ON", "LOG_OFF", "GET_CLIENTS"} : x # " "
    OBVIOUS
  <2> QED
    BY <1>1, <2>1, Zenon DEF Blank
<1>6. Letters[c] \in Int /\ Letters[c] <= 11
  BY <1>1 DEF Letters
<1>7. c \notin Ten
  <2>1. Ten = {"0", "1", "2", "3", "4", "5", "6", "7", "8", "9"}
    BY DEF Ten, Digit
  <2> QED
    BY <1>1, <2>1
<1> QED
  BY <1>2, <1>3, <1>4, <1>5, <1>6, <1>7, Zenon

\* What comes before the tuples.
LEMMA LeadIs ==
  ASSUME NEW c \in DOMAIN Letters
  PROVE  /\ Lead(c) \in Seq(Char) /\ Len(Lead(c)) = 2
         /\ Lead(c)[1] = c /\ Lead(c)[2] = Blank
<1>1. c \in Char /\ Blank \in Char
  BY CommandIs, BlankIs
<1> QED
  BY <1>1 DEF Lead

\* A message is read as it was written, up to the higher bytes of the port, and
\* is 29 characters long at most.
LEMMA MessageIs ==
  ASSUME NEW c \in DOMAIN Letters, NEW t, t.ip \in IpAddress, t.port \in Nat
  PROVE  /\ HasTuple(Message(c, t))
         /\ TupleOf(Message(c, t)) = [ip |-> t.ip, port |-> t.port % Word]
         /\ Size(Message(c, t)) \in Int /\ Size(Message(c, t)) <= 29
<1> DEFINE u == TupleText(t)
           s == Lead(c) \o u
<1>1. Message(c, t) = s
  BY Zenon DEF Message, Lead, Blank
<1>2. u \in Seq(Char) /\ Len(u) \in 6..17
  BY TupleTextIs
<1>3. /\ s \in Seq(Char) /\ Len(s) = 2 + Len(u)
      /\ Len(Lead(c)) = 2 /\ Lead(c) \in Seq(Char)
  <2> HIDE DEF u
  <2>1. Len(Lead(c)) = 2 /\ Lead(c) \in Seq(Char)
    BY LeadIs
  <2> QED
    BY <1>2, <2>1, Joined
<1>4. At(s, 0, Lead(c)) /\ At(s, 2, u)
  <2>1. At(s, 0, Lead(c) \o u)
    BY <1>3, AtSelf
  <2>2. 0 \in Nat /\ 0 + Len(Lead(c)) = 2
    BY <1>3
  <2> HIDE DEF u, s
  <2>3. At(s, 0, Lead(c)) /\ At(s, 0 + Len(Lead(c)), u)
    BY <1>2, <1>3, <2>1, <2>2, AtConcat
  <2> QED
    BY <2>2, <2>3
<1> HIDE DEF s
<1>5. s[1] = c /\ s[2] = Blank
  <2>1. \A i \in 1..2 : s[0 + i] = Lead(c)[i]
    BY <1>3, <1>4 DEF At
  <2> QED
    BY <2>1, LeadIs
<1>6. HasTuple(Behind(s, 0)) /\ TupleOf(Behind(s, 0)) = [ip |-> t.ip, port |-> t.port % Word]
  <2>1. \A i \in (0 + 1)..2 : s[i] # "<" /\ s[i] # Comma
    BY <1>5, CommandIs, BlankIs
  <2>2. 0 \in Nat /\ 2 \in Nat /\ 0 <= 2 /\ At(s, 2, TupleText(t))
    BY <1>4
  <2> QED
    BY <1>3, <2>1, <2>2, TupleReadIs
<1>7. Behind(s, 0) = s
  BY <1>3, BehindNothing
<1>8. Size(s) \in Int /\ Size(s) <= 29
  <2>1. Head(s) = s[1]
    BY <1>2, <1>3
  <2>2. Size(s) = Len(s) - 1 + Letters[c]
    BY <1>5, <2>1 DEF Size
  <2> DEFINE l == Len(u)
             m == Letters[c]
  <2>3. l \in 6..17 /\ m \in Int /\ m <= 11
    BY <1>2, CommandIs
  <2>4. Size(s) = (2 + l) - 1 + m
    BY <1>3, <2>2
  <2> HIDE DEF l, m
  <2> QED
    BY <2>3, <2>4
<1> QED
  BY <1>1, <1>6, <1>7, <1>8

-----------------------------------------------------------------------------
(* The text of the list.                                                     *)

Sendable(ts) ==
  /\ Len(ts) \in Nat
  /\ \A i \in 1..Len(ts) : ts[i].ip \in IpAddress /\ ts[i].port \in Nat

\* The text as the loop over the list makes it longer.
Grows(v, ts) ==
  /\ v \in [0..Len(ts) -> Seq(Char)]
  /\ v[0] = Lead("CLIENT_LIST") \o Decimal[Len(ts)]
  /\ \A i \in 1..Len(ts) : v[i] = (v[i - 1] \o <<Blank>>) \o TupleText(ts[i])

\* The loop of handleGetClients appends a blank and a tuple for each node.
LEMMA ListTextDef ==
  ASSUME NEW ts, Sendable(ts)
  PROVE  \E v : Grows(v, ts) /\ ListText(ts) = v[Len(ts)]
<1> DEFINE N == Len(ts)
           step == [i \in 1..N |-> [x \in Seq(Char) |-> (x \o <<Blank>>) \o TupleText(ts[i])]]
           x0 == Lead("CLIENT_LIST") \o Decimal[N]
           X == Seq(Char)
<1>1. N \in Nat /\ \A i \in 1..N : ts[i].ip \in IpAddress /\ ts[i].port \in Nat
  BY DEF Sendable
<1>2. ASSUME NEW i \in 1..N, NEW x \in Seq(Char)
      PROVE  (x \o <<Blank>>) \o TupleText(ts[i]) \in Seq(Char)
  <2>1. TupleText(ts[i]) \in Seq(Char)
    BY <1>1, TupleTextIs
  <2>2. x \o <<Blank>> \in Seq(Char)
    <3>1. <<Blank>> \in Seq(Char)
      BY BlankIs
    <3> QED
      BY <3>1, Joined
  <2> QED
    BY <2>1, <2>2, Joined
<1>3. x0 \in X
  <2>1. "CLIENT_LIST" \in DOMAIN Letters
    BY DEF Letters
  <2>2. Decimal[N] \in Seq(Char)
    <3>1. Decimal[N] \in Seq(Digits)
      BY <1>1, DecimalDef, DigitIs, SeqMonotonic
    <3> QED
      BY <3>1, DigitIs, SeqMonotonic
  <2> HIDE DEF N
  <2> QED
    BY <2>1, <2>2, LeadIs, Joined
<1>4. step \in [1..N -> [X -> X]]
  BY <1>2
<1> HIDE DEF N, x0
<1>5. PICK v : Follows(v, N, X, x0, step)
  <2> HIDE DEF X, step
  <2> QED
    BY <1>1, <1>3, <1>4, Recursion, Zenon
<1>6. v \in [0..N -> X] /\ v[0] = x0 /\ \A i \in 1..N : v[i] = step[i][v[i - 1]]
  <2> HIDE DEF step
  <2> QED
    BY <1>5 DEF Follows
<1>7. ASSUME NEW i \in 1..N PROVE v[i] = (v[i - 1] \o <<Blank>>) \o TupleText(ts[i])
  <2>1. i - 1 \in 0..N
    BY <1>1
  <2>2. v[i - 1] \in Seq(Char)
    BY <1>6, <2>1
  <2>3. v[i] = step[i][v[i - 1]]
    BY <1>6
  <2>4. step[i] = [x \in Seq(Char) |-> (x \o <<Blank>>) \o TupleText(ts[i])]
    OBVIOUS
  <2> QED
    BY <2>2, <2>3, <2>4
<1> HIDE DEF step
<1>8. v = [i \in 0..N |-> IF i = 0 THEN x0 ELSE (v[i - 1] \o <<Blank>>) \o TupleText(ts[i])]
  <2>1. v = [i \in 0..N |-> v[i]]
    BY <1>6
  <2>2. \A i \in 0..N : v[i] = IF i = 0 THEN x0 ELSE (v[i - 1] \o <<Blank>>) \o TupleText(ts[i])
    <3>1. \A i \in 0..N : i # 0 => i \in 1..N
      BY <1>1
    <3> QED
      BY <1>6, <1>7, <3>1, Zenon
  <2> QED
    BY <2>1, <2>2, Zenon
<1> DEFINE w == CHOOSE f : f = [i \in 0..N |-> IF i = 0 THEN x0 ELSE (f[i - 1] \o <<Blank>>) \o TupleText(ts[i])]
<1>9. w = [i \in 0..N |-> IF i = 0 THEN x0 ELSE (w[i - 1] \o <<Blank>>) \o TupleText(ts[i])]
  BY <1>8, Zenon
<1>10. ListText(ts) = w[N]
  BY Zenon DEF ListText, N, x0, Lead, Blank
<1> HIDE DEF w
<1>11. w[0] = x0 /\ \A i \in 1..N : w[i] = (w[i - 1] \o <<Blank>>) \o TupleText(ts[i])
  <2>1. 0 \in 0..N /\ \A i \in 1..N : i \in 0..N /\ i # 0
    BY <1>1
  <2> QED
    BY <1>9, <2>1, Zenon
<1>12. \A i \in 0..N : w[i] \in Seq(Char)
  <2> DEFINE P == {i \in Nat : i <= N => w[i] \in Seq(Char)}
  <2>1. 0 \in P
    BY <1>3, <1>11
  <2>2. ASSUME NEW i \in Nat, i \in P PROVE i + 1 \in P
    <3> SUFFICES ASSUME i + 1 <= N PROVE w[i + 1] \in Seq(Char)
      OBVIOUS
    <3>1. i + 1 \in 1..N /\ (i + 1) - 1 = i /\ w[i] \in Seq(Char)
      BY <1>1, <2>2
    <3>2. w[i + 1] = (w[i] \o <<Blank>>) \o TupleText(ts[i + 1])
      BY <1>11, <3>1
    <3> QED
      BY <1>2, <3>1, <3>2
  <2>3. Nat \subseteq P
    <3> HIDE DEF P
    <3> QED
      BY <2>1, <2>2, Induction
  <2> QED
    BY <1>1, <2>3
<1>13. w \in [0..N -> Seq(Char)]
  BY <1>9, <1>12
<1>14. Grows(w, ts)
  BY <1>11, <1>13 DEF Grows, N, x0
<1> QED
  BY <1>10, <1>14 DEF N

\* How far each tuple brings the text.
LEMMA GrowsBy ==
  ASSUME NEW ts, Sendable(ts), NEW v, Grows(v, ts)
  PROVE  /\ Len(v[0]) \in Int /\ 3 <= Len(v[0]) /\ Len(v[0]) <= 3 + Len(ts) \div 10
         /\ Len(v[0]) = 2 + Len(Decimal[Len(ts)])
         /\ \A i \in 0..Len(ts) : v[i] \in Seq(Char) /\ Len(v[i]) \in Nat
         /\ \A i \in 1..Len(ts) :
               /\ Len(v[i]) = Len(v[i - 1]) + 1 + Len(TupleText(ts[i]))
               /\ Len(v[i]) <= Len(v[i - 1]) + 18
               /\ At(v[i], 0, v[i - 1])
               /\ At(v[i], Len(v[i - 1]), <<Blank>>)
               /\ At(v[i], Len(v[i - 1]) + 1, TupleText(ts[i]))
<1> DEFINE N == Len(ts)
<1>1. N \in Nat /\ \A i \in 1..N : ts[i].ip \in IpAddress /\ ts[i].port \in Nat
  BY DEF Sendable
<1>2. /\ v \in [0..N -> Seq(Char)]
      /\ v[0] = Lead("CLIENT_LIST") \o Decimal[N]
      /\ \A i \in 1..N : v[i] = (v[i - 1] \o <<Blank>>) \o TupleText(ts[i])
  BY DEF Grows
<1> HIDE DEF N
<1>3. \A i \in 0..N : v[i] \in Seq(Char) /\ Len(v[i]) \in Nat
  BY <1>2, LenProperties
<1>4. Len(v[0]) = 2 + Len(Decimal[N]) /\ Len(Decimal[N]) \in 1..(1 + N \div 10)
  <2>1. "CLIENT_LIST" \in DOMAIN Letters
    BY DEF Letters
  <2>2. Decimal[N] \in Seq(Char)
    <3>1. Decimal[N] \in Seq(Digits)
      BY <1>1, DecimalDef, DigitIs, SeqMonotonic
    <3> QED
      BY <3>1, DigitIs, SeqMonotonic
  <2>3. Lead("CLIENT_LIST") \in Seq(Char) /\ Len(Lead("CLIENT_LIST")) = 2
    BY <2>1, LeadIs
  <2>4. Len(v[0]) = 2 + Len(Decimal[N])
    BY <1>2, <2>2, <2>3, Joined
  <2> QED
    BY <1>1, <2>4, DecimalLength
<1>5. Len(v[0]) \in Int /\ 3 <= Len(v[0]) /\ Len(v[0]) <= 3 + N \div 10
  <2> DEFINE d == Len(Decimal[N])
             n == N \div 10
  <2>1. n \in Nat
    BY <1>1
  <2>2. d \in 1..(1 + n) /\ Len(v[0]) = 2 + d
    BY <1>4
  <2> HIDE DEF d, n
  <2>3. Len(v[0]) \in Int /\ 3 <= Len(v[0]) /\ Len(v[0]) <= 3 + n
    BY <2>1, <2>2
  <2> QED
    BY <2>3 DEF n
<1>6. ASSUME NEW i \in 1..N
      PROVE  /\ Len(v[i]) = Len(v[i - 1]) + 1 + Len(TupleText(ts[i]))
             /\ Len(v[i]) <= Len(v[i - 1]) + 18
             /\ At(v[i], 0, v[i - 1])
             /\ At(v[i], Len(v[i - 1]), <<Blank>>)
             /\ At(v[i], Len(v[i - 1]) + 1, TupleText(ts[i]))
  <2> DEFINE a == v[i - 1]
             b == <<Blank>>
             c == TupleText(ts[i])
             ab == a \o b
             abc == ab \o c
  <2>1. i - 1 \in 0..N
    BY <1>1
  <2>2. a \in Seq(Char) /\ Len(a) \in Nat
    BY <1>3, <2>1
  <2>3. b \in Seq(Char) /\ Len(b) = 1
    BY BlankIs
  <2>4. c \in Seq(Char) /\ Len(c) \in 6..17
    BY <1>1, TupleTextIs
  <2>5. v[i] = abc
    BY <1>2
  <2> HIDE DEF a, b, c
  <2>6. ab \in Seq(Char) /\ Len(ab) = Len(a) + 1
    BY <2>2, <2>3, Joined
  <2> HIDE DEF ab
  <2>7. abc \in Seq(Char) /\ Len(abc) = Len(a) + 1 + Len(c)
    BY <2>4, <2>6, Joined
  <2>8. At(abc, 0, abc)
    BY <2>7, AtSelf
  <2>9. 0 \in Nat /\ 0 + Len(ab) = Len(a) + 1 /\ 0 + Len(a) = Len(a)
    BY <2>2, <2>6
  <2>10. At(abc, 0, ab) /\ At(abc, Len(a) + 1, c)
    <3>1. At(abc, 0, ab \o c)
      BY <2>8
    <3> HIDE DEF abc
    <3>2. At(abc, 0, ab) /\ At(abc, 0 + Len(ab), c)
      BY <2>4, <2>6, <2>7, <2>9, <3>1, AtConcat
    <3> QED
      BY <2>9, <3>2
  <2> HIDE DEF abc
  <2>11. At(abc, 0, a) /\ At(abc, Len(a), b)
    <3>1. At(abc, 0, a \o b)
      BY <2>10 DEF ab
    <3>2. At(abc, 0, a) /\ At(abc, 0 + Len(a), b)
      BY <2>2, <2>3, <2>7, <2>9, <3>1, AtConcat
    <3> QED
      BY <2>9, <3>2
  <2>12. Len(abc) <= Len(a) + 18
    <3>1. \A l \in Nat : \A m \in 6..17 : l + 1 + m <= l + 18
      OBVIOUS
    <3> QED
      BY <2>2, <2>4, <2>7, <3>1
  <2> QED
    BY <2>5, <2>7, <2>10, <2>11, <2>12 DEF a, b, c
<1> QED
  BY <1>3, <1>4, <1>5, <1>6 DEF N

\* Where each tuple begins in the text of the whole list.
LEMMA TuplesAt ==
  ASSUME NEW ts, Sendable(ts), NEW v, Grows(v, ts), NEW s, s = v[Len(ts)]
  PROVE  /\ s \in Seq(Char)
         /\ s[1] = "CLIENT_LIST" /\ s[2] = Blank /\ At(s, 2, Decimal[Len(ts)])
         /\ \A i \in 1..Len(ts) :
               /\ s[Len(v[i - 1]) + 1] = Blank /\ Len(v[i - 1]) < Len(s)
               /\ At(s, Len(v[i - 1]) + 1, TupleText(ts[i]))
<1> DEFINE N == Len(ts)
<1>1. N \in Nat /\ \A i \in 1..N : TupleText(ts[i]) \in Seq(Char)
  BY TupleTextIs DEF Sendable
<1>2. \A i \in 0..N : v[i] \in Seq(Char) /\ Len(v[i]) \in Nat
  BY GrowsBy
<1>3. \A i \in 1..N : /\ At(v[i], 0, v[i - 1])
                      /\ At(v[i], Len(v[i - 1]), <<Blank>>)
                      /\ At(v[i], Len(v[i - 1]) + 1, TupleText(ts[i]))
  BY GrowsBy, Zenon
<1>4. v[0] = Lead("CLIENT_LIST") \o Decimal[N]
  BY DEF Grows
<1> HIDE DEF N
<1>5. \A i \in 0..N : At(s, 0, v[i])
  <2> DEFINE P == {m \in Nat : m <= N => \A i \in 0..m : At(v[m], 0, v[i])}
  <2>1. 0 \in P
    <3>1. At(v[0], 0, v[0])
      BY <1>1, <1>2, AtSelf
    <3>2. \A i \in 0..0 : i = 0
      OBVIOUS
    <3> QED
      BY <3>1, <3>2
  <2>2. ASSUME NEW m \in Nat, m \in P PROVE m + 1 \in P
    <3> SUFFICES ASSUME m + 1 <= N, NEW i \in 0..(m + 1) PROVE At(v[m + 1], 0, v[i])
      OBVIOUS
    <3>1. m + 1 \in 1..N /\ (m + 1) - 1 = m /\ m \in 0..N /\ m + 1 \in 0..N /\ i \in 0..N
      BY <1>1
    <3>2. At(v[m + 1], 0, v[m])
      BY <1>3, <3>1
    <3>3. CASE i = m + 1
      BY <1>2, <3>1, <3>3, AtSelf
    <3>4. CASE i \in 0..m
      <4>1. At(v[m], 0, v[i])
        BY <2>2, <3>1, <3>4
      <4>2. v[m + 1] \in Seq(Char) /\ v[m] \in Seq(Char) /\ v[i] \in Seq(Char) /\ 0 \in Nat
        BY <1>2, <3>1
      <4>3. At(v[m + 1], 0 + 0, v[i])
        BY <3>2, <4>1, <4>2, AtAt
      <4>4. 0 + 0 = 0
        OBVIOUS
      <4> QED
        BY <4>3, <4>4
    <3> QED
      BY <3>3, <3>4
  <2>3. Nat \subseteq P
    <3> HIDE DEF P
    <3> QED
      BY <2>1, <2>2, Induction
  <2> QED
    BY <1>1, <2>3 DEF N
<1>6. s \in Seq(Char) /\ Len(s) \in Nat
  BY <1>1, <1>2 DEF N
<1>7. ASSUME NEW i \in 1..N
      PROVE  /\ s[Len(v[i - 1]) + 1] = Blank /\ Len(v[i - 1]) < Len(s)
             /\ At(s, Len(v[i - 1]) + 1, TupleText(ts[i]))
  <2> DEFINE k == Len(v[i - 1])
             b == <<Blank>>
             u == TupleText(ts[i])
  <2>1. i \in 0..N /\ i - 1 \in 0..N
    BY <1>1
  <2>2. At(s, 0, v[i]) /\ At(v[i], k, b) /\ At(v[i], k + 1, u)
    BY <1>3, <1>5, <2>1
  <2>3. /\ v[i] \in Seq(Char) /\ k \in Nat /\ k + 1 \in Nat /\ 0 \in Nat
        /\ 0 + k = k /\ 0 + (k + 1) = k + 1
    BY <1>2, <2>1
  <2>4. b \in Seq(Char) /\ Len(b) = 1 /\ b[1] = Blank
    BY BlankIs
  <2>5. u \in Seq(Char)
    BY <1>1
  <2> HIDE DEF k, b, u
  <2>6. At(s, 0 + k, b)
    BY <1>6, <2>2, <2>3, <2>4, AtAt
  <2>7. At(s, 0 + (k + 1), u)
    BY <1>6, <2>2, <2>3, <2>5, AtAt
  <2>8. s[k + 1] = Blank /\ k < Len(s)
    <3>1. k + 1 <= Len(s) /\ \A j \in 1..1 : s[k + j] = b[j]
      BY <2>3, <2>4, <2>6 DEF At
    <3> QED
      BY <1>6, <2>3, <2>4, <3>1
  <2> QED
    BY <2>3, <2>7, <2>8 DEF k, u
<1>8. s[1] = "CLIENT_LIST" /\ s[2] = Blank /\ At(s, 2, Decimal[N])
  <2> DEFINE c == "CLIENT_LIST"
  <2>1. c \in DOMAIN Letters
    BY DEF Letters
  <2> HIDE DEF c
  <2>2. /\ Lead(c) \in Seq(Char) /\ Len(Lead(c)) = 2
        /\ Lead(c)[1] = c /\ Lead(c)[2] = Blank
    BY <2>1, LeadIs
  <2>3. Decimal[N] \in Seq(Char)
    <3>1. Decimal[N] \in Seq(Digits)
      BY <1>1, DecimalDef, DigitIs, SeqMonotonic
    <3> QED
      BY <3>1, DigitIs, SeqMonotonic
  <2>4. At(s, 0, Lead(c) \o Decimal[N])
    <3>1. 0 \in 0..N
      BY <1>1
    <3>2. At(s, 0, v[0])
      BY <1>5, <3>1
    <3> QED
      BY <1>4, <3>2 DEF c
  <2>5. At(s, 0, Lead(c)) /\ At(s, 0 + Len(Lead(c)), Decimal[N])
    BY <1>6, <2>2, <2>3, <2>4, AtConcat
  <2>6. s[1] = Lead(c)[1] /\ s[2] = Lead(c)[2]
    <3>1. \A i \in 1..2 : s[0 + i] = Lead(c)[i]
      BY <2>2, <2>5 DEF At
    <3> QED
      BY <3>1
  <2>7. 0 + Len(Lead(c)) = 2
    BY <2>2
  <2> QED
    BY <2>2, <2>5, <2>6, <2>7 DEF c
<1> QED
  BY <1>6, <1>7, <1>8 DEF N

Begin(v, i) == Len(v[i - 1]) + 1

\* From one tuple of the list to the next.
LEMMA NextOfTuple ==
  ASSUME NEW ts, Sendable(ts), NEW v, Grows(v, ts), NEW s, s = v[Len(ts)],
         NEW i \in 1..Len(ts), i + 1 \in 1..Len(ts)
  PROVE  NextTuple(Behind(s, Begin(v, i))) = Behind(s, Begin(v, i + 1))
<1> DEFINE t == ts[i]
           k == Begin(v, i)
           h == H(t)
           d == D(t)
           l == Len(h)
           m == Len(d)
           a == k + 2 + l
           b == k + 4 + l + m
<1>1. t.ip \in IpAddress /\ t.port \in Nat /\ Len(ts) \in Nat
  BY DEF Sendable
<1>2. /\ s \in Seq(Char)
      /\ At(s, k, TupleText(t))
      /\ s[Len(v[i]) + 1] = Blank /\ Len(v[i]) < Len(s)
  <2>1. (i + 1) - 1 = i
    OBVIOUS
  <2>2. s \in Seq(Char)
    BY TuplesAt, Zenon
  <2>3. \A j \in 1..Len(ts) : s[Len(v[j - 1]) + 1] = Blank /\ Len(v[j - 1]) < Len(s)
    <3>1. \A j \in 1..Len(ts) :
             /\ s[Len(v[j - 1]) + 1] = Blank /\ Len(v[j - 1]) < Len(s)
             /\ At(s, Len(v[j - 1]) + 1, TupleText(ts[j]))
      BY TuplesAt
    <3> QED
      BY <3>1, Zenon
  <2>4. s[Len(v[i]) + 1] = Blank /\ Len(v[i]) < Len(s)
    BY <2>1, <2>3
  <2>5. At(s, Len(v[i - 1]) + 1, TupleText(ts[i]))
    BY TuplesAt, Zenon
  <2> QED
    BY <2>2, <2>4, <2>5 DEF Begin
<1>3. k \in Nat /\ k >= 1 /\ Len(v[i]) \in Nat /\ Len(v[i]) = Len(v[i - 1]) + 1 + Len(TupleText(t))
  <2>1. i - 1 \in 0..Len(ts) /\ i \in 0..Len(ts)
    BY <1>1
  <2>2. Len(v[i - 1]) \in Nat /\ Len(v[i]) \in Nat
    BY <2>1, GrowsBy
  <2>3. Len(v[i]) = Len(v[i - 1]) + 1 + Len(TupleText(t))
    BY GrowsBy
  <2>4. k = Len(v[i - 1]) + 1
    BY DEF Begin
  <2>5. k \in Nat /\ k >= 1
    BY <2>2, <2>4
  <2> HIDE DEF k
  <2> QED
    BY <2>2, <2>3, <2>5
<1>4. h \in Seq(Digits) /\ l \in Int /\ 1 <= l
  BY <1>1, HIs
<1>5. d \in Seq(Digits) /\ m \in Int /\ 1 <= m
  BY <1>1, DIs
<1>6. Len(TupleText(t)) = l + m + 4
  BY <1>1, TupleTextIs
<1>7. Len(v[i]) = b
  <2>1. k = Len(v[i - 1]) + 1
    BY DEF Begin
  <2>2. Len(v[i]) = k + (l + m + 4)
    BY <1>3, <1>6, <2>1
  <2> HIDE DEF k, l, m
  <2>3. \A x, y, z \in Int : x + (y + z + 4) = x + 4 + y + z
    OBVIOUS
  <2>4. k \in Int /\ l \in Int /\ m \in Int
    BY <1>3, <1>4, <1>5
  <2> QED
    BY <2>2, <2>3, <2>4, Zenon
<1>8. /\ At(s, k, Open) /\ At(s, k + 1, h) /\ At(s, k + 1 + l, Between)
      /\ At(s, k + 3 + l, d) /\ At(s, k + 3 + l + m, Close)
  <2> HIDE DEF k
  <2> QED
    BY <1>1, <1>2, <1>3, TupleAt
<1>9. Begin(v, i + 1) = b + 1
  <2>1. (i + 1) - 1 = i
    OBVIOUS
  <2> QED
    BY <1>7, <2>1 DEF Begin
<1> HIDE DEF t, k, h, d, l, m
<1>10. s[k + 1] = "<"
  <2>1. \A j \in 1..1 : s[k + j] = Open[j]
    BY <1>8, OpenIs DEF At
  <2> QED
    BY <2>1, OpenIs
<1>11. \A j \in 1..l : s[k + 1 + j] \in Digits
  <2>1. \A j \in 1..l : s[k + 1 + j] = h[j]
    BY <1>8 DEF At, l
  <2>2. \A j \in 1..l : h[j] \in Digits
    BY <1>4 DEF l
  <2> QED
    BY <2>1, <2>2
<1>12. s[k + 2 + l] = Comma /\ s[a + 1] = Blank
  <2>1. \A j \in 1..2 : s[k + 1 + l + j] = Between[j]
    BY <1>8, BetweenIs DEF At
  <2>2. s[k + 1 + l + 1] = Comma /\ s[k + 1 + l + 2] = Blank
    BY <2>1, BetweenIs
  <2>3. k + 1 + l + 1 = k + 2 + l /\ k + 1 + l + 2 = a + 1
    BY <1>3, <1>4
  <2> QED
    BY <2>2, <2>3
<1>13. \A j \in 1..m : s[k + 3 + l + j] \in Digits
  <2>1. \A j \in 1..m : s[k + 3 + l + j] = d[j]
    BY <1>8 DEF At, m
  <2>2. \A j \in 1..m : d[j] \in Digits
    BY <1>5 DEF m
  <2> QED
    BY <2>1, <2>2
<1>14. s[b] = ">"
  <2>1. \A j \in 1..1 : s[k + 3 + l + m + j] = Close[j]
    BY <1>8, CloseIs DEF At
  <2>2. s[k + 3 + l + m + 1] = ">"
    BY <2>1, CloseIs
  <2>3. k + 3 + l + m + 1 = b
    BY <1>3, <1>4, <1>5
  <2> QED
    BY <2>2, <2>3
<1>15. \A j \in (k + 1)..a : s[j] # Blank
  <2> SUFFICES ASSUME NEW j \in (k + 1)..a PROVE s[j] # Blank
    OBVIOUS
  <2>1. CASE j = k + 1
    BY <1>10, <2>1, BlankIs
  <2>2. CASE j = k + 2 + l
    BY <1>12, <2>2, BlankIs
  <2>3. CASE j > k + 1 /\ j < k + 2 + l
    <3> DEFINE n == j - (k + 1)
    <3>1. n \in 1..l /\ k + 1 + n = j
      BY <1>3, <1>4, <2>3
    <3> HIDE DEF n
    <3> QED
      BY <1>11, <3>1, DigitIs
  <2> QED
    BY <1>3, <1>4, <2>1, <2>2, <2>3
<1>16. \A j \in (a + 3)..b : s[j] # Blank
  <2> SUFFICES ASSUME NEW j \in (a + 3)..b PROVE s[j] # Blank
    OBVIOUS
  <2>1. CASE j = b
    <3>1. ">" # " "
      OBVIOUS
    <3> QED
      BY <1>14, <2>1, <3>1, Zenon DEF Blank
  <2>2. CASE j < b
    <3> DEFINE n == j - (k + 3 + l)
    <3>1. n \in 1..m /\ k + 3 + l + n = j
      BY <1>3, <1>4, <1>5, <2>2
    <3> HIDE DEF n
    <3> QED
      BY <1>13, <3>1, DigitIs
  <2>3. j = b \/ j < b
    BY <1>3, <1>4, <1>5
  <2> QED
    BY <2>1, <2>2, <2>3
<1>17. /\ k \in 0..Len(s) /\ a \in k..Len(s) /\ b \in Nat /\ a + 2 <= b /\ b < Len(s)
       /\ s[b + 1] = Blank
  <2>1. Len(s) \in Nat /\ b < Len(s) /\ s[b + 1] = Blank
    BY <1>2, <1>7, LenProperties
  <2> QED
    BY <1>3, <1>4, <1>5, <2>1
<1> HIDE DEF a, b
<1>18. NextTuple(Behind(s, k)) = Behind(s, b + 1)
  BY <1>2, <1>12, <1>15, <1>16, <1>17, NextTupleIs
<1> QED
  BY <1>9, <1>18 DEF k

\* What comes before the first tuple: the command, and the number of tuples.
LEMMA HeaderIs ==
  ASSUME NEW ts, Sendable(ts), NEW v, Grows(v, ts), NEW s, s = v[Len(ts)]
  PROVE  /\ SentTuples(s) = Len(ts)
         /\ Len(ts) >= 1 =>
               /\ NextTuple(s) = Behind(s, Begin(v, 1))
               /\ \A i \in 1..Begin(v, 1) : s[i] # "<" /\ s[i] # Comma
<1> DEFINE N == Len(ts)
           d == Decimal[N]
           m == Len(d)
<1>1. N \in Nat
  BY DEF Sendable
<1>2. /\ s \in Seq(Char) /\ s[1] = "CLIENT_LIST" /\ s[2] = Blank /\ At(s, 2, d)
      /\ \A i \in 1..N : s[Len(v[i - 1]) + 1] = Blank /\ Len(v[i - 1]) < Len(s)
  <2>1. s \in Seq(Char) /\ s[1] = "CLIENT_LIST" /\ s[2] = Blank /\ At(s, 2, Decimal[Len(ts)])
    BY TuplesAt, Zenon
  <2>2. \A i \in 1..Len(ts) : s[Len(v[i - 1]) + 1] = Blank /\ Len(v[i - 1]) < Len(s)
    <3>1. \A i \in 1..Len(ts) :
             /\ s[Len(v[i - 1]) + 1] = Blank /\ Len(v[i - 1]) < Len(s)
             /\ At(s, Len(v[i - 1]) + 1, TupleText(ts[i]))
      BY TuplesAt
    <3> QED
      BY <3>1, Zenon
  <2> QED
    BY <2>1, <2>2, Zenon
<1>3. Len(v[0]) = 2 + m
  BY GrowsBy, Zenon
<1>4. d \in Seq(Ten) /\ d \in Seq(Digits) /\ m \in 1..(1 + N \div 10)
  <2>1. d \in Seq(Ten)
    BY <1>1, DecimalDef
  <2> QED
    BY <1>1, <2>1, DecimalLength, DigitIs, SeqMonotonic
<1>5. m \in Int /\ m >= 1
  <2>1. N \div 10 \in Int
    BY <1>1
  <2> QED
    BY <1>4, <2>1
<1>6. d # <<>>
  BY <1>4, <1>5, EmptySeq
<1>7. s[1] # "<" /\ s[1] # Comma /\ s[1] # Blank
  <2>1. "CLIENT_LIST" \in DOMAIN Letters
    BY DEF Letters
  <2> QED
    BY <1>2, <2>1, CommandIs
<1>8. Len(s) \in Nat /\ 2 + m <= Len(s) /\ \A j \in 1..m : s[2 + j] = d[j] /\ s[2 + j] \in Digits
  <2>1. Len(s) \in Nat
    BY <1>2, LenProperties
  <2>2. 2 + m <= Len(s) /\ \A j \in 1..m : s[2 + j] = d[j]
    BY <1>2, Zenon DEF At
  <2>3. \A j \in 1..m : d[j] \in Digits
    BY <1>4
  <2> HIDE DEF d, m
  <2> QED
    BY <2>1, <2>2, <2>3
<1> HIDE DEF m
<1>9. N >= 1 => s[2 + m + 1] = Blank /\ 2 + m < Len(s)
  <2> SUFFICES ASSUME N >= 1 PROVE s[2 + m + 1] = Blank /\ 2 + m < Len(s)
    OBVIOUS
  <2>1. 1 \in 1..N /\ 1 - 1 = 0
    BY <1>1
  <2>2. s[Len(v[0]) + 1] = Blank /\ Len(v[0]) < Len(s)
    BY <1>2, <2>1
  <2> QED
    BY <1>3, <2>2
<1>10. Begin(v, 1) = 2 + m + 1
  <2>1. 1 - 1 = 0
    OBVIOUS
  <2> QED
    BY <1>3, <2>1 DEF Begin
<1>11. SentTuples(s) = N
  <2> DEFINE r == Behind(s, 1)
  <2>1. StrChr(s, Blank) = r
    <3>1. 0 \in 0..Len(s) /\ 1 \in 0..(Len(s) - 1) /\ s[1 + 1] = Blank
      BY <1>2, <1>5, <1>8
    <3>2. \A i \in (0 + 1)..1 : s[i] # Blank
      BY <1>7
    <3>3. StrChr(Behind(s, 0), Blank) = Behind(s, 1)
      <4>1. s \in Seq(Char)
        BY <1>2
      <4> QED
        BY <3>1, <3>2, <4>1, StrChrIs
    <3>4. Behind(s, 0) = s
      BY <1>2, BehindNothing
    <3> QED
      BY <3>3, <3>4
  <2>2. /\ r \in Seq(Char) /\ Len(r) = Len(s) - 1
        /\ \A i \in 1..(Len(s) - 1) : r[i] = s[1 + i]
    <3>1. 1 \in 0..Len(s)
      BY <1>5, <1>8
    <3> QED
      BY <1>2, <3>1, BehindIs
  <2> HIDE DEF r
  <2>3. \A i \in 1..1 : r[i] = Blank
    <3>1. 1 \in 1..(Len(s) - 1) /\ 1 + 1 = 2
      BY <1>5, <1>8
    <3> QED
      BY <1>2, <2>2, <3>1
  <2>4. At(r, 1, d)
    <3>1. 1 + m <= Len(r)
      BY <1>5, <1>8, <2>2
    <3>2. ASSUME NEW i \in 1..m PROVE r[1 + i] = d[i]
      <4>1. 1 + i \in 1..(Len(s) - 1) /\ 1 + (1 + i) = 2 + i
        BY <1>5, <1>8
      <4>2. r[1 + i] = s[2 + i]
        BY <2>2, <4>1
      <4> QED
        BY <1>8, <4>2
    <3> QED
      BY <3>1, <3>2 DEF At, m
  <2>5. 1 + m = Len(r) \/ r[1 + m + 1] \notin Ten
    <3>1. CASE N >= 1
      <4>1. 1 + m + 1 \in 1..(Len(s) - 1) /\ 1 + (1 + m + 1) = 2 + m + 1
        BY <1>5, <1>8, <1>9, <3>1
      <4>2. r[1 + m + 1] = Blank
        BY <1>9, <2>2, <3>1, <4>1
      <4> QED
        BY <4>2, DigitIs
    <3>2. CASE N = 0
      <4>1. Len(s) = 2 + m
        BY <1>3, <3>2
      <4> QED
        BY <1>5, <2>2, <4>1
    <3> QED
      BY <1>1, <3>1, <3>2
  <2>6. AtoI(r) = Number(d)
    <3>1. 1 \in Nat
      OBVIOUS
    <3> QED
      BY <1>4, <1>6, <2>2, <2>3, <2>4, <2>5, <3>1, AtoIIs DEF m
  <2>7. Number(d) = N
    BY <1>1, NumberOfDecimal
  <2> QED
    BY <2>1, <2>6, <2>7, Zenon DEF SentTuples, Blank
<1>12. ASSUME N >= 1 PROVE NextTuple(s) = Behind(s, Begin(v, 1))
  <2> DEFINE b == 2 + m
  <2>1. 0 \in 0..Len(s) /\ 1 \in 0..Len(s) /\ b \in Nat /\ 1 + 2 <= b /\ b < Len(s)
    BY <1>5, <1>8, <1>9, <1>12
  <2>2. s[1 + 1] = Blank /\ s[b + 1] = Blank
    BY <1>2, <1>9, <1>12
  <2>3. \A i \in (0 + 1)..1 : s[i] # Blank
    BY <1>7
  <2>4. ASSUME NEW i \in (1 + 3)..b PROVE s[i] # Blank
    <3> DEFINE j == i - 2
    <3>1. j \in 1..m /\ 2 + j = i
      BY <1>5
    <3> HIDE DEF j
    <3> QED
      BY <1>8, <3>1, DigitIs
  <2> HIDE DEF b
  <2>5. NextTuple(Behind(s, 0)) = Behind(s, b + 1)
    BY <1>2, <2>1, <2>2, <2>3, <2>4, NextTupleIs
  <2>6. Behind(s, 0) = s
    BY <1>2, BehindNothing
  <2> QED
    BY <1>10, <2>5, <2>6 DEF b
<1>13. ASSUME N >= 1, NEW i \in 1..Begin(v, 1) PROVE s[i] # "<" /\ s[i] # Comma
  <2>1. i \in 1..(2 + m + 1)
    BY <1>10
  <2>2. CASE i = 1
    BY <1>7, <2>2
  <2>3. CASE i = 2
    BY <1>2, <2>3, BlankIs
  <2>4. CASE i > 2 /\ i <= 2 + m
    <3> DEFINE j == i - 2
    <3>1. j \in 1..m /\ 2 + j = i
      BY <1>5, <2>1, <2>4
    <3> HIDE DEF j
    <3> QED
      BY <1>8, <3>1, DigitIs
  <2>5. CASE i = 2 + m + 1
    BY <1>9, <1>13, <2>5, BlankIs
  <2> QED
    BY <1>5, <2>1, <2>2, <2>3, <2>4, <2>5
<1> QED
  BY <1>11, <1>12, <1>13 DEF N

\* Where TupleFrom leads.
LEMMA TupleFromIs ==
  ASSUME NEW ts, Sendable(ts), NEW v, Grows(v, ts), NEW s, s = v[Len(ts)],
         NEW i \in 1..Len(ts)
  PROVE  TupleFrom(s, i) = IF i = 1 THEN s ELSE Behind(s, Begin(v, i))
<1> DEFINE N == Len(ts)
           f == [j \in 0..i |-> IF j = 0 THEN s ELSE Behind(s, Begin(v, j))]
           at == CHOOSE g : g = [j \in 0..i |-> IF j = 0 THEN s ELSE NextTuple(g[j - 1])]
<1>1. N \in Nat /\ i \in Nat /\ i >= 1 /\ i <= N
  BY DEF Sendable
<1>2. NextTuple(s) = Behind(s, Begin(v, 1))
  <2>1. N >= 1
    BY <1>1
  <2> QED
    BY <2>1, HeaderIs
<1>3. ASSUME NEW j \in 1..i PROVE f[j] = NextTuple(f[j - 1])
  <2>1. f[j] = Behind(s, Begin(v, j))
    OBVIOUS
  <2>2. CASE j = 1
    <3>1. f[j - 1] = s
      BY <2>2
    <3> QED
      BY <1>2, <2>1, <2>2, <3>1
  <2>3. CASE j > 1
    <3> DEFINE k == j - 1
    <3>1. k \in 1..N /\ k + 1 \in 1..N /\ k + 1 = j /\ k \in 0..i /\ k # 0
      BY <1>1, <2>3
    <3>2. f[k] = Behind(s, Begin(v, k))
      BY <3>1
    <3> HIDE DEF k
    <3>3. NextTuple(Behind(s, Begin(v, k))) = Behind(s, Begin(v, k + 1))
      BY <3>1, NextOfTuple
    <3> QED
      BY <2>1, <3>1, <3>2, <3>3 DEF k
  <2> QED
    BY <2>2, <2>3
<1>4. f[0] = s /\ f = [j \in 0..i |-> f[j]]
  BY <1>1
<1>5. \A j \in 0..i : j # 0 => j \in 1..i
  BY <1>1
<1>6. f[i] = Behind(s, Begin(v, i))
  BY <1>1
<1> HIDE DEF f
<1>7. f = [j \in 0..i |-> IF j = 0 THEN s ELSE NextTuple(f[j - 1])]
  <2>1. \A j \in 0..i : f[j] = IF j = 0 THEN s ELSE NextTuple(f[j - 1])
    BY <1>3, <1>4, <1>5, Zenon
  <2> QED
    BY <1>4, <2>1, Zenon
<1>8. at = [j \in 0..i |-> IF j = 0 THEN s ELSE NextTuple(at[j - 1])]
  BY <1>7, Zenon
<1>9. TupleFrom(s, i) = IF i = 1 THEN s ELSE at[i]
  BY Zenon DEF TupleFrom
<1> HIDE DEF at
<1>10. at[0] = s /\ \A j \in 1..i : at[j] = NextTuple(at[j - 1])
  <2>1. 0 \in 0..i /\ \A j \in 1..i : j \in 0..i /\ j # 0
    BY <1>1
  <2> QED
    BY <1>8, <2>1, Zenon
<1> DEFINE P == {j \in Nat : j <= i => at[j] = f[j]}
<1>11. 0 \in P
  BY <1>4, <1>10
<1>12. ASSUME NEW j \in Nat, j \in P PROVE j + 1 \in P
  <2> SUFFICES ASSUME j + 1 <= i PROVE at[j + 1] = f[j + 1]
    OBVIOUS
  <2>1. j + 1 \in 1..i /\ (j + 1) - 1 = j /\ at[j] = f[j]
    BY <1>1, <1>12
  <2>2. at[j + 1] = NextTuple(at[(j + 1) - 1]) /\ f[j + 1] = NextTuple(f[(j + 1) - 1])
    BY <1>3, <1>10, <2>1, Zenon
  <2> QED
    BY <2>1, <2>2
<1>13. Nat \subseteq P
  <2> HIDE DEF P
  <2> QED
    BY <1>11, <1>12, Induction
<1>14. at[i] = f[i]
  BY <1>1, <1>13
<1> QED
  BY <1>6, <1>9, <1>14

\* The length of the list's text.
LEMMA ListLength ==
  ASSUME NEW ts, Sendable(ts)
  PROVE  /\ Size(ListText(ts)) \in Int
         /\ Size(ListText(ts)) <= 13 + (Len(ts) \div 10) + (18 * Len(ts))
<1> DEFINE N == Len(ts)
<1>1. PICK v : Grows(v, ts) /\ ListText(ts) = v[N]
  BY ListTextDef
<1>2. N \in Nat
  BY DEF Sendable
<1>3. Len(v[0]) \in Int /\ Len(v[0]) <= 3 + N \div 10
  BY <1>1, GrowsBy, Zenon
<1>4. /\ \A i \in 0..N : Len(v[i]) \in Nat
      /\ \A i \in 1..N : Len(v[i]) <= Len(v[i - 1]) + 18
  BY <1>1, GrowsBy, Zenon
<1>5. v[N] \in Seq(Char) /\ v[N][1] = "CLIENT_LIST" /\ v[N][2] = Blank
  BY <1>1, TuplesAt
<1> HIDE DEF N
<1> DEFINE l == [i \in 0..N |-> Len(v[i])]
           P == {i \in Nat : i <= N => l[i] <= l[0] + 18 * i}
<1>6. /\ l \in [0..N -> Nat] /\ l[0] = Len(v[0])
      /\ \A i \in 1..N : l[i] <= l[i - 1] + 18
  BY <1>2, <1>4
<1>7. l[N] = Len(v[N])
  BY <1>2
<1> HIDE DEF l
<1>8. 0 \in P
  BY <1>2, <1>6
<1>9. ASSUME NEW i \in Nat, i \in P PROVE i + 1 \in P
  <2> SUFFICES ASSUME i + 1 <= N PROVE l[i + 1] <= l[0] + 18 * (i + 1)
    OBVIOUS
  <2>1. i + 1 \in 1..N /\ (i + 1) - 1 = i /\ i \in 0..N /\ i + 1 \in 0..N /\ 0 \in 0..N
    BY <1>2
  <2>2. l[i] \in Nat /\ l[i + 1] \in Nat /\ l[0] \in Nat
    BY <1>6, <2>1
  <2>3. l[i] <= l[0] + 18 * i
    BY <1>9, <2>1, <1>2
  <2>4. l[i + 1] <= l[i] + 18
    BY <1>6, <2>1
  <2> QED
    BY <2>2, <2>3, <2>4
<1>10. Nat \subseteq P
  <2> HIDE DEF P
  <2> QED
    BY <1>8, <1>9, Induction
<1>11. l[N] <= l[0] + 18 * N
  BY <1>2, <1>10
<1>12. Size(v[N]) = Len(v[N]) - 1 + 11
  <2>1. Head(v[N]) = v[N][1]
    OBVIOUS
  <2>2. Letters["CLIENT_LIST"] = 11
    BY DEF Letters
  <2> QED
    BY <1>5, <2>1, <2>2 DEF Size
<1> DEFINE n == N \div 10
<1>13. n \in Int /\ l[0] <= 3 + n /\ l[0] \in Int /\ l[N] \in Int /\ Size(v[N]) = l[N] - 1 + 11
  BY <1>2, <1>3, <1>6, <1>7, <1>12
<1> HIDE DEF n
<1>14. Size(v[N]) \in Int /\ Size(v[N]) <= 13 + n + (18 * N)
  BY <1>2, <1>11, <1>13
<1> QED
  BY <1>1, <1>14 DEF n, N

\* What is read from the text of a list is the list.
LEMMA ListIs ==
  ASSUME NEW ts, Sendable(ts)
  PROVE  /\ SentTuples(ListText(ts)) = Len(ts)
         /\ \A i \in 1..Len(ts) :
               TupleOf(TupleFrom(ListText(ts), i)) = [ip |-> ts[i].ip, port |-> ts[i].port % Word]
         /\ Len(ts) >= 1 => Readable(ListText(ts))
<1> DEFINE N == Len(ts)
           s == ListText(ts)
<1>1. PICK v : Grows(v, ts) /\ s = v[N]
  BY ListTextDef
<1>2. N \in Nat /\ \A i \in 1..N : ts[i].ip \in IpAddress /\ ts[i].port \in Nat
  BY DEF Sendable
<1>3. SentTuples(s) = N
  BY <1>1, HeaderIs
<1> HIDE DEF s, N
<1>4. s \in Seq(Char) /\ Len(s) \in Nat
  <2>1. s \in Seq(Char)
    BY <1>1, TuplesAt DEF N
  <2> QED
    BY <2>1, LenProperties
<1>5. ASSUME NEW i \in 1..N
      PROVE  /\ At(s, Begin(v, i), TupleText(ts[i]))
             /\ Begin(v, i) \in Nat
  <2>1. At(s, Len(v[i - 1]) + 1, TupleText(ts[i]))
    <3>1. \A j \in 1..Len(ts) :
             /\ s[Len(v[j - 1]) + 1] = Blank /\ Len(v[j - 1]) < Len(s)
             /\ At(s, Len(v[j - 1]) + 1, TupleText(ts[j]))
      BY <1>1, TuplesAt DEF N
    <3> QED
      BY <3>1, Zenon DEF N
  <2>2. Len(v[i - 1]) \in Nat
    <3>1. i - 1 \in 0..N
      BY <1>2
    <3>2. \A j \in 0..N : Len(v[j]) \in Nat
      BY <1>1, GrowsBy, Zenon DEF N
    <3> QED
      BY <3>1, <3>2
  <2> QED
    BY <2>1, <2>2 DEF Begin
<1>6. ASSUME NEW i \in 1..N
      PROVE  /\ HasTuple(Behind(s, Begin(v, i)))
             /\ TupleOf(Behind(s, Begin(v, i))) = [ip |-> ts[i].ip, port |-> ts[i].port % Word]
  <2> DEFINE k == Begin(v, i)
             t == ts[i]
  <2>1. At(s, k, TupleText(t)) /\ k \in Nat /\ t.ip \in IpAddress /\ t.port \in Nat
    BY <1>2, <1>5
  <2> HIDE DEF k, t
  <2>2. k <= k /\ \A j \in (k + 1)..k : s[j] # "<" /\ s[j] # Comma
    BY <2>1
  <2>3. /\ HasTuple(Behind(s, k))
        /\ TupleOf(Behind(s, k)) = [ip |-> t.ip, port |-> t.port % Word]
    BY <1>4, <2>1, <2>2, TupleReadIs
  <2> QED
    BY <2>3 DEF k, t
<1>7. ASSUME N >= 1
      PROVE  /\ HasTuple(s)
             /\ TupleOf(s) = [ip |-> ts[1].ip, port |-> ts[1].port % Word]
  <2> DEFINE k == Begin(v, 1)
             t == ts[1]
  <2>1. 1 \in 1..N
    BY <1>2, <1>7
  <2>2. At(s, k, TupleText(t)) /\ k \in Nat /\ t.ip \in IpAddress /\ t.port \in Nat
    BY <1>2, <1>5, <2>1
  <2>3. \A i \in 1..k : s[i] # "<" /\ s[i] # Comma
    BY <1>1, <1>7, HeaderIs DEF N
  <2> HIDE DEF k, t
  <2>4. 0 \in Nat /\ 0 <= k /\ \A j \in (0 + 1)..k : s[j] # "<" /\ s[j] # Comma
    BY <2>2, <2>3
  <2>5. /\ HasTuple(Behind(s, 0))
        /\ TupleOf(Behind(s, 0)) = [ip |-> t.ip, port |-> t.port % Word]
    BY <1>4, <2>2, <2>4, TupleReadIs
  <2>6. Behind(s, 0) = s
    BY <1>4, BehindNothing
  <2> QED
    BY <2>5, <2>6 DEF t
<1>8. ASSUME NEW i \in 1..N
      PROVE  /\ HasTuple(TupleFrom(s, i))
             /\ TupleOf(TupleFrom(s, i)) = [ip |-> ts[i].ip, port |-> ts[i].port % Word]
  <2>1. TupleFrom(s, i) = IF i = 1 THEN s ELSE Behind(s, Begin(v, i))
    BY <1>1, TupleFromIs DEF N
  <2>2. CASE i = 1
    <3>1. N >= 1
      BY <1>2
    <3> QED
      BY <1>7, <2>1, <2>2, <3>1
  <2>3. CASE i # 1
    BY <1>6, <2>1, <2>3
  <2> QED
    BY <2>2, <2>3
<1>9. N >= 1 => Readable(s)
  BY <1>3, <1>7, <1>8, Zenon DEF Readable
<1> QED
  BY <1>3, <1>8, <1>9 DEF s, N

-----------------------------------------------------------------------------
(* The inductive invariant.                                                  *)

Row == [ip : IpAddress, port : Nat, of : Party]

TypeOK ==
  /\ list \in Seq(Row)
  /\ on \in SUBSET Party /\ asked \in SUBSET on
  /\ known \in [Party -> SUBSET Tuple]
  /\ crashed \in BOOLEAN /\ twins \in BOOLEAN

Self(p) == [ip |-> p.ip, port |-> p.port]
Places == DOMAIN list
Name(i) == Truncated(list[i].of)
Names == {Name(j) : j \in Places}

\* No two nodes are equal, those listed are logged on, and those that are not
\* know nobody.
Distinct == \A i, j \in Places : Name(i) = Name(j) => i = j
ListedAreOn == \A i \in Places : list[i].of \in on
OffKnowNobody == \A q \in Party \ on : known[q] = {}

\* Who has not asked yet knows some of the others: those who logged on later.
KnowListed == ~crashed => \A i \in Places : known[list[i].of] \subseteq Names \ {Self(list[i].of)}
KnowAll == ~crashed => \A i \in Places :
              list[i].of \in asked => Names \ {Self(list[i].of)} \subseteq known[list[i].of]

\* As long as the texts tell all clients apart, each is on the list.
OrTwins == twins \/ (~crashed /\ \A p \in on : \E i \in Places : list[i].of = p)

IInv == /\ TypeOK /\ ListedAsSent /\ Distinct /\ ListedAreOn /\ OffKnowNobody
        /\ KnowListed /\ KnowAll /\ OrTwins

\* The lower sixteen bits of the lower sixteen bits are the same.
LEMMA WordIs ==
  ASSUME NEW n \in Nat
  PROVE  n % Word \in Nat /\ (n % Word) % Word = n % Word /\ (n % Word = n \/ n >= Word)
         /\ n % Word < Word
BY SMT DEF Word

\* What the messages about a client say of it.
LEMMA TruncatedIs ==
  ASSUME NEW p \in Party
  PROVE  /\ p.ip \in IpAddress /\ p.port \in Nat
         /\ Truncated(p) \in Tuple /\ Truncated(p) = [ip |-> p.ip, port |-> p.port % Word]
         /\ [ip |-> Truncated(p).ip, port |-> Truncated(p).port % Word] = Truncated(p)
         /\ Truncated(p) = Self(p) \/ \A q \in Party : Truncated(q) # Self(p)
<1>1. \A q \in Party : q.ip \in IpAddress /\ q.port \in Nat
  BY PartyAssumption DEF IpAddress
<1>2. \A q \in Party : Truncated(q) = [ip |-> q.ip, port |-> q.port % Word]
  BY SMT DEF Truncated, Word
<1>3. \A q \in Party : q.port % Word \in Nat /\ (q.port % Word) % Word = q.port % Word
                       /\ (q.port % Word = q.port \/ q.port >= Word) /\ q.port % Word < Word
  BY <1>1, WordIs
<1>4. Truncated(p) \in Tuple
  BY <1>1, <1>2, <1>3 DEF Tuple
<1>5. [ip |-> Truncated(p).ip, port |-> Truncated(p).port % Word] = Truncated(p)
  BY <1>2, <1>3
<1>6. CASE p.port % Word = p.port
  BY <1>1, <1>2, <1>4, <1>5, <1>6 DEF Self
<1>7. CASE p.port >= Word
  <2>1. ASSUME NEW q \in Party PROVE Truncated(q) # Self(p)
    <3>1. Truncated(q).port = q.port % Word /\ Self(p).port = p.port
      BY <1>2 DEF Self
    <3>2. Word \in Int
      BY SMT DEF Word
    <3> QED
      BY <1>1, <1>3, <1>7, <3>1, <3>2
  <2> QED
    BY <1>1, <1>2, <1>4, <1>5, <2>1
<1> QED
  BY <1>3, <1>6, <1>7

\* What is read from a message about a client is what Truncated says.
LEMMA MessagesSay ==
  ASSUME NEW p \in Party, NEW c \in DOMAIN Letters
  PROVE  /\ TupleOf(Message(c, p)) = Truncated(p)
         /\ TupleOf(Message(c, Truncated(p))) = Truncated(p)
<1> DEFINE t == Truncated(p)
<1>1. /\ p.ip \in IpAddress /\ p.port \in Nat
      /\ t.ip \in IpAddress /\ t.port \in Nat
      /\ t = [ip |-> p.ip, port |-> p.port % Word]
      /\ [ip |-> t.ip, port |-> t.port % Word] = t
  BY TruncatedIs DEF Tuple
<1> HIDE DEF t
<1>2. TupleOf(Message(c, p)) = [ip |-> p.ip, port |-> p.port % Word]
  BY <1>1, MessageIs
<1>3. TupleOf(Message(c, t)) = [ip |-> t.ip, port |-> t.port % Word]
  BY <1>1, MessageIs
<1> QED
  BY <1>1, <1>2, <1>3 DEF t

\* The list as it is, and as it is read from its text.
LEMMA RowsAre ==
  ASSUME TypeOK, ListedAsSent
  PROVE  /\ Len(list) \in Nat /\ Places = 1..Len(list) /\ Sendable(list)
         /\ \A i \in Places : /\ list[i] \in Row /\ list[i].of \in Party
                              /\ Entry(i) = Name(i)
                              /\ list[i].ip = Name(i).ip /\ list[i].port = Name(i).port
         /\ \A p \in Party : SameTuple(Truncated(p)) = {i \in Places : Name(i) = Truncated(p)}
<1>1. list \in Seq(Row)
  BY DEF TypeOK
<1>2. Len(list) \in Nat /\ Places = 1..Len(list)
  BY <1>1, LenProperties DEF Places
<1>3. ASSUME NEW i \in Places
      PROVE  /\ list[i] \in Row /\ list[i].of \in Party
             /\ list[i].ip \in IpAddress /\ list[i].port \in Nat
  <2>1. list[i] \in Row
    BY <1>1, <1>2, ElementOfSeq
  <2> QED
    BY <2>1 DEF Row
<1>4. Sendable(list)
  BY <1>2, <1>3 DEF Sendable
<1>5. \A i \in Places : Entry(i) = Name(i)
  BY DEF ListedAsSent, Places, Name
<1>6. \A i \in Places : list[i].ip = Name(i).ip /\ list[i].port = Name(i).port
  <2>1. \A i \in Places : list[i].ip = Entry(i).ip /\ list[i].port = Entry(i).port
    BY DEF Entry
  <2> QED
    BY <1>5, <2>1
<1>7. ASSUME NEW p \in Party
      PROVE  SameTuple(Truncated(p)) = {i \in Places : Name(i) = Truncated(p)}
  <2> DEFINE t == Truncated(p)
  <2>1. \A i \in Places : list[i].ip = t.ip /\ list[i].port = t.port <=> Name(i) = t
    <3> SUFFICES ASSUME NEW i \in Places
                 PROVE  list[i].ip = t.ip /\ list[i].port = t.port <=> Name(i) = t
      OBVIOUS
    <3>1. Name(i) \in Tuple /\ t \in Tuple
      BY <1>3, TruncatedIs DEF Name
    <3> HIDE DEF t
    <3> QED
      BY <1>6, <3>1 DEF Tuple
  <2> HIDE DEF t
  <2>2. SameTuple(t) = {i \in Places : Name(i) = t}
    BY <2>1 DEF SameTuple, Places
  <2> QED
    BY <2>2 DEF t
<1> QED
  BY <1>2, <1>3, <1>4, <1>5, <1>6, <1>7

\* What is read from the text of the list are the names of those listed, and with
\* anyone listed it can be read.
LEMMA ListReads ==
  ASSUME TypeOK, ListedAsSent
  PROVE  /\ {TupleOf(TupleFrom(ListText(list), i)) : i \in 1..SentTuples(ListText(list))} = Names
         /\ Places # {} => Readable(ListText(list))
<1>1. /\ Len(list) \in Nat /\ Places = 1..Len(list) /\ Sendable(list)
      /\ \A i \in Places : /\ list[i].of \in Party
                           /\ list[i].ip = Name(i).ip /\ list[i].port = Name(i).port
  BY RowsAre
<1>2. /\ SentTuples(ListText(list)) = Len(list)
      /\ \A i \in 1..Len(list) :
            TupleOf(TupleFrom(ListText(list), i)) = [ip |-> list[i].ip, port |-> list[i].port % Word]
      /\ Len(list) >= 1 => Readable(ListText(list))
  BY <1>1, ListIs, Zenon
<1>3. \A i \in 1..Len(list) : TupleOf(TupleFrom(ListText(list), i)) = Name(i)
  BY <1>1, <1>2, TruncatedIs DEF Name
<1>4. Places # {} => Len(list) >= 1
  BY <1>1
<1> QED
  BY <1>1, <1>2, <1>3, <1>4 DEF Names

-----------------------------------------------------------------------------
(* What the actions do to a state of the invariant.                          *)

Listed == {list[i].of : i \in Places}

\* LOG_ON, in terms of the names: a client whose name is on the list changes nothing
\* there, any other one is appended, and those listed are told.
LEMMA LogOnDoes ==
  ASSUME TypeOK, ListedAsSent, NEW p \in Party, LogOn(p)
  PROVE  /\ ~crashed /\ p \notin on
         /\ on' = on \cup {p} /\ asked' = asked /\ crashed' = crashed
         /\ twins' = (twins \/ \E q \in on : Truncated(q) = Truncated(p))
         /\ said' = <<Message("LOG_ON", p), Message("USER_ON", Truncated(p))>>
         /\ Truncated(p) \in Names => list' = list /\ known' = [q \in Party |-> known[q]]
         /\ Truncated(p) \notin Names =>
               /\ list' = Append(list, [ip |-> Truncated(p).ip, port |-> Truncated(p).port, of |-> p])
               /\ known' = [q \in Party |-> IF q \in Listed THEN known[q] \cup {Truncated(p)}
                                            ELSE known[q]]
<1> DEFINE t == Truncated(p)
<1>1. "LOG_ON" \in DOMAIN Letters /\ "USER_ON" \in DOMAIN Letters
  BY DEF Letters
<1>2. TupleOf(Message("LOG_ON", p)) = t /\ TupleOf(Message("USER_ON", t)) = t
  BY <1>1, MessagesSay
<1>3. SameTuple(t) = {i \in Places : Name(i) = t}
  BY RowsAre
<1>4. SameTuple(t) = {} <=> t \notin Names
  BY <1>3 DEF Names
<1>5. SameTuple(t) = {} => Told(t) = Listed
  <2> HIDE DEF t
  <2> QED
    BY DEF Told, Listed, Places
<1> HIDE DEF t
<1>6. /\ ~crashed /\ p \notin on
      /\ list' = IF SameTuple(t) = {} THEN Append(list, [ip |-> t.ip, port |-> t.port, of |-> p]) ELSE list
      /\ known' = [q \in Party |-> IF SameTuple(t) = {} /\ q \in Told(t) THEN known[q] \cup {t}
                                   ELSE known[q]]
      /\ on' = on \cup {p} /\ said' = <<Message("LOG_ON", p), Message("USER_ON", t)>>
      /\ twins' = (twins \/ \E q \in on : Truncated(q) = Truncated(p))
      /\ asked' = asked /\ crashed' = crashed
  BY <1>2, Zenon DEF LogOn
<1>7. t \in Names => list' = list /\ known' = [q \in Party |-> known[q]]
  BY <1>4, <1>6
<1>8. t \notin Names =>
         /\ list' = Append(list, [ip |-> t.ip, port |-> t.port, of |-> p])
         /\ known' = [q \in Party |-> IF q \in Listed THEN known[q] \cup {t} ELSE known[q]]
  BY <1>4, <1>5, <1>6
<1> QED
  BY <1>6, <1>7, <1>8 DEF t

\* GET_CLIENTS: the client adds every name but its own.
LEMMA GetClientsDoes ==
  ASSUME TypeOK, ListedAsSent, NEW p \in Party, GetClients(p)
  PROVE  /\ ~crashed /\ p \in on /\ asked' = asked \cup {p}
         /\ Places # {} => crashed' = FALSE
         /\ crashed' \in BOOLEAN
         /\ crashed' => known' = known
         /\ ~crashed' => known' = [known EXCEPT ![p] = @ \cup (Names \ {Self(p)})]
         /\ list' = list /\ on' = on /\ twins' = twins
         /\ said' = <<Message("GET_CLIENTS", p), ListText(list)>>
<1> DEFINE got == {TupleOf(TupleFrom(ListText(list), i)) : i \in 1..SentTuples(ListText(list))}
<1>1. got = Names /\ (Places # {} => Readable(ListText(list)))
  BY ListReads
<1> HIDE DEF got
<1>2. /\ ~crashed /\ p \in on \ asked /\ asked' = asked \cup {p}
      /\ crashed' = ~Readable(ListText(list))
      /\ known' = IF crashed' THEN known
                  ELSE [known EXCEPT ![p] = @ \cup {t \in got : ~IsOwn(p, t)}]
      /\ list' = list /\ on' = on /\ twins' = twins
      /\ said' = <<Message("GET_CLIENTS", p), ListText(list)>>
  BY Zenon DEF GetClients, got
<1>3. {t \in Names : ~IsOwn(p, t)} = Names \ {Self(p)}
  <2>1. Names \subseteq Tuple
    BY RowsAre, TruncatedIs DEF Names, Name
  <2>2. \A t \in Names : IsOwn(p, t) <=> t = Self(p)
    BY <2>1 DEF IsOwn, Self, Tuple
  <2> QED
    BY <2>2
<1>4. crashed' \in BOOLEAN /\ (Places # {} => crashed' = FALSE)
  BY <1>1, <1>2
<1>5. crashed' => known' = known
  BY <1>2
<1>6. ~crashed' => known' = [known EXCEPT ![p] = @ \cup (Names \ {Self(p)})]
  BY <1>1, <1>2, <1>3
<1> QED
  BY <1>2, <1>4, <1>5, <1>6

\* LOG_OFF: a name that is not listed crashes the server, for any other its node is
\* unlinked, its connection closed, and the others listed are told.
LEMMA LogOffDoes ==
  ASSUME TypeOK, ListedAsSent, Distinct, NEW p \in Party, LogOff(p)
  PROVE  /\ ~crashed /\ p \in on /\ twins' = twins
         /\ said' = <<Message("LOG_OFF", p), Message("USER_OFF", Truncated(p))>>
         /\ Truncated(p) \notin Names =>
               /\ crashed' = TRUE /\ list' = list
               /\ on' = on \ {p} /\ asked' = asked \ {p}
               /\ known' \in [Party -> SUBSET Tuple] /\ known'[p] = {}
               /\ \A q \in Party : known'[q] \subseteq known[q]
         /\ Truncated(p) \in Names =>
               \E i \in Places :
                  /\ Name(i) = Truncated(p)
                  /\ crashed' = FALSE /\ list' = Unlink(i)
                  /\ on' = on \ {p, list[i].of} /\ asked' = asked \ {p, list[i].of}
                  /\ known' = [q \in Party |->
                        IF q = p \/ q = list[i].of THEN {}
                        ELSE IF q \in {list[j].of : j \in Places \ {i}} THEN known[q] \ {Truncated(p)}
                        ELSE known[q]]
<1> DEFINE t == Truncated(p)
           same == SameTuple(t)
           gone == {p} \cup {list[i].of : i \in same}
<1>1. "LOG_OFF" \in DOMAIN Letters /\ "USER_OFF" \in DOMAIN Letters
  BY DEF Letters
<1>2. TupleOf(Message("LOG_OFF", p)) = t /\ TupleOf(Message("USER_OFF", t)) = t
  BY <1>1, MessagesSay
<1>3. same = {i \in Places : Name(i) = t}
  BY RowsAre
<1> HIDE DEF t, same
<1>4. /\ ~crashed /\ p \in on
      /\ crashed' = (same = {})
      /\ list' = IF same = {} THEN list ELSE Unlink(First(same))
      /\ known' = [q \in Party |-> CASE q \in gone -> {}
                                     [] q \in Told(t) \ gone -> known[q] \ {t}
                                     [] OTHER -> known[q]]
      /\ on' = on \ gone /\ asked' = asked \ gone
      /\ said' = <<Message("LOG_OFF", p), Message("USER_OFF", t)>>
      /\ twins' = twins
  BY <1>2, Zenon DEF LogOff, same
<1>5. Told(t) = {list[j].of : j \in Places \ same}
  BY Zenon DEF Told, same, Places
<1> HIDE DEF gone
<1>6. \A q \in Party : known'[q] = IF q \in gone THEN {}
                                   ELSE IF q \in Told(t) THEN known[q] \ {t} ELSE known[q]
  BY <1>4
<1>7. known' = [q \in Party |-> IF q \in gone THEN {}
                                ELSE IF q \in Told(t) THEN known[q] \ {t} ELSE known[q]]
  <2>1. known' = [q \in Party |-> known'[q]]
    BY <1>4
  <2> QED
    BY <1>6, <2>1
<1>8. ASSUME t \notin Names
      PROVE  /\ crashed' = TRUE /\ list' = list
             /\ on' = on \ {p} /\ asked' = asked \ {p}
             /\ known' \in [Party -> SUBSET Tuple] /\ known'[p] = {}
             /\ \A q \in Party : known'[q] \subseteq known[q]
  <2>1. same = {}
    BY <1>3, <1>8 DEF Names
  <2>2. gone = {p}
    BY <2>1 DEF gone
  <2>3. known' \in [Party -> SUBSET Tuple]
    BY <1>7 DEF TypeOK
  <2>4. known'[p] = {} /\ \A q \in Party : known'[q] \subseteq known[q]
    BY <1>6, <2>2
  <2> QED
    BY <1>4, <2>1, <2>2, <2>3, <2>4
<1>9. ASSUME t \in Names
      PROVE  \E i \in Places :
                /\ Name(i) = t
                /\ crashed' = FALSE /\ list' = Unlink(i)
                /\ on' = on \ {p, list[i].of} /\ asked' = asked \ {p, list[i].of}
                /\ known' = [q \in Party |->
                      IF q = p \/ q = list[i].of THEN {}
                      ELSE IF q \in {list[j].of : j \in Places \ {i}} THEN known[q] \ {t}
                      ELSE known[q]]
  <2>1. PICK i \in Places : Name(i) = t
    BY <1>9 DEF Names
  <2>2. same = {i}
    BY <1>3, <2>1 DEF Distinct
  <2>3. First(same) = i
    <3>1. Places \subseteq Nat
      BY RowsAre
    <3>2. same \in SUBSET Nat /\ same # {}
      BY <2>1, <2>2, <3>1
    <3>3. First(same) \in same
      BY <3>2, FirstIs
    <3> QED
      BY <2>2, <3>3
  <2>4. gone = {p, list[i].of}
    BY <2>2 DEF gone
  <2>5. Told(t) = {list[j].of : j \in Places \ {i}}
    BY <1>5, <2>2
  <2>6. known' = [q \in Party |->
           IF q = p \/ q = list[i].of THEN {}
           ELSE IF q \in {list[j].of : j \in Places \ {i}} THEN known[q] \ {t}
           ELSE known[q]]
    BY <1>7, <2>4, <2>5
  <2>7. crashed' = FALSE /\ list' = Unlink(i)
    BY <1>4, <2>2, <2>3
  <2> QED
    BY <1>4, <2>1, <2>4, <2>6, <2>7
<1> QED
  BY <1>4, <1>8, <1>9 DEF t

\* The list without its i-th node.
LEMMA UnlinkIs ==
  ASSUME TypeOK, NEW i \in Places
  PROVE  /\ Unlink(i) \in Seq(Row)
         /\ \A j \in DOMAIN Unlink(i) : \E k \in Places \ {i} :
               Unlink(i)[j] = list[k] /\ k = IF j < i THEN j ELSE j + 1
         /\ \A k \in Places \ {i} : \E j \in DOMAIN Unlink(i) : Unlink(i)[j] = list[k]
<1> DEFINE n == Len(list) - 1
           u == Unlink(i)
<1>1. /\ list \in Seq(Row) /\ Len(list) \in Nat /\ Places = 1..Len(list)
      /\ \A k \in Places : list[k] \in Row
  <2>1. list \in Seq(Row)
    BY DEF TypeOK
  <2>2. Len(list) \in Nat /\ Places = 1..Len(list)
    BY <2>1, LenProperties DEF Places
  <2> QED
    BY <2>1, <2>2, ElementOfSeq
<1>2. n \in Nat /\ i \in 1..(n + 1) /\ Places = 1..(n + 1)
  BY <1>1
<1>3. u = [j \in 1..n |-> IF j < i THEN list[j] ELSE list[j + 1]]
  BY DEF Unlink
<1> HIDE DEF n, u
<1>4. ASSUME NEW j \in 1..n
      PROVE  \E k \in Places \ {i} : u[j] = list[k] /\ k = IF j < i THEN j ELSE j + 1
  <2>1. CASE j < i
    BY <1>2, <1>3, <2>1
  <2>2. CASE j >= i
    <3>1. j + 1 \in Places \ {i} /\ ~(j < i)
      BY <1>2, <2>2
    <3> QED
      BY <1>3, <3>1
  <2> QED
    BY <1>2, <2>1, <2>2
<1>5. ASSUME NEW k \in Places \ {i} PROVE \E j \in 1..n : u[j] = list[k]
  <2>1. CASE k < i
    BY <1>2, <1>3, <2>1
  <2>2. CASE k > i
    <3>1. k - 1 \in 1..n /\ ~(k - 1 < i) /\ (k - 1) + 1 = k
      BY <1>2, <2>2
    <3> QED
      BY <1>3, <3>1
  <2> QED
    BY <1>2, <2>1, <2>2
<1>6. u \in Seq(Row)
  <2>1. u \in [1..n -> Row]
    BY <1>1, <1>3, <1>4
  <2> QED
    BY <1>2, <2>1, SeqDef
<1> QED
  BY <1>3, <1>4, <1>5, <1>6 DEF u

-----------------------------------------------------------------------------
(* The invariant is inductive.                                               *)

LEMMA InitInv == Init => IInv
<1> SUFFICES ASSUME Init PROVE IInv
  OBVIOUS
<1>1. /\ list = <<>> /\ on = {} /\ asked = {} /\ known = [p \in Party |-> {}]
      /\ crashed = FALSE /\ twins = FALSE
  BY DEF Init
<1>2. Places = {}
  BY <1>1 DEF Places
<1>3. TypeOK
  BY <1>1, EmptySeq DEF TypeOK
<1>4. ListedAsSent /\ Distinct /\ ListedAreOn /\ KnowListed /\ KnowAll
  BY <1>2 DEF ListedAsSent, Distinct, ListedAreOn, KnowListed, KnowAll, Places
<1>5. OffKnowNobody /\ OrTwins
  BY <1>1 DEF OffKnowNobody, OrTwins
<1> QED
  BY <1>3, <1>4, <1>5 DEF IInv

\* Names are what the messages can say.
LEMMA NamesAreTuples ==
  ASSUME TypeOK, ListedAsSent
  PROVE  Names \in SUBSET Tuple
BY RowsAre, TruncatedIs DEF Names, Name

\* LOG_ON keeps the invariant: who comes in knows nobody, and all others hear of it.
LEMMA LogOnInv ==
  ASSUME IInv, NEW p \in Party, LogOn(p)
  PROVE  IInv'
<1> DEFINE t == Truncated(p)
           row == [ip |-> t.ip, port |-> t.port, of |-> p]
<1>0. /\ TypeOK /\ ListedAsSent /\ Distinct /\ ListedAreOn /\ OffKnowNobody
      /\ KnowListed /\ KnowAll /\ OrTwins
  BY DEF IInv
<1>1. /\ list \in Seq(Row) /\ on \in SUBSET Party /\ asked \in SUBSET on
      /\ known \in [Party -> SUBSET Tuple] /\ crashed \in BOOLEAN /\ twins \in BOOLEAN
  BY <1>0 DEF TypeOK
<1>2. /\ Len(list) \in Nat /\ Places = 1..Len(list)
      /\ \A i \in Places : list[i] \in Row /\ list[i].of \in Party /\ Entry(i) = Name(i)
  BY <1>0, RowsAre
<1>3. /\ ~crashed /\ p \notin on
      /\ on' = on \cup {p} /\ asked' = asked /\ crashed' = crashed
      /\ twins' = (twins \/ \E q \in on : Truncated(q) = Truncated(p))
  BY <1>0, LogOnDoes, Zenon
<1>4. CASE t \in Names
  <2>1. list' = list /\ known' = [q \in Party |-> known[q]]
    BY <1>0, <1>4, LogOnDoes, Zenon
  <2>2. known' = known
    BY <1>1, <2>1
  <2>3. TypeOK'
    BY <1>1, <1>3, <2>1, <2>2 DEF TypeOK
  <2>4. ListedAsSent'
    BY <1>0, <2>1 DEF ListedAsSent, Entry
  <2>5. Distinct' /\ ListedAreOn'
    BY <1>0, <1>3, <2>1 DEF Distinct, ListedAreOn, Places, Name
  <2>6. OffKnowNobody'
    BY <1>0, <1>3, <2>2 DEF OffKnowNobody
  <2>7. KnowListed' /\ KnowAll'
    BY <1>0, <1>3, <2>1, <2>2 DEF KnowListed, KnowAll, Places, Names, Name, Self
  <2>8. twins'
    <3>1. PICK j \in Places : Name(j) = t
      BY <1>4 DEF Names
    <3>2. list[j].of \in on /\ Truncated(list[j].of) = t
      BY <1>0, <3>1 DEF ListedAreOn, Name
    <3> QED
      BY <1>3, <3>2
  <2>9. OrTwins'
    BY <2>8 DEF OrTwins
  <2> QED
    BY <2>3, <2>4, <2>5, <2>6, <2>7, <2>9 DEF IInv
<1>5. CASE t \notin Names
  <2>1. /\ list' = Append(list, row)
        /\ known' = [q \in Party |-> IF q \in Listed THEN known[q] \cup {t} ELSE known[q]]
    BY <1>0, <1>5, LogOnDoes, Zenon
  <2>2. t \in Tuple /\ t.ip \in IpAddress /\ t.port \in Nat /\ t = [ip |-> t.ip, port |-> t.port]
    BY TruncatedIs DEF Tuple
  <2>3. row \in Row
    BY <2>2 DEF Row
  <2> DEFINE n == Len(list) + 1
  <2>4. /\ list' \in Seq(Row) /\ Len(list') = n
        /\ \A i \in Places : list'[i] = list[i]
        /\ list'[n] = row
    BY <1>1, <1>2, <2>1, <2>3, AppendProperties
  <2>5. Places' = Places \cup {n} /\ n \notin Places /\ n \in Places'
    <3>1. Places' = 1..Len(list')
      BY <2>4, LenProperties DEF Places
    <3> QED
      BY <1>2, <2>4, <3>1
  <2> HIDE DEF n, t
  <2>6. list'[n].ip = t.ip /\ list'[n].port = t.port /\ list'[n].of = p
    BY <2>4
  <2> HIDE DEF row
  <2>7. /\ \A i \in Places : Truncated(list'[i].of) = Name(i)
        /\ Truncated(list'[n].of) = t
    BY <2>4, <2>6 DEF Name, t
  <2>8. Names' = Names \cup {t}
    <3>1. Names' = {Truncated(list'[j].of) : j \in Places'}
      BY DEF Names, Name
    <3> QED
      BY <2>5, <2>7, <3>1 DEF Names
  <2>9. \A q \in Party : known'[q] = IF q \in Listed THEN known[q] \cup {t} ELSE known[q]
    BY <2>1
  <2>10. TypeOK'
    <3>1. known' \in [Party -> SUBSET Tuple]
      BY <1>1, <2>1, <2>2
    <3> QED
      BY <1>1, <1>3, <2>4, <3>1 DEF TypeOK
  <2>11. ListedAsSent'
    <3>1. ASSUME NEW i \in Places
          PROVE  Self(list'[i]) = Truncated(list'[i].of)
      BY <1>0, <2>4 DEF ListedAsSent, Entry, Places, Self
    <3>2. Self(list'[n]) = Truncated(list'[n].of)
      BY <2>2, <2>6 DEF t, Self
    <3>3. \A i \in Places' : Self(list'[i]) = Truncated(list'[i].of)
      BY <2>5, <3>1, <3>2
    <3> QED
      BY <3>3, Zenon DEF ListedAsSent, Entry, Places, Self
  <2>12. Distinct'
    <3>1. \A i \in Places : Name(i) \in Names
      BY DEF Names
    <3>2. \A i, j \in Places' : Truncated(list'[i].of) = Truncated(list'[j].of) => i = j
      BY <1>0, <1>5, <2>5, <2>7, <3>1 DEF Distinct
    <3> QED
      BY <3>2 DEF Distinct, Name
  <2>13. ListedAreOn'
    BY <1>0, <1>3, <2>4, <2>5, <2>6 DEF ListedAreOn
  <2>14. OffKnowNobody'
    <3>1. Listed \subseteq on
      BY <1>0 DEF Listed, ListedAreOn
    <3> QED
      BY <1>0, <1>3, <2>9, <3>1 DEF OffKnowNobody
  <2>15. p \notin Listed /\ known'[p] = {} /\ p \notin asked
    <3>1. p \notin Listed
      BY <1>0, <1>3 DEF Listed, ListedAreOn
    <3>2. known[p] = {}
      BY <1>0, <1>3 DEF OffKnowNobody
    <3> QED
      BY <1>1, <1>3, <2>9, <3>1, <3>2
  <2>16. \A i \in Places : /\ list[i].of \in Listed /\ list[i].of \in Party
                           /\ t # Self(list[i].of)
    <3> SUFFICES ASSUME NEW i \in Places
                 PROVE  list[i].of \in Listed /\ list[i].of \in Party /\ t # Self(list[i].of)
      OBVIOUS
    <3>1. list[i].of \in Listed /\ list[i].of \in Party
      BY <1>2 DEF Listed
    <3>2. t # Truncated(list[i].of)
      BY <1>5 DEF Names, Name
    <3>3. t # Self(list[i].of)
      BY <3>1, <3>2, TruncatedIs DEF t
    <3> QED
      BY <3>1, <3>3
  <2>17. KnowListed'
    <3> SUFFICES ASSUME NEW i \in Places'
                 PROVE  known'[list'[i].of] \subseteq Names' \ {Self(list'[i].of)}
      BY DEF KnowListed, Self
    <3>1. CASE i = n
      BY <2>6, <2>15, <3>1
    <3>2. CASE i \in Places
      <4>1. known[list[i].of] \subseteq Names \ {Self(list[i].of)}
        BY <1>0, <1>3, <3>2 DEF KnowListed
      <4>2. known'[list[i].of] = known[list[i].of] \cup {t}
        BY <2>9, <2>16, <3>2
      <4> QED
        BY <2>4, <2>8, <2>16, <3>2, <4>1, <4>2
    <3> QED
      BY <2>5, <3>1, <3>2
  <2>18. KnowAll'
    <3> SUFFICES ASSUME NEW i \in Places', list'[i].of \in asked'
                 PROVE  Names' \ {Self(list'[i].of)} \subseteq known'[list'[i].of]
      BY DEF KnowAll, Self
    <3>1. CASE i = n
      BY <1>3, <2>6, <2>15, <3>1
    <3>2. CASE i \in Places
      <4>1. Names \ {Self(list[i].of)} \subseteq known[list[i].of]
        BY <1>0, <1>3, <2>4, <3>2 DEF KnowAll
      <4>2. known'[list[i].of] = known[list[i].of] \cup {t}
        BY <2>9, <2>16, <3>2
      <4> QED
        BY <2>4, <2>8, <3>2, <4>1, <4>2
    <3> QED
      BY <2>5, <3>1, <3>2
  <2>19. OrTwins'
    <3> SUFFICES ASSUME ~twins' PROVE ~crashed' /\ \A q \in on' : \E i \in Places' : list'[i].of = q
      BY DEF OrTwins
    <3>1. ~crashed /\ \A q \in on : \E i \in Places : list[i].of = q
      BY <1>0, <1>3 DEF OrTwins
    <3>2. \A q \in on : \E i \in Places' : list'[i].of = q
      BY <2>4, <2>5, <3>1
    <3> QED
      BY <1>3, <2>5, <2>6, <3>1, <3>2
  <2> QED
    BY <2>10, <2>11, <2>12, <2>13, <2>14, <2>17, <2>18, <2>19 DEF IInv
<1> QED
  BY <1>4, <1>5

\* GET_CLIENTS keeps it: the names the client has not heard of are in the reply.
LEMMA GetClientsInv ==
  ASSUME IInv, NEW p \in Party, GetClients(p)
  PROVE  IInv'
<1>0. /\ TypeOK /\ ListedAsSent /\ Distinct /\ ListedAreOn /\ OffKnowNobody
      /\ KnowListed /\ KnowAll /\ OrTwins
  BY DEF IInv
<1>1. /\ list \in Seq(Row) /\ on \in SUBSET Party /\ asked \in SUBSET on
      /\ known \in [Party -> SUBSET Tuple] /\ crashed \in BOOLEAN /\ twins \in BOOLEAN
  BY <1>0 DEF TypeOK
<1>2. /\ ~crashed /\ p \in on /\ asked' = asked \cup {p}
      /\ Places # {} => crashed' = FALSE
      /\ crashed' \in BOOLEAN
      /\ crashed' => known' = known
      /\ ~crashed' => known' = [known EXCEPT ![p] = @ \cup (Names \ {Self(p)})]
      /\ list' = list /\ on' = on /\ twins' = twins
  BY <1>0, GetClientsDoes, Zenon
<1>3. Names \in SUBSET Tuple
  BY <1>0, NamesAreTuples
<1>4. \A q \in Party : /\ q # p => known'[q] = known[q]
                       /\ ~crashed' => known'[p] = known[p] \cup (Names \ {Self(p)})
  BY <1>1, <1>2
<1>5. Places' = Places /\ Names' = Names
  BY <1>2 DEF Places, Names, Name
<1>6. TypeOK'
  <2>1. known' \in [Party -> SUBSET Tuple]
    BY <1>1, <1>2, <1>3
  <2> QED
    BY <1>1, <1>2, <2>1 DEF TypeOK
<1>7. ListedAsSent' /\ Distinct' /\ ListedAreOn'
  BY <1>0, <1>2 DEF ListedAsSent, Entry, Distinct, ListedAreOn, Places, Name
<1>8. OffKnowNobody'
  BY <1>0, <1>2, <1>4 DEF OffKnowNobody
<1>9. \A i \in Places : list[i].of \in Party
  BY <1>0, RowsAre
<1>10. KnowListed'
  <2> SUFFICES ASSUME ~crashed', NEW i \in Places
               PROVE  known'[list[i].of] \subseteq Names \ {Self(list[i].of)}
    BY <1>2, <1>5 DEF KnowListed, Self
  <2>1. known[list[i].of] \subseteq Names \ {Self(list[i].of)}
    BY <1>0, <1>2 DEF KnowListed
  <2> QED
    BY <1>4, <1>9, <2>1
<1>11. KnowAll'
  <2> SUFFICES ASSUME ~crashed', NEW i \in Places, list[i].of \in asked'
               PROVE  Names \ {Self(list[i].of)} \subseteq known'[list[i].of]
    BY <1>2, <1>5 DEF KnowAll, Self
  <2>1. CASE list[i].of = p
    BY <1>4, <2>1
  <2>2. CASE list[i].of # p
    <3>1. Names \ {Self(list[i].of)} \subseteq known[list[i].of]
      BY <1>0, <1>2, <2>2 DEF KnowAll
    <3> QED
      BY <1>4, <1>9, <2>2, <3>1
  <2> QED
    BY <2>1, <2>2
<1>12. OrTwins'
  <2>1. CASE twins
    BY <1>2, <2>1 DEF OrTwins
  <2>2. CASE ~twins
    <3>1. \A q \in on : \E i \in Places : list[i].of = q
      BY <1>0, <2>2 DEF OrTwins
    <3>2. crashed' = FALSE
      BY <1>2, <3>1
    <3> QED
      BY <1>2, <1>5, <3>1, <3>2 DEF OrTwins
  <2> QED
    BY <2>1, <2>2
<1> QED
  BY <1>6, <1>7, <1>8, <1>10, <1>11, <1>12 DEF IInv

\* LOG_OFF keeps it: the node taken out is the only one of its name, the sender's
\* own or that of a client the texts do not tell from it.
LEMMA LogOffInv ==
  ASSUME IInv, NEW p \in Party, LogOff(p)
  PROVE  IInv'
<1> DEFINE t == Truncated(p)
<1>0. /\ TypeOK /\ ListedAsSent /\ Distinct /\ ListedAreOn /\ OffKnowNobody
      /\ KnowListed /\ KnowAll /\ OrTwins
  BY DEF IInv
<1>1. /\ list \in Seq(Row) /\ on \in SUBSET Party /\ asked \in SUBSET on
      /\ known \in [Party -> SUBSET Tuple] /\ crashed \in BOOLEAN /\ twins \in BOOLEAN
  BY <1>0 DEF TypeOK
<1>2. /\ Places \subseteq Nat
      /\ \A k \in Places : list[k].of \in Party /\ Entry(k) = Name(k)
  BY <1>0, RowsAre
<1>3. ~crashed /\ p \in on /\ twins' = twins
  BY <1>0, LogOffDoes, Zenon
<1>4. CASE t \notin Names
  <2>1. /\ crashed' = TRUE /\ list' = list
        /\ on' = on \ {p} /\ asked' = asked \ {p}
        /\ known' \in [Party -> SUBSET Tuple] /\ known'[p] = {}
        /\ \A q \in Party : known'[q] \subseteq known[q]
    BY <1>0, <1>4, LogOffDoes, Zenon
  <2>2. \A k \in Places : list[k].of # p
    BY <1>4 DEF Names, Name
  <2>3. TypeOK'
    BY <1>1, <1>3, <2>1 DEF TypeOK
  <2>4. ListedAsSent' /\ Distinct'
    BY <1>0, <2>1 DEF ListedAsSent, Entry, Distinct, Places, Name
  <2>5. ListedAreOn'
    BY <1>0, <2>1, <2>2 DEF ListedAreOn, Places
  <2>6. OffKnowNobody'
    BY <1>0, <2>1 DEF OffKnowNobody
  <2>7. KnowListed' /\ KnowAll'
    BY <2>1 DEF KnowListed, KnowAll
  <2>8. OrTwins'
    BY <1>0, <1>3, <2>2 DEF OrTwins
  <2> QED
    BY <2>3, <2>4, <2>5, <2>6, <2>7, <2>8 DEF IInv
<1>5. CASE t \in Names
  <2>1. PICK i \in Places :
           /\ Name(i) = t
           /\ crashed' = FALSE /\ list' = Unlink(i)
           /\ on' = on \ {p, list[i].of} /\ asked' = asked \ {p, list[i].of}
           /\ known' = [q \in Party |->
                 IF q = p \/ q = list[i].of THEN {}
                 ELSE IF q \in {list[j].of : j \in Places \ {i}} THEN known[q] \ {t}
                 ELSE known[q]]
    BY <1>0, <1>5, LogOffDoes, Zenon
  <2>2. /\ list' \in Seq(Row)
        /\ \A j \in Places' : \E k \in Places \ {i} :
              list'[j] = list[k] /\ k = IF j < i THEN j ELSE j + 1
        /\ \A k \in Places \ {i} : \E j \in Places' : list'[j] = list[k]
    <3>1. /\ Unlink(i) \in Seq(Row)
          /\ \A j \in DOMAIN Unlink(i) : \E k \in Places \ {i} :
                Unlink(i)[j] = list[k] /\ k = IF j < i THEN j ELSE j + 1
          /\ \A k \in Places \ {i} : \E j \in DOMAIN Unlink(i) : Unlink(i)[j] = list[k]
      BY <1>0, UnlinkIs, Zenon
    <3>2. Places' = DOMAIN Unlink(i)
      BY <2>1 DEF Places
    <3> QED
      BY <2>1, <3>1, <3>2, Zenon
  <2>3. Places' \subseteq Nat
    BY <2>2, LenProperties DEF Places
  <2>4. Truncated(list[i].of) = t /\ Truncated(p) = t
    BY <2>1 DEF Name
  <2> HIDE DEF t
  \* The other nodes are those of others.
  <2>5. \A k \in Places \ {i} : /\ Name(k) # t /\ Name(k) \in Names /\ list[k].of \in Party
                                /\ list[k].of # p /\ list[k].of # list[i].of
    <3> SUFFICES ASSUME NEW k \in Places \ {i}
                 PROVE  /\ Name(k) # t /\ Name(k) \in Names /\ list[k].of \in Party
                        /\ list[k].of # p /\ list[k].of # list[i].of
      OBVIOUS
    <3>1. Name(k) # t /\ Name(k) \in Names /\ list[k].of \in Party
      BY <1>0, <1>2, <2>1 DEF Distinct, Names
    <3>2. Truncated(list[k].of) # t
      BY <3>1 DEF Name
    <3> QED
      BY <2>4, <3>1, <3>2
  <2>6. Names' = Names \ {t}
    <3>1. Names' = {Truncated(list'[j].of) : j \in Places'}
      BY DEF Names, Name
    <3>2. Names = {Truncated(list[k].of) : k \in Places}
      BY DEF Names, Name
    <3>3. \A k \in Places : Truncated(list[k].of) = t <=> k = i
      BY <2>1, <2>5 DEF Name
    <3>4. Names \ {t} = {Truncated(list[k].of) : k \in Places \ {i}}
      BY <3>2, <3>3
    <3>5. Names' = {Truncated(list[k].of) : k \in Places \ {i}}
      BY <2>2, <3>1
    <3> QED
      BY <3>4, <3>5
  <2>7. \A k \in Places \ {i} : known'[list[k].of] = known[list[k].of] \ {t}
    BY <2>1, <2>5
  <2>8. TypeOK'
    <3>1. known' \in [Party -> SUBSET Tuple]
      BY <1>1, <2>1
    <3> QED
      BY <1>1, <1>3, <2>1, <2>2, <3>1 DEF TypeOK
  <2>9. ListedAsSent'
    <3>1. \A k \in Places : Self(list[k]) = Truncated(list[k].of)
      BY <1>0, Zenon DEF ListedAsSent, Entry, Places, Self
    <3>2. \A j \in Places' : Self(list'[j]) = Truncated(list'[j].of)
      BY <2>2, <3>1
    <3> QED
      BY <3>2, Zenon DEF ListedAsSent, Entry, Places, Self
  <2>10. Distinct'
    <3> SUFFICES ASSUME NEW j \in Places', NEW m \in Places',
                        Truncated(list'[j].of) = Truncated(list'[m].of)
                 PROVE  j = m
      BY DEF Distinct, Name
    <3>1. PICK k \in Places \ {i} : list'[j] = list[k] /\ k = IF j < i THEN j ELSE j + 1
      BY <2>2
    <3>2. PICK l \in Places \ {i} : list'[m] = list[l] /\ l = IF m < i THEN m ELSE m + 1
      BY <2>2
    <3>3. k = l
      BY <1>0, <3>1, <3>2 DEF Distinct, Name
    <3>4. i \in Nat /\ j \in Nat /\ m \in Nat
      BY <1>2, <2>3
    <3> QED
      BY <3>1, <3>2, <3>3, <3>4
  <2>11. ListedAreOn'
    <3>1. \A k \in Places \ {i} : list[k].of \in on'
      BY <1>0, <2>1, <2>5 DEF ListedAreOn
    <3> QED
      BY <2>2, <3>1 DEF ListedAreOn
  <2>12. OffKnowNobody'
    BY <1>0, <2>1 DEF OffKnowNobody
  <2>13. KnowListed'
    <3>1. \A k \in Places \ {i} : known'[list[k].of] \subseteq Names' \ {Self(list[k].of)}
      BY <1>0, <1>3, <2>6, <2>7 DEF KnowListed
    <3>2. \A j \in Places' : known'[list'[j].of] \subseteq Names' \ {Self(list'[j].of)}
      BY <2>2, <3>1
    <3> QED
      BY <3>2 DEF KnowListed, Self
  <2>14. KnowAll'
    <3>1. \A k \in Places \ {i} :
             list[k].of \in asked' => Names' \ {Self(list[k].of)} \subseteq known'[list[k].of]
      BY <1>0, <1>3, <2>1, <2>6, <2>7 DEF KnowAll
    <3>2. \A j \in Places' :
             list'[j].of \in asked' => Names' \ {Self(list'[j].of)} \subseteq known'[list'[j].of]
      BY <2>2, <3>1
    <3> QED
      BY <3>2 DEF KnowAll, Self
  <2>15. OrTwins'
    <3> SUFFICES ASSUME ~twins', NEW q \in on' PROVE \E j \in Places' : list'[j].of = q
      BY <2>1 DEF OrTwins
    <3>1. PICK k \in Places : list[k].of = q
      BY <1>0, <1>3, <2>1 DEF OrTwins
    <3>2. k # i
      BY <2>1, <3>1
    <3> QED
      BY <2>2, <3>1, <3>2
  <2> QED
    BY <2>8, <2>9, <2>10, <2>11, <2>12, <2>13, <2>14, <2>15 DEF IInv
<1> QED
  BY <1>4, <1>5

\* Every step keeps it.
LEMMA Inductive == IInv /\ [Next]_vars => IInv'
<1> SUFFICES ASSUME IInv, [Next]_vars PROVE IInv'
  OBVIOUS
<1>1. ASSUME NEW p \in Party, LogOn(p) PROVE IInv'
  BY <1>1, LogOnInv
<1>2. ASSUME NEW p \in Party, GetClients(p) PROVE IInv'
  BY <1>2, GetClientsInv
<1>3. ASSUME NEW p \in Party, LogOff(p) PROVE IInv'
  BY <1>3, LogOffInv
<1>4. CASE UNCHANGED vars
  BY <1>4 DEF vars, IInv, TypeOK, ListedAsSent, Entry, Distinct, ListedAreOn, OffKnowNobody,
              KnowListed, KnowAll, OrTwins, Places, Names, Name, Self
<1> QED
  BY <1>1, <1>2, <1>3, <1>4, Zenon DEF Next

\* The list, what the clients know of it and who is logged on fit together in
\* every state (connectionHandler's LOG_ON, GET_CLIENTS and LOG_OFF).
THEOREM Invariant == Spec => []IInv
<1>1. Init => IInv
  BY InitInv
<1>2. IInv /\ [Next]_vars => IInv'
  BY Inductive
<1> QED
  BY <1>1, <1>2, PTL DEF Spec

\* Whatever the addresses and ports are, the server lists each client under its
\* address and the lower sixteen bits of its port: %x and strtoul undo each
\* other, and so do ntohs, %d, atoi and htons.
THEOREM AlwaysListedAsSent == Spec => []ListedAsSent
<1>1. IInv => ListedAsSent
  BY DEF IInv
<1> QED
  BY <1>1, Invariant, PTL

\* Whatever the addresses, the ports and the length of the list are, a client
\* that is listed and has asked knows the others of the list, each as the server
\* lists it: the loop over CLIENT_LIST finds each tuple where the one before ends.
THEOREM AlwaysKnownAsListed == Spec => []KnownAsListed
<1>1. IInv => KnownAsListed
  <2> SUFFICES ASSUME IInv, ~crashed, NEW i \in Places, list[i].of \in asked
               PROVE  known[list[i].of] = {Entry(j) : j \in Places} \ {Self(list[i].of)}
    BY DEF KnownAsListed, Places, Self
  <2>1. known[list[i].of] = Names \ {Self(list[i].of)}
    BY DEF IInv, KnowListed, KnowAll
  <2>2. {Entry(j) : j \in Places} = Names
    BY RowsAre DEF IInv, Names
  <2> QED
    BY <2>1, <2>2
<1> QED
  BY <1>1, Invariant, PTL

\* No text lacks the tuple that is looked for in it, and no list the node of who
\* logs off, as long as the texts tell all clients that were on together apart:
\* that is all that keeps the NULL of extractStringBetweenPatterns and of
\* findTupleNode from being dereferenced.
THEOREM OnlyTwinsEverCrash == Spec => []OnlyTwinsCrash
<1>1. IInv => OnlyTwinsCrash
  BY DEF IInv, OrTwins, OnlyTwinsCrash
<1> QED
  BY <1>1, Invariant, PTL

-----------------------------------------------------------------------------
(* The length of the texts.                                                  *)

\* The list has a node for each client at most, for each has a name of its own.
LEMMA NoLongerThanParty ==
  ASSUME IInv, IsFiniteSet(Party)
  PROVE  Len(list) <= Cardinality(Party)
<1> DEFINE f == [i \in Places |-> list[i].of]
<1>1. Len(list) \in Nat /\ Places = 1..Len(list) /\ \A i \in Places : list[i].of \in Party
  BY RowsAre DEF IInv
<1>2. \A i, j \in Places : list[i].of = list[j].of => i = j
  BY DEF IInv, Distinct, Name
<1>3. f \in Injection(Places, Party)
  BY <1>1, <1>2 DEF Injection, IsInjective
<1>4. Cardinality(Places) <= Cardinality(Party)
  BY <1>3, FS_Injection
<1>5. Cardinality(Places) = Len(list)
  <2>1. 1 \in Int /\ Len(list) \in Int
    BY <1>1
  <2>2. Cardinality(1..Len(list)) = IF 1 > Len(list) THEN 0 ELSE Len(list) - 1 + 1
    BY <2>1, FS_Interval
  <2> QED
    BY <1>1, <2>1, <2>2
<1> QED
  BY <1>4, <1>5

Longest(n) == 13 + (n \div 10) + (18 * n)
NoneLonger(n) == \A i \in DOMAIN said : Size(said[i]) \in Int /\ Size(said[i]) <= Longest(n)

\* The bound grows with the length of the list, and leaves room for any message.
LEMMA LongestIs ==
  ASSUME NEW m \in Nat, NEW n \in Nat, m <= n
  PROVE  Longest(m) \in Int /\ Longest(n) \in Int /\ Longest(m) <= Longest(n)
         /\ (n >= 1 => 29 <= Longest(n))
<1>1. m \div 10 \in Nat /\ n \div 10 \in Nat /\ m \div 10 <= n \div 10
  OBVIOUS
<1>2. 18 * m \in Nat /\ 18 * n \in Nat /\ 18 * m <= 18 * n /\ (n >= 1 => 18 <= 18 * n)
  OBVIOUS
<1> QED
  BY <1>1, <1>2 DEF Longest

\* A message about one client has 29 characters at most.
LEMMA MessagesFit ==
  ASSUME NEW p \in Party, NEW c \in DOMAIN Letters
  PROVE  /\ Size(Message(c, p)) \in Int /\ Size(Message(c, p)) <= 29
         /\ Size(Message(c, Truncated(p))) \in Int /\ Size(Message(c, Truncated(p))) <= 29
<1>1. p.ip \in IpAddress /\ p.port \in Nat /\ Truncated(p) \in Tuple
  BY TruncatedIs
<1>2. Truncated(p).ip \in IpAddress /\ Truncated(p).port \in Nat
  BY <1>1 DEF Tuple
<1>3. Size(Message(c, p)) \in Int /\ Size(Message(c, p)) <= 29
  BY <1>1, MessageIs
<1> QED
  BY <1>2, <1>3, MessageIs

\* No step writes a text longer than that of a list with everybody on it.
LEMMA NoneLongerStep ==
  ASSUME IInv, NEW n \in Nat, IsFiniteSet(Party), n = Cardinality(Party),
         NoneLonger(n), [Next]_vars
  PROVE  NoneLonger(n)'
<1>0. TypeOK /\ ListedAsSent /\ Distinct
  BY DEF IInv
<1>1. /\ "LOG_ON" \in DOMAIN Letters /\ "USER_ON" \in DOMAIN Letters /\ "LOG_OFF" \in DOMAIN Letters
      /\ "USER_OFF" \in DOMAIN Letters /\ "GET_CLIENTS" \in DOMAIN Letters
  BY DEF Letters
<1>2. Len(list) \in Nat /\ Len(list) <= n
  BY <1>0, NoLongerThanParty, RowsAre
<1>3. ASSUME NEW p \in Party PROVE 29 <= Longest(n) /\ Longest(n) \in Int
  <2>1. n # 0
    BY FS_EmptySet
  <2>2. n >= 1
    BY <2>1
  <2> QED
    BY <1>2, <2>2, LongestIs
<1>4. ASSUME NEW a, NEW b, said' = <<a, b>>,
             Size(a) \in Int, Size(b) \in Int, Size(a) <= Longest(n), Size(b) <= Longest(n)
      PROVE  NoneLonger(n)'
  <2>1. DOMAIN said' = {1, 2} /\ said'[1] = a /\ said'[2] = b
    BY <1>4
  <2>2. \A i \in DOMAIN said' : Size(said'[i]) \in Int /\ Size(said'[i]) <= Longest(n)
    BY <1>4, <2>1
  <2> QED
    BY <2>2 DEF NoneLonger
<1>5. ASSUME NEW p \in Party, LogOn(p) PROVE NoneLonger(n)'
  <2> DEFINE a == Message("LOG_ON", p)
             b == Message("USER_ON", Truncated(p))
  <2>1. said' = <<a, b>>
    BY <1>0, <1>5, LogOnDoes, Zenon
  <2>2. Size(a) \in Int /\ Size(b) \in Int /\ Size(a) <= 29 /\ Size(b) <= 29
    BY <1>1, MessagesFit
  <2> HIDE DEF a, b
  <2>3. Size(a) <= Longest(n) /\ Size(b) <= Longest(n)
    BY <1>3, <2>2
  <2> QED
    BY <1>4, <2>1, <2>2, <2>3
<1>6. ASSUME NEW p \in Party, GetClients(p) PROVE NoneLonger(n)'
  <2> DEFINE a == Message("GET_CLIENTS", p)
             b == ListText(list)
  <2>1. said' = <<a, b>>
    BY <1>0, <1>6, GetClientsDoes, Zenon
  <2>2. Size(a) \in Int /\ Size(a) <= 29
    BY <1>1, MessagesFit
  <2>3. Size(b) \in Int /\ Size(b) <= Longest(Len(list))
    BY <1>0, RowsAre, ListLength DEF Longest
  <2>4. Longest(Len(list)) \in Int /\ Longest(Len(list)) <= Longest(n)
    BY <1>2, LongestIs
  <2> HIDE DEF a, b
  <2>5. Size(a) <= Longest(n) /\ Size(b) <= Longest(n)
    BY <1>3, <2>2, <2>3, <2>4
  <2> QED
    BY <1>4, <2>1, <2>2, <2>3, <2>5
<1>7. ASSUME NEW p \in Party, LogOff(p) PROVE NoneLonger(n)'
  <2> DEFINE a == Message("LOG_OFF", p)
             b == Message("USER_OFF", Truncated(p))
  <2>1. said' = <<a, b>>
    BY <1>0, <1>7, LogOffDoes, Zenon
  <2>2. Size(a) \in Int /\ Size(b) \in Int /\ Size(a) <= 29 /\ Size(b) <= 29
    BY <1>1, MessagesFit
  <2> HIDE DEF a, b
  <2>3. Size(a) <= Longest(n) /\ Size(b) <= Longest(n)
    BY <1>3, <2>2
  <2> QED
    BY <1>4, <2>1, <2>2, <2>3
<1>8. CASE UNCHANGED vars
  BY <1>8 DEF vars, NoneLonger
<1> QED
  BY <1>5, <1>6, <1>7, <1>8, Zenon DEF Next

\* With as many clients as a buffer has room for, every text fits its buffer with
\* a place to spare: a tuple takes eighteen characters at most, and the number in
\* front one for every ten tuples and two or three more.  MAX_BUFFER_SIZE, 2048,
\* has room for 112 clients; the server stops at MAX_CLIENTS_SIZE, 30.
THEOREM TextsAlwaysFit ==
  ASSUME IsFiniteSet(Party), Longest(Cardinality(Party)) + 1 < MAX_BUFFER_SIZE
  PROVE  Spec => []TextsFit
<1> DEFINE n == Cardinality(Party)
<1>1. n \in Nat
  BY FS_CardinalityType
<1>2. Longest(n) \in Int /\ MAX_BUFFER_SIZE \in Nat
  BY <1>1, LongestIs, PartyAssumption
<1>3. Init => NoneLonger(n)
  BY DEF Init, NoneLonger
<1>4. IInv /\ NoneLonger(n) /\ [Next]_vars => NoneLonger(n)'
  BY <1>1, NoneLongerStep
<1>5. NoneLonger(n) => TextsFit
  BY <1>2 DEF NoneLonger, TextsFit
<1> HIDE DEF n
<1> QED
  BY <1>3, <1>4, <1>5, Invariant, PTL DEF Spec
=============================================================================
