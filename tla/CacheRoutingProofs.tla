------------------------- MODULE CacheRoutingProofs -------------------------
(***************************************************************************)
(* How a key finds its bucket, for every seed and factor of the hasher,     *)
(* words of up to 64 bits, and every cache that CacheLifecycle can build.   *)
(***************************************************************************)
EXTENDS CacheRouting, CacheLifecycleProofs

-----------------------------------------------------------------------------
(***************************************************************************)
(* Numbers and words.                                                       *)
(***************************************************************************)
(* The powers of two within a word of 64 bits. *)
Parts == {TwoTo[k] : k \in 0 .. 64}

(* Shifting by j and then by k bits is shifting by j + k. *)
LEMMA ShiftedTwice ==
  ASSUME NEW j \in Nat, NEW k \in Nat, j + k <= 64
  PROVE  TwoTo[j + k] = TwoTo[j] * TwoTo[k]
<1> DEFINE S == {n \in Nat : j + n <= 64 => TwoTo[j + n] = TwoTo[j] * TwoTo[n]}
<1>1. TwoTo[j] \in Nat /\ TwoTo[0] = 1 /\ TwoTo[j] * 1 = TwoTo[j] /\ j + 0 = j
  <2>1. j \in 0 .. 64
    OBVIOUS
  <2>2. TwoTo[j] \in Nat /\ TwoTo[0] = 1
    BY <2>1, Doubled
  <2> HIDE DEF S
  <2> QED
    BY <2>2
<1>2. 0 \in S
  BY <1>1
<1>3. ASSUME NEW n \in S PROVE n + 1 \in S
  <2> SUFFICES ASSUME j + (n + 1) <= 64 PROVE TwoTo[j + (n + 1)] = TwoTo[j] * TwoTo[n + 1]
    OBVIOUS
  <2>1. /\ n + 1 \in 1 .. 64 /\ n + 1 - 1 = n /\ n \in 0 .. 64
        /\ j + (n + 1) \in 1 .. 64 /\ j + (n + 1) - 1 = j + n
    OBVIOUS
  <2>2. TwoTo[n + 1] = 2 * TwoTo[n] /\ TwoTo[j + (n + 1)] = 2 * TwoTo[j + n]
    BY <2>1, Doubled
  <2>3. TwoTo[j + n] = TwoTo[j] * TwoTo[n] /\ TwoTo[n] \in Nat
    BY <2>1, Doubled
  <2> HIDE DEF S
  <2> QED
    BY <1>1, <2>2, <2>3
<1>4. S = Nat
  <2> HIDE DEF S
  <2>1. S \in SUBSET Nat
    BY DEF S
  <2> QED
    BY <1>2, <1>3, <2>1, AllNaturals
<1> QED
  BY <1>4

(* A half, a quarter and an eighth of a word. *)
LEMMA WordParts ==
  /\ Eighth \in Nat \ {0} /\ Quarter = Eighth * Eighth /\ Half = Quarter * Quarter
  /\ Quarter \in Nat \ {0} /\ Half \in Nat \ {0} /\ Word = Half * Half /\ Word \in Nat \ {0}
  /\ Half \in Parts /\ Quarter \in Parts /\ Eighth \in Parts
<1> DEFINE e == HashBits \div 8
<1>1. /\ e \in Nat /\ e + e = HashBits \div 4
      /\ (HashBits \div 4) + (HashBits \div 4) = HashBits \div 2
      /\ e \in 0 .. 64 /\ HashBits \div 4 \in 0 .. 64 /\ HashBits \div 2 \in 0 .. 64
  BY HashBitsAssumption
<1>2. Quarter = Eighth * Eighth /\ Half = Quarter * Quarter
  <2>1. TwoTo[e + e] = TwoTo[e] * TwoTo[e]
    <3>1. e \in Nat /\ e + e <= 64
      BY <1>1
    <3> HIDE DEF e
    <3> QED
      BY <3>1, ShiftedTwice
  <2> DEFINE q == HashBits \div 4
  <2>2. TwoTo[q + q] = TwoTo[q] * TwoTo[q]
    <3>1. q \in Nat /\ q + q <= 64
      BY <1>1
    <3> HIDE DEF q
    <3> QED
      BY <3>1, ShiftedTwice
  <2> QED
    BY <1>1, <2>1, <2>2 DEF Eighth, Quarter, Half
<1>3. Eighth \in Nat \ {0} /\ Quarter \in Nat \ {0} /\ Half \in Nat \ {0}
  BY <1>1, Doubled DEF Eighth, Quarter, Half
<1>4. Half \in Parts /\ Quarter \in Parts /\ Eighth \in Parts
  BY <1>1 DEF Eighth, Quarter, Half, Parts
<1>5. Half * Half \in Nat \ {0}
  BY <1>3
<1> QED
  BY <1>2, <1>3, <1>4, <1>5 DEF Word

(* A number without its lowest bit. *)
LEMMA Halves ==
  /\ \A a \in Nat : /\ a \div 2 \in Nat /\ a \div 2 <= a /\ a % 2 \in {0, 1}
                    /\ a = 2 * (a \div 2) + (a % 2)
  /\ \A n \in Nat : \A a \in Nat : a <= n + 1 => a \div 2 <= n
  /\ \A a \in Words : a \in Nat /\ a \div 2 \in Words
<1>1. \A a \in Nat : /\ a \div 2 \in Nat /\ a \div 2 <= a /\ a % 2 \in {0, 1}
                     /\ a = 2 * (a \div 2) + (a % 2)
  OBVIOUS
<1>2. \A n \in Nat : \A a \in Nat : a <= n + 1 => a \div 2 <= n
  OBVIOUS
<1>3. \A a \in Words : a \in Nat /\ a \div 2 \in Words
  BY <1>1, WordParts DEF Words
<1> QED
  BY <1>1, <1>2, <1>3

(* They are 1 and doubles of one another; PowersOfTwo is part of them. *)
LEMMA PartsOfAWord ==
  /\ Parts \subseteq Nat \ {0} /\ 1 \in Parts /\ PowersOfTwo \subseteq Parts
  /\ \A p \in Parts : p # 1 => \E q \in Parts : p = 2 * q
<1>1. 0 \in 0 .. 64 /\ 0 .. Doublings \subseteq 0 .. 64
  BY DoublingsAssumption
<1>2. Parts \subseteq Nat \ {0} /\ 1 \in Parts /\ PowersOfTwo \subseteq Parts
  BY <1>1, Doubled DEF Parts, PowersOfTwo
<1>3. \A k \in 0 .. 64 : k # 0 => k \in 1 .. 64 /\ k - 1 \in 0 .. 64
  OBVIOUS
<1>4. ASSUME NEW p \in Parts, p # 1 PROVE \E q \in Parts : p = 2 * q
  <2>1. PICK k \in 0 .. 64 : p = TwoTo[k]
    BY DEF Parts
  <2>2. k \in 1 .. 64 /\ k - 1 \in 0 .. 64
    BY <1>3, <1>4, <2>1, Doubled
  <2> QED
    BY <2>1, <2>2, Doubled DEF Parts
<1> QED
  BY <1>2, <1>4

(* Induction over them, by doubling. *)
LEMMA EveryPart ==
  ASSUME NEW T, 1 \in T, \A m \in Parts \cap T : 2 * m \in Parts => 2 * m \in T
  PROVE  Parts \subseteq T
<1> DEFINE S == {k \in Nat : k \in 0 .. 64 => TwoTo[k] \in T}
<1>1. 0 \in S
  BY Doubled
<1>2. ASSUME NEW k \in S PROVE k + 1 \in S
  <2> SUFFICES ASSUME k + 1 \in 0 .. 64 PROVE TwoTo[k + 1] \in T
    OBVIOUS
  <2>1. k \in 0 .. 64 /\ k + 1 \in 1 .. 64 /\ k + 1 - 1 = k
    OBVIOUS
  <2>2. TwoTo[k] \in T /\ TwoTo[k] \in Parts /\ TwoTo[k + 1] \in Parts
    BY <2>1 DEF Parts
  <2>3. TwoTo[k + 1] = 2 * TwoTo[k]
    BY <2>1, Doubled
  <2> QED
    BY <2>2, <2>3
<1>3. S = Nat
  <2> HIDE DEF S
  <2>1. S \in SUBSET Nat
    BY DEF S
  <2> QED
    BY <1>1, <1>2, <2>1, AllNaturals
<1>4. \A k \in 0 .. 64 : TwoTo[k] \in T
  BY <1>3
<1> HIDE DEF S
<1> QED
  BY <1>4 DEF Parts

(* A quotient with a remainder is the quotient and the remainder. *)
LEMMA Divided ==
  ASSUME NEW n \in Nat \ {0}, NEW q \in Nat, NEW r \in 0 .. n - 1
  PROVE  /\ (q * n + r) \div n = q /\ (q * n + r) % n = r /\ q * n + r \in Nat
OBVIOUS

(* Quotients and remainders of naturals are naturals, and no larger. *)
LEMMA Quotient ==
  ASSUME NEW a \in Nat, NEW n \in Nat \ {0}
  PROVE  /\ a \div n \in Nat /\ a % n \in 0 .. n - 1 /\ a = (a \div n) * n + (a % n)
         /\ a % n \in Nat /\ a \div n <= a /\ a % n <= a
OBVIOUS

(* Dividing twice is dividing by the product. *)
LEMMA DividedTwice ==
  \A a \in Nat, m, n \in Nat \ {0} : (a \div m) \div n = a \div (m * n)
<1> TAKE a \in Nat, m, n \in Nat \ {0}
<1> DEFINE q == a \div m          r == a % m
           s == q \div n          t == q % n
<1>1. q \in Nat /\ r \in 0 .. m - 1 /\ a = q * m + r
  BY Quotient
<1>2. s \in Nat /\ t \in 0 .. n - 1 /\ q = s * n + t
  <2> HIDE DEF q, r
  <2> QED
    BY <1>1, Quotient
<1> HIDE DEF q, r, s, t
<1>3. m * n \in Nat \ {0} /\ a = s * (m * n) + (t * m + r)
  <2>1. (s * n + t) * m = s * (m * n) + t * m
    BY <1>2
  <2>2. m * n \in Nat \ {0} /\ s * (m * n) \in Nat /\ t * m \in Nat
    BY <1>2
  <2> QED
    BY <1>1, <1>2, <2>1, <2>2
<1>4. t * m + r \in 0 .. m * n - 1
  <2>1. t + 1 \in Nat /\ t + 1 <= n
    BY <1>2
  <2>2. (t + 1) * m <= n * m
    BY <2>1, Ordered
  <2>3. (t + 1) * m = t * m + m /\ n * m = m * n /\ t * m \in Nat
    BY <1>2
  <2> QED
    BY <1>1, <1>3, <2>2, <2>3
<1>5. a \div (m * n) = s
  BY <1>2, <1>3, <1>4, Divided
<1> QED
  BY <1>5 DEF q, s

(* A quotient is smaller than what the number is too small for. *)
LEMMA DividedBelow ==
  ASSUME NEW a \in Nat, NEW m \in Nat \ {0}, NEW n \in Nat \ {0}, a < m * n
  PROVE  a \div m < n
<1> SUFFICES ASSUME n <= a \div m PROVE FALSE
  BY Quotient
<1>1. a \div m \in Nat /\ (a \div m) * m <= a
  BY RoundedDown
<1>2. n * m <= (a \div m) * m /\ n * m = m * n /\ m * n \in Nat /\ (a \div m) * m \in Nat
  BY <1>1, Ordered
<1> QED
  BY <1>1, <1>2

(* The same, for a division by two after another. *)
LEMMA DividedByTwo ==
  ASSUME NEW a \in Nat, NEW m \in Nat \ {0}
  PROVE  (a \div m) \div 2 = a \div (2 * m)
<1>1. 2 * m = m * 2
  OBVIOUS
<1> QED
  BY <1>1, DividedTwice

(* A remainder by twice a number: the lowest bit, and the others' remainder. *)
LEMMA LowestBit ==
  ASSUME NEW a \in Nat, NEW m \in Nat \ {0}
  PROVE  /\ a % (2 * m) = (a % 2) + 2 * ((a \div 2) % m)
         /\ (a % (2 * m)) % 2 = a % 2 /\ (a % (2 * m)) \div 2 = (a \div 2) % m
         /\ a % (2 * m) \in Nat /\ a % (2 * m) <= a
<1> DEFINE q == a \div 2          r == a % 2
           s == q \div m          t == q % m
<1>1. q \in Nat /\ r \in 0 .. 1 /\ a = 2 * q + r
  OBVIOUS
<1>2. s \in Nat /\ t \in 0 .. m - 1 /\ q = s * m + t
  <2> HIDE DEF q, r
  <2> QED
    BY <1>1, Quotient
<1> HIDE DEF q, r, s, t
<1>3. a = s * (2 * m) + (2 * t + r) /\ s * (2 * m) \in Nat
  <2>1. 2 * (s * m) = s * (2 * m) /\ s * m \in Nat
    BY <1>2
  <2> QED
    BY <1>1, <1>2, <2>1
<1>4. 2 * t + r \in 0 .. 2 * m - 1
  BY <1>1, <1>2
<1>5. a % (2 * m) = 2 * t + r
  <2> DEFINE u == 2 * m
             v == 2 * t + r
  <2>1. u \in Nat \ {0} /\ v \in 0 .. u - 1 /\ a = s * u + v
    BY <1>3, <1>4
  <2> HIDE DEF u, v
  <2>2. a % u = v
    BY <1>2, <2>1, Divided
  <2> QED
    BY <2>2 DEF u, v
<1>6. (2 * t + r) % 2 = r /\ (2 * t + r) \div 2 = t
  BY <1>1, <1>2
<1>7. 2 * t + r \in Nat /\ 2 * t + r <= a
  BY <1>3, <1>4
<1> QED
  BY <1>5, <1>6, <1>7 DEF r, t, q

(* The pairs the recursive functions take, and the step they take. *)
Halved(w) == <<w[1] \div 2, w[2] \div 2>>
Pairs == Words \X Words

(* Induction over words, by halving. *)
LEMMA EveryPair ==
  ASSUME NEW T, <<0, 0>> \in T, \A w \in Pairs : Halved(w) \in T => w \in T
  PROVE  \A w \in Pairs : w \in T
<1> DEFINE Low(n) == {w \in Pairs : w[1] <= n /\ w[2] <= n}
           S == {n \in Nat : Low(n) \subseteq T}
<1>1. \A w \in Pairs : Halved(w) \in Pairs /\ w[1] \in Nat /\ w[2] \in Nat
  BY Halves DEF Halved, Pairs
<1>2. \A n \in Nat : \A w \in Low(n + 1) : Halved(w) \in Low(n)
  BY <1>1, Halves DEF Halved
<1>3. 0 \in S
  <2>1. \A w \in Low(0) : w = <<0, 0>>
    BY <1>1 DEF Pairs
  <2> QED
    BY <2>1
<1>4. ASSUME NEW n \in S PROVE n + 1 \in S
  <2>1. \A w \in Low(n + 1) : Halved(w) \in Low(n) /\ w \in Pairs
    BY <1>2
  <2>2. Low(n) \subseteq T /\ n \in Nat
    OBVIOUS
  <2> HIDE DEF Low
  <2> QED
    BY <2>1, <2>2
<1>5. S = Nat
  <2> HIDE DEF S
  <2>1. S \in SUBSET Nat
    BY DEF S
  <2> QED
    BY <1>3, <1>4, <2>1, AllNaturals
<1>6. Word \in Nat /\ \A w \in Pairs : w \in Low(Word)
  BY WordParts DEF Words, Pairs
<1>7. Low(Word) \subseteq T
  BY <1>5, <1>6
<1> HIDE DEF Low
<1> QED
  BY <1>6, <1>7
-----------------------------------------------------------------------------
(***************************************************************************)
(* The operators ^ and &.                                                   *)
(***************************************************************************)
(* A function of two words that is defined bit by bit is defined. *)
LEMMA BitsExist ==
  ASSUME NEW d \in [Pairs -> Nat]
  PROVE  \E f : f = [w \in Pairs |-> IF w = <<0, 0>> THEN 0 ELSE d[w] + 2 * f[Halved(w)]]
<1> DEFINE Bits(f, w) == IF w = <<0, 0>> THEN 0 ELSE d[w] + 2 * f[Halved(w)]
           Low(n) == {w \in Pairs : w[1] <= n /\ w[2] <= n}
           Done(n) == \E f \in [Pairs -> Nat] : \A w \in Low(n) : f[w] = Bits(f, w)
           S == {n \in Nat : Done(n)}
<1>1. \A w \in Pairs : Halved(w) \in Pairs /\ w[1] \in Nat /\ w[2] \in Nat
  BY Halves DEF Halved, Pairs
<1>2. \A f \in [Pairs -> Nat] : \A w \in Pairs : Bits(f, w) \in Nat
  BY <1>1
<1>3. \A n \in Nat : \A w \in Low(n + 1) : Halved(w) \in Low(n)
  BY <1>1, Halves DEF Halved
<1>4. 0 \in S
  <2> DEFINE f == [w \in Pairs |-> 0]
  <2>1. f \in [Pairs -> Nat]
    OBVIOUS
  <2>2. \A w \in Low(0) : w = <<0, 0>>
    BY <1>1 DEF Pairs
  <2>3. \A w \in Low(0) : f[w] = Bits(f, w)
    BY <2>2
  <2> QED
    BY <2>1, <2>3
<1>5. ASSUME NEW n \in S PROVE n + 1 \in S
  <2>1. PICK h \in [Pairs -> Nat] : \A w \in Low(n) : h[w] = Bits(h, w)
    OBVIOUS
  <2> DEFINE f == [w \in Pairs |-> Bits(h, w)]
  <2>2. f \in [Pairs -> Nat]
    <3> HIDE DEF Bits
    <3> QED
      BY <1>2
  <2>3. ASSUME NEW w \in Low(n + 1)
        PROVE  f[w] = Bits(f, w)
    <3>1. Halved(w) \in Low(n) /\ Halved(w) \in Pairs
      BY <1>1, <1>3
    <3>2. f[Halved(w)] = h[Halved(w)]
      <4> HIDE DEF Bits
      <4> QED
        BY <2>1, <3>1
    <3>3. f[w] = Bits(h, w)
      OBVIOUS
    <3> HIDE DEF f
    <3> QED
      BY <3>2, <3>3
  <2> HIDE DEF f, Bits, Low
  <2>4. Done(n + 1)
    BY <2>2, <2>3
  <2> QED
    BY <2>4
<1>6. S = Nat
  <2> HIDE DEF S
  <2>1. S \in SUBSET Nat
    BY DEF S
  <2> QED
    BY <1>4, <1>5, <2>1, AllNaturals
<1>7. Word \in Nat /\ \A w \in Pairs : w \in Low(Word)
  BY WordParts DEF Words, Pairs
<1>8. PICK f \in [Pairs -> Nat] : \A w \in Pairs : f[w] = Bits(f, w)
  <2>1. Done(Word)
    BY <1>6, <1>7
  <2> HIDE DEF Bits, Low
  <2> QED
    BY <1>7, <2>1
<1>9. f = [w \in Pairs |-> Bits(f, w)]
  <2> HIDE DEF Bits
  <2> QED
    BY <1>8
<1> QED
  BY <1>9

(* One bit of such a function, and the others. *)
LEMMA BitsFollow ==
  ASSUME NEW d \in [Pairs -> Nat], d[<<0, 0>>] = 0,
         NEW f, f = [w \in Pairs |-> IF w = <<0, 0>> THEN 0 ELSE d[w] + 2 * f[Halved(w)]]
  PROVE  \A w \in Pairs : f[w] \in Nat /\ f[w] = d[w] + 2 * f[Halved(w)]
<1> DEFINE Low(n) == {w \in Pairs : w[1] <= n /\ w[2] <= n}
           Known(n) == \A w \in Low(n) : f[w] \in Nat
           S == {n \in Nat : Known(n)}
<1>1. \A w \in Pairs : Halved(w) \in Pairs /\ w[1] \in Nat /\ w[2] \in Nat
  BY Halves DEF Halved, Pairs
<1>2. \A n \in Nat : \A w \in Low(n + 1) : Halved(w) \in Low(n)
  BY <1>1, Halves DEF Halved
<1>3. \A w \in Pairs : f[w] = IF w = <<0, 0>> THEN 0 ELSE d[w] + 2 * f[Halved(w)]
  OBVIOUS
<1>4. 0 \in S
  <2>1. \A w \in Low(0) : w = <<0, 0>>
    BY <1>1 DEF Pairs
  <2> QED
    BY <1>3, <2>1
<1>5. ASSUME NEW n \in S PROVE n + 1 \in S
  <2>1. ASSUME NEW w \in Low(n + 1) PROVE f[w] \in Nat
    <3>1. Halved(w) \in Low(n)
      BY <1>2
    <3>2. f[Halved(w)] \in Nat
      BY <3>1
    <3>3. w \in Pairs
      OBVIOUS
    <3> HIDE DEF S, Low
    <3>4. d[w] \in Nat
      BY <3>3
    <3>5. f[w] = IF w = <<0, 0>> THEN 0 ELSE d[w] + 2 * f[Halved(w)]
      BY <1>3, <3>3
    <3> QED
      BY <3>2, <3>4, <3>5
  <2>2. n \in Nat
    OBVIOUS
  <2>3. Known(n + 1)
    BY <2>1
  <2> HIDE DEF Known
  <2> QED
    BY <2>2, <2>3
<1>6. S = Nat
  <2> HIDE DEF S
  <2>1. S \in SUBSET Nat
    BY DEF S
  <2> QED
    BY <1>4, <1>5, <2>1, AllNaturals
<1>7. Word \in Nat /\ \A w \in Pairs : w \in Low(Word)
  BY WordParts DEF Words, Pairs
<1>8. \A w \in Pairs : f[w] \in Nat
  BY <1>6, <1>7
<1>9. Halved(<<0, 0>>) = <<0, 0>> /\ <<0, 0>> \in Pairs
  BY WordParts DEF Halved, Pairs, Words
<1>10. f[<<0, 0>>] = 0
  BY <1>3, <1>9
<1>11. ASSUME NEW w \in Pairs PROVE f[w] = d[w] + 2 * f[Halved(w)]
  BY <1>3, <1>9, <1>10
<1> QED
  BY <1>8, <1>11

(* The lowest bit of both operators, and the others. *)
LEMMA FirstBit ==
  ASSUME NEW a \in Words, NEW b \in Words
  PROVE  /\ Xor(a, b) \in Nat /\ Xor(a, b) = ((a + b) % 2) + 2 * Xor(a \div 2, b \div 2)
         /\ And(a, b) \in Nat /\ And(a, b) = (a % 2) * (b % 2) + 2 * And(a \div 2, b \div 2)
<1> DEFINE x == [w \in Pairs |-> (w[1] + w[2]) % 2]
           y == [w \in Pairs |-> (w[1] % 2) * (w[2] % 2)]
           F(f, d) == f = [w \in Pairs |-> IF w = <<0, 0>> THEN 0 ELSE d[w] + 2 * f[Halved(w)]]
<1>1. \A w \in Pairs : w[1] \in Nat /\ w[2] \in Nat
  BY Halves DEF Pairs
<1>2. <<a, b>> \in Pairs /\ <<0, 0>> \in Pairs /\ Halved(<<a, b>>) = <<a \div 2, b \div 2>>
  BY WordParts DEF Pairs, Words, Halved
<1>3. x \in [Pairs -> Nat] /\ x[<<0, 0>>] = 0 /\ x[<<a, b>>] = (a + b) % 2
  <2>1. \A w \in Pairs : (w[1] + w[2]) % 2 \in Nat
    BY <1>1
  <2> QED
    BY <1>2, <2>1
<1>4. y \in [Pairs -> Nat] /\ y[<<0, 0>>] = 0 /\ y[<<a, b>>] = (a % 2) * (b % 2)
  <2>1. \A w \in Pairs : (w[1] % 2) * (w[2] % 2) \in Nat
    BY <1>1
  <2> QED
    BY <1>2, <2>1
<1>5. XorBits = CHOOSE f : F(f, x)
  <2> DEFINE G(f) == f = [w \in Pairs |->
                 IF w = <<0, 0>> THEN 0 ELSE ((w[1] + w[2]) % 2) + 2 * f[Halved(w)]]
  <2>1. XorBits = CHOOSE f : G(f)
    BY DEF XorBits, Halved, Pairs
  <2>2. ASSUME NEW f PROVE F(f, x) <=> G(f)
    OBVIOUS
  <2> HIDE DEF F, G
  <2> QED
    BY <2>1, <2>2
<1>6. AndBits = CHOOSE f : F(f, y)
  <2> DEFINE G(f) == f = [w \in Pairs |->
                 IF w = <<0, 0>> THEN 0 ELSE (w[1] % 2) * (w[2] % 2) + 2 * f[Halved(w)]]
  <2>1. AndBits = CHOOSE f : G(f)
    BY DEF AndBits, Halved, Pairs
  <2>2. ASSUME NEW f PROVE F(f, y) <=> G(f)
    OBVIOUS
  <2> HIDE DEF F, G
  <2> QED
    BY <2>1, <2>2
<1>7. F(XorBits, x) /\ F(AndBits, y)
  <2>1. (\E f : F(f, x)) /\ (\E f : F(f, y))
    <3> HIDE DEF x, y
    <3> QED
      BY <1>3, <1>4, BitsExist
  <2> HIDE DEF F, x, y
  <2> QED
    BY <1>5, <1>6, <2>1
<1>8. \A w \in Pairs : XorBits[w] \in Nat /\ XorBits[w] = x[w] + 2 * XorBits[Halved(w)]
  <2> HIDE DEF x
  <2> QED
    BY <1>3, <1>7, BitsFollow
<1>9. \A w \in Pairs : AndBits[w] \in Nat /\ AndBits[w] = y[w] + 2 * AndBits[Halved(w)]
  <2> HIDE DEF y
  <2> QED
    BY <1>4, <1>7, BitsFollow
<1> HIDE DEF x, y
<1> QED
  BY <1>2, <1>3, <1>4, <1>8, <1>9 DEF Xor, And

(* The two equations of Xor by themselves. *)
LEMMA BitByBit ==
  ASSUME NEW a \in Words, NEW b \in Words
  PROVE  /\ Xor(a, b) \in Nat /\ Xor(a, b) % 2 = (a + b) % 2
         /\ Xor(a, b) \div 2 = Xor(a \div 2, b \div 2)
         /\ Xor(a, b) = ((a + b) % 2) + 2 * Xor(a \div 2, b \div 2)
<1>1. a \div 2 \in Words /\ b \div 2 \in Words /\ a \in Nat /\ b \in Nat
  BY Halves
<1> DEFINE x == Xor(a, b)
           y == Xor(a \div 2, b \div 2)
           r == (a + b) % 2
<1>2. x = r + 2 * y /\ x \in Nat /\ y \in Nat /\ r \in 0 .. 1
  BY <1>1, FirstBit
<1> HIDE DEF x, y, r
<1>3. x % 2 = r /\ x \div 2 = y
  BY <1>2
<1> QED
  BY <1>2, <1>3 DEF x, y, r

(* What division makes of a word is a word. *)
LEMMA SmallWords ==
  ASSUME NEW a \in Words, NEW n \in Nat \ {0}
  PROVE  a \in Nat /\ a \div n \in Words /\ a % n \in Words /\ 0 \in Words
<1>1. a \in Nat /\ Word \in Nat \ {0} /\ a <= Word - 1
  BY WordParts DEF Words
<1>2. a \div n \in Nat /\ a % n \in Nat /\ a \div n <= a /\ a % n <= a
  BY <1>1, Quotient
<1>3. \A c \in Nat : c <= a => c \in Words
  BY <1>1 DEF Words
<1>4. 0 \in Words
  BY <1>1, <1>3
<1> DEFINE q == a \div n
           r == a % n
<1>5. q \in Nat /\ q <= a /\ r \in Nat /\ r <= a
  BY <1>2
<1> HIDE DEF q, r
<1>6. q \in Words /\ r \in Words
  BY <1>3, <1>5
<1> QED
  BY <1>1, <1>4, <1>6 DEF q, r

(* A number of no more than k bits in each operand gives one of no more. *)
LEMMA StaysBelow ==
  ASSUME NEW m \in Parts, NEW a \in Words, NEW b \in Words, a < m, b < m
  PROVE  Xor(a, b) < m
<1> DEFINE T == {n \in Parts : \A x, y \in Words : x < n /\ y < n => Xor(x, y) < n}
<1>1. 1 \in T
  <2> SUFFICES ASSUME NEW x \in Words, NEW y \in Words, x < 1, y < 1 PROVE Xor(x, y) < 1
    BY PartsOfAWord
  <2>1. x = 0 /\ y = 0
    BY Halves
  <2>2. Xor(0, 0) \in Nat /\ Xor(0, 0) = ((0 + 0) % 2) + 2 * Xor(0 \div 2, 0 \div 2)
    BY <2>1, FirstBit
  <2>3. 0 \div 2 = 0 /\ (0 + 0) % 2 = 0
    OBVIOUS
  <2>4. Xor(0, 0) = 2 * Xor(0, 0)
    BY <2>2, <2>3
  <2>5. Xor(0, 0) = 0
    BY <2>2, <2>4
  <2> QED
    BY <2>1, <2>5
<1>2. ASSUME NEW n \in Parts \cap T, 2 * n \in Parts PROVE 2 * n \in T
  <2> SUFFICES ASSUME NEW x \in Words, NEW y \in Words, x < 2 * n, y < 2 * n
               PROVE  Xor(x, y) < 2 * n
    BY <1>2
  <2>1. n \in Nat \ {0} /\ x \in Nat /\ y \in Nat
    BY PartsOfAWord, Halves
  <2>2. x \div 2 < n /\ y \div 2 < n
    BY <2>1
  <2>3. x \div 2 \in Words /\ y \div 2 \in Words
    BY Halves
  <2>4. Xor(x \div 2, y \div 2) < n /\ Xor(x \div 2, y \div 2) \in Nat
    BY <2>2, <2>3, BitByBit
  <2>5. Xor(x, y) = ((x + y) % 2) + 2 * Xor(x \div 2, y \div 2) /\ (x + y) % 2 \in 0 .. 1
    BY <2>1, BitByBit
  <2> QED
    BY <2>1, <2>4, <2>5
<1>3. Parts \subseteq T
  <2> HIDE DEF T
  <2> QED
    BY <1>1, <1>2, EveryPart
<1> QED
  BY <1>3

(* The upper bits come from the upper bits, the lower from the lower. *)
LEMMA UpperBits ==
  ASSUME NEW m \in Parts, NEW a \in Words, NEW b \in Words
  PROVE  Xor(a, b) \div m = Xor(a \div m, b \div m)
<1> DEFINE T == {n \in Parts : \A x, y \in Words : Xor(x, y) \div n = Xor(x \div n, y \div n)}
<1>1. 1 \in T
  <2>1. \A x \in Nat : x \div 1 = x
    OBVIOUS
  <2>2. \A x, y \in Words : x \in Nat /\ y \in Nat /\ Xor(x, y) \in Nat
    BY BitByBit, Halves
  <2> QED
    BY <2>1, <2>2, PartsOfAWord
<1>2. ASSUME NEW n \in Parts \cap T, 2 * n \in Parts PROVE 2 * n \in T
  <2> SUFFICES ASSUME NEW x \in Words, NEW y \in Words
               PROVE  Xor(x, y) \div (2 * n) = Xor(x \div (2 * n), y \div (2 * n))
    BY <1>2
  <2>1. n \in Nat \ {0} /\ x \in Nat /\ y \in Nat /\ Xor(x, y) \in Nat /\ n * 2 = 2 * n
    BY PartsOfAWord, Halves, BitByBit
  <2>2. x \div n \in Words /\ y \div n \in Words
    BY <2>1, SmallWords
  <2>3. Xor(x, y) \div n = Xor(x \div n, y \div n)
    OBVIOUS
  <2>4. Xor(x \div n, y \div n) \div 2 = Xor((x \div n) \div 2, (y \div n) \div 2)
    BY <2>2, BitByBit
  <2>6. /\ (x \div n) \div 2 = x \div (2 * n) /\ (y \div n) \div 2 = y \div (2 * n)
        /\ (Xor(x, y) \div n) \div 2 = Xor(x, y) \div (2 * n)
    BY <2>1, DividedByTwo
  <2> QED
    BY <2>3, <2>4, <2>6
<1>3. Parts \subseteq T
  <2> HIDE DEF T
  <2> QED
    BY <1>1, <1>2, EveryPart
<1> QED
  BY <1>3

(* The same for remainders. *)
LEMMA LowerBits ==
  ASSUME NEW m \in Parts, NEW a \in Words, NEW b \in Words
  PROVE  Xor(a, b) % m = Xor(a % m, b % m)
<1> DEFINE T == {n \in Parts : \A x, y \in Words : Xor(x, y) % n = Xor(x % n, y % n)}
<1>1. 1 \in T
  <2>1. \A x \in Nat : x % 1 = 0
    OBVIOUS
  <2>2. \A x, y \in Words : x \in Nat /\ y \in Nat /\ Xor(x, y) \in Nat
    BY BitByBit, Halves
  <2>3. Xor(0, 0) = 0
    <3>1. 0 \in Words /\ 1 \in Parts /\ 0 < 1
      BY PartsOfAWord, SmallWords, WordParts DEF Words
    <3>2. Xor(0, 0) < 1 /\ Xor(0, 0) \in Nat
      BY <3>1, StaysBelow, BitByBit
    <3> QED
      BY <3>2
  <2> QED
    BY <2>1, <2>2, <2>3, PartsOfAWord
<1>2. ASSUME NEW n \in Parts \cap T, 2 * n \in Parts PROVE 2 * n \in T
  <2> SUFFICES ASSUME NEW x \in Words, NEW y \in Words
               PROVE  Xor(x, y) % (2 * n) = Xor(x % (2 * n), y % (2 * n))
    BY <1>2
  <2> DEFINE u == x % (2 * n)
             v == y % (2 * n)
  <2>1. n \in Nat \ {0} /\ x \in Nat /\ y \in Nat /\ Xor(x, y) \in Nat /\ 2 * n \in Nat \ {0}
    BY PartsOfAWord, Halves, BitByBit
  <2>2. x \div 2 \in Words /\ y \div 2 \in Words /\ u \in Words /\ v \in Words
    BY <2>1, Halves, SmallWords
  <2>3. u % 2 = x % 2 /\ v % 2 = y % 2 /\ u \div 2 = (x \div 2) % n /\ v \div 2 = (y \div 2) % n
    BY <2>1, LowestBit
  <2>4. Xor(u, v) = ((u + v) % 2) + 2 * Xor(u \div 2, v \div 2)
    BY <2>2, BitByBit
  <2>5. Xor(u \div 2, v \div 2) = Xor(x \div 2, y \div 2) % n
    BY <2>2, <2>3
  <2>6. (u + v) % 2 = (x + y) % 2
    <3> HIDE DEF u, v
    <3>1. u \in Nat /\ v \in Nat
      BY <2>2, Halves
    <3> QED
      BY <2>1, <2>3, <3>1
  <2>7. Xor(x, y) % (2 * n) = (Xor(x, y) % 2) + 2 * ((Xor(x, y) \div 2) % n)
    BY <2>1, LowestBit
  <2>8. Xor(x, y) % 2 = (x + y) % 2 /\ Xor(x, y) \div 2 = Xor(x \div 2, y \div 2)
    BY BitByBit
  <2> QED
    BY <2>4, <2>5, <2>6, <2>7, <2>8
<1>3. Parts \subseteq T
  <2> HIDE DEF T
  <2> QED
    BY <1>1, <1>2, EveryPart
<1> QED
  BY <1>3

(* Two words give a word. *)
LEMMA XorIsAWord ==
  ASSUME NEW a \in Words, NEW b \in Words
  PROVE  Xor(a, b) \in Words
<1>1. Half \in Parts /\ Half \in Nat \ {0} /\ Word = Half * Half /\ Word \in Nat \ {0}
  BY PartsOfAWord, WordParts
<1>2. a \in Nat /\ b \in Nat /\ a < Word /\ b < Word
  BY <1>1 DEF Words
<1>3. a \div Half < Half /\ b \div Half < Half
  BY <1>1, <1>2, DividedBelow
<1>4. a \div Half \in Words /\ b \div Half \in Words
  BY <1>1, SmallWords
<1>5. Xor(a, b) \div Half < Half
  BY <1>1, <1>3, <1>4, StaysBelow, UpperBits
<1>6. Xor(a, b) \in Nat
  BY BitByBit
<1> DEFINE x == Xor(a, b)
           q == x \div Half
           r == x % Half
<1>7. q \in Nat /\ r \in 0 .. Half - 1 /\ x = q * Half + r
  BY <1>1, <1>6, Quotient
<1>8. q + 1 <= Half
  BY <1>1, <1>5, <1>7
<1> HIDE DEF x, q, r
<1>9. (q + 1) * Half <= Half * Half /\ (q + 1) * Half = q * Half + Half /\ q * Half \in Nat
  BY <1>1, <1>7, <1>8, Ordered
<1>10. x \in 0 .. Word - 1
  BY <1>1, <1>7, <1>9
<1> QED
  BY <1>10 DEF x, Words

(* Nothing changes with 0, and what is done once more is undone. *)
LEMMA Undone ==
  ASSUME NEW a \in Words, NEW b \in Words
  PROVE  Xor(Xor(a, b), b) = a /\ Xor(a, 0) = a
<1> DEFINE T == {w \in Pairs : Xor(Xor(w[1], w[2]), w[2]) = w[1] /\ Xor(w[1], 0) = w[1]}
<1>1. 0 \in Words /\ <<0, 0>> \in Pairs
  BY SmallWords DEF Pairs
<1>2. <<0, 0>> \in T
  <2>1. 1 \in Parts /\ 0 < 1
    BY PartsOfAWord
  <2>2. Xor(0, 0) < 1 /\ Xor(0, 0) \in Nat
    BY <1>1, <2>1, StaysBelow, BitByBit
  <2>3. Xor(0, 0) = 0
    BY <2>2
  <2> QED
    BY <1>1, <2>3
<1>3. ASSUME NEW w \in Pairs, Halved(w) \in T PROVE w \in T
  <2> DEFINE x == w[1]
             y == w[2]
             z == Xor(x, y)
  <2>1. x \in Words /\ y \in Words /\ x \in Nat /\ y \in Nat
    BY Halves DEF Pairs
  <2>2. x \div 2 \in Words /\ y \div 2 \in Words /\ Halved(w) = <<x \div 2, y \div 2>>
    BY <2>1, Halves DEF Halved
  <2>3. Xor(Xor(x \div 2, y \div 2), y \div 2) = x \div 2 /\ Xor(x \div 2, 0) = x \div 2
    BY <1>3, <2>2
  <2>4. z \in Words /\ z \in Nat /\ z % 2 = (x + y) % 2 /\ z \div 2 = Xor(x \div 2, y \div 2)
    BY <2>1, XorIsAWord, BitByBit
  <2>5. Xor(z, y) = ((z + y) % 2) + 2 * Xor(z \div 2, y \div 2)
    BY <2>1, <2>4, BitByBit
  <2>6. Xor(x, 0) = ((x + 0) % 2) + 2 * Xor(x \div 2, 0 \div 2)
    BY <1>1, <2>1, BitByBit
  <2> HIDE DEF x, y, z
  <2>7. (z + y) % 2 = x % 2 /\ (x + 0) % 2 = x % 2 /\ 0 \div 2 = 0
    BY <2>1, <2>4
  <2>8. x = (x % 2) + 2 * (x \div 2)
    BY <2>1
  <2>9. Xor(z, y) = x /\ Xor(x, 0) = x
    BY <2>3, <2>4, <2>5, <2>6, <2>7, <2>8
  <2> QED
    BY <2>9 DEF x, y, z
<1>4. <<a, b>> \in Pairs
  BY DEF Pairs
<1>5. <<a, b>> \in T
  <2> HIDE DEF T
  <2> QED
    BY <1>2, <1>3, <1>4, EveryPair
<1> QED
  BY <1>5

(* A mask of ones takes the remainder. *)
LEMMA Masked ==
  ASSUME NEW m \in Parts, NEW a \in Words, m - 1 \in Words
  PROVE  And(a, m - 1) = a % m
<1> DEFINE Z == {w \in Pairs : And(w[1], 0) = 0}
           T == {n \in Parts : \A x \in Words : n - 1 \in Words => And(x, n - 1) = x % n}
<1>1. 0 \in Words /\ <<0, 0>> \in Pairs
  BY SmallWords DEF Pairs
<1>2. \A x \in Words : And(x, 0) \in Nat /\ And(x, 0) = 2 * And(x \div 2, 0)
  <2> TAKE x \in Words
  <2>1. And(x, 0) \in Nat /\ And(x, 0) = (x % 2) * (0 % 2) + 2 * And(x \div 2, 0 \div 2)
    BY <1>1, FirstBit
  <2>2. x % 2 \in Nat /\ 0 % 2 = 0 /\ 0 \div 2 = 0 /\ x \div 2 \in Words
    BY Halves
  <2>3. And(x \div 2, 0) \in Nat
    BY <1>1, <2>2, FirstBit
  <2> QED
    BY <2>1, <2>2, <2>3
<1>3. <<0, 0>> \in Z
  <2>1. And(0, 0) \in Nat /\ And(0, 0) = 2 * And(0, 0)
    <3>1. 0 \div 2 = 0
      OBVIOUS
    <3> QED
      BY <1>1, <1>2, <3>1
  <2> QED
    BY <1>1, <2>1
<1>4. ASSUME NEW w \in Pairs, Halved(w) \in Z PROVE w \in Z
  <2>1. w[1] \in Words /\ Halved(w)[1] = w[1] \div 2
    BY DEF Pairs, Halved
  <2>2. And(w[1] \div 2, 0) = 0
    BY <1>4, <2>1
  <2> QED
    BY <1>2, <2>1, <2>2
<1>5. \A x \in Words : And(x, 0) = 0
  <2>1. \A w \in Pairs : w \in Z
    <3> HIDE DEF Z
    <3> QED
      BY <1>3, <1>4, EveryPair
  <2>2. \A x \in Words : <<x, 0>> \in Pairs
    BY <1>1 DEF Pairs
  <2> QED
    BY <2>1, <2>2
<1>6. 1 \in T
  <2>1. \A x \in Nat : x % 1 = 0
    OBVIOUS
  <2>2. \A x \in Words : x \in Nat
    BY Halves
  <2>3. 1 - 1 = 0
    OBVIOUS
  <2> QED
    BY <1>5, <2>1, <2>2, <2>3, PartsOfAWord
<1>7. ASSUME NEW n \in Parts \cap T, 2 * n \in Parts PROVE 2 * n \in T
  <2> SUFFICES ASSUME NEW x \in Words, 2 * n - 1 \in Words
               PROVE  And(x, 2 * n - 1) = x % (2 * n)
    BY <1>7
  <2>1. n \in Nat \ {0} /\ x \in Nat
    BY PartsOfAWord, Halves
  <2>2. (2 * n - 1) \div 2 = n - 1 /\ (2 * n - 1) % 2 = 1
    BY <2>1
  <2>3. x \div 2 \in Words /\ n - 1 \in Words
    BY <2>2, Halves
  <2>4. And(x, 2 * n - 1) = (x % 2) * 1 + 2 * And(x \div 2, n - 1)
    BY <2>2, FirstBit
  <2>5. And(x \div 2, n - 1) = (x \div 2) % n
    BY <2>3
  <2>6. (x % 2) * 1 = x % 2
    BY <2>1
  <2>7. x % (2 * n) = (x % 2) + 2 * ((x \div 2) % n)
    BY <2>1, LowestBit
  <2> QED
    BY <2>4, <2>5, <2>6, <2>7
<1>8. Parts \subseteq T
  <2> HIDE DEF T
  <2> QED
    BY <1>6, <1>7, EveryPart
<1> QED
  BY <1>8
-----------------------------------------------------------------------------
(***************************************************************************)
(* The hasher.                                                              *)
(***************************************************************************)
(* The product of two words, from the four products of their halves. *)
LEMMA ProductOfHalves ==
  ASSUME NEW z \in Words, NEW w \in Words
  PROVE  LET al == z % Half        ah == z \div Half
             bl == w % Half        bh == w \div Half
             ll == al * bl         hl == ah * bl
             lh == al * bh         hh == ah * bh
             cross == (ll \div Half) + (hl % Half) + (lh % Half)
             upper == (hl \div Half) + (lh \div Half) + (cross \div Half) + hh
             lower == ((cross * Half) % Word) + (ll % Half)
         IN  /\ (z * w) % Word = lower /\ (z * w) \div Word = upper % Word
             /\ lower \in Words /\ upper % Word \in Words
<1> DEFINE al == z % Half        ah == z \div Half
           bl == w % Half        bh == w \div Half
           ll == al * bl         hl == ah * bl
           lh == al * bh         hh == ah * bh
           cross == (ll \div Half) + (hl % Half) + (lh % Half)
           upper == (hl \div Half) + (lh \div Half) + (cross \div Half) + hh
           lower == ((cross * Half) % Word) + (ll % Half)
<1>1. Half \in Nat \ {0} /\ Word = Half * Half /\ Word \in Nat \ {0}
  BY WordParts
<1>2. z \in Nat /\ w \in Nat /\ z < Word /\ w < Word
  BY <1>1 DEF Words
<1>3. /\ al \in Nat /\ ah \in Nat /\ z = ah * Half + al
      /\ bl \in Nat /\ bh \in Nat /\ w = bh * Half + bl
  BY <1>1, <1>2, Quotient
<1>4. z * w = hh * (Half * Half) + hl * Half + lh * Half + ll
  <2> HIDE DEF al, ah, bl, bh
  <2>1. (ah * Half + al) * (bh * Half + bl)
          = (ah * bh) * (Half * Half) + (ah * bl) * Half + (al * bh) * Half + al * bl
    BY <1>1, <1>3
  <2> QED
    BY <1>3, <2>1
<1>5. ll \in Nat /\ hl \in Nat /\ lh \in Nat /\ hh \in Nat
  <2> HIDE DEF al, ah, bl, bh
  <2> QED
    BY <1>3
<1> HIDE DEF al, ah, bl, bh, ll, hl, lh, hh
<1> DEFINE l1 == ll \div Half    l0 == ll % Half
           m1 == hl \div Half    m0 == hl % Half
           n1 == lh \div Half    n0 == lh % Half
<1>6. /\ l1 \in Nat /\ l0 \in 0 .. Half - 1 /\ ll = l1 * Half + l0
      /\ m1 \in Nat /\ m0 \in 0 .. Half - 1 /\ hl = m1 * Half + m0
      /\ n1 \in Nat /\ n0 \in 0 .. Half - 1 /\ lh = n1 * Half + n0
  BY <1>1, <1>5, Quotient
<1> HIDE DEF l1, l0, m1, m0, n1, n0
<1>7. cross = l1 + m0 + n0 /\ upper = m1 + n1 + (cross \div Half) + hh
      /\ lower = ((cross * Half) % Word) + l0
  BY DEF l1, l0, m1, m0, n1, n0
<1> HIDE DEF cross, upper, lower
<1> DEFINE c1 == cross \div Half    c0 == cross % Half
<1>8. /\ cross \in Nat /\ c1 \in Nat /\ c0 \in 0 .. Half - 1 /\ cross = c1 * Half + c0
      /\ upper = m1 + n1 + c1 + hh
  <2>1. cross \in Nat
    BY <1>1, <1>6, <1>7
  <2> QED
    BY <1>1, <1>7, <2>1, Quotient
<1> HIDE DEF c1, c0
<1>9. c0 * Half \in Nat /\ c0 * Half <= Word - Half
  <2>1. c0 + 1 <= Half /\ c0 + 1 \in Nat
    BY <1>1, <1>8
  <2>2. (c0 + 1) * Half <= Half * Half
    BY <1>1, <2>1, Ordered
  <2>3. (c0 + 1) * Half = c0 * Half + Half /\ c0 * Half \in Nat
    BY <1>1, <1>8
  <2> QED
    BY <1>1, <2>2, <2>3
<1>10. (cross * Half) % Word = c0 * Half
  <2>1. cross * Half = c1 * Word + c0 * Half
    <3>1. (c1 * Half + c0) * Half = c1 * (Half * Half) + c0 * Half
      BY <1>1, <1>8
    <3> QED
      BY <1>1, <1>8, <3>1
  <2> DEFINE v == c0 * Half
             p == cross * Half
  <2>2. v \in 0 .. Word - 1 /\ p = c1 * Word + v
    BY <1>1, <1>9, <2>1
  <2> HIDE DEF v, p
  <2>3. p % Word = v
    BY <1>1, <1>8, <2>2, Divided
  <2> QED
    BY <2>3 DEF v, p
<1>11. lower = c0 * Half + l0 /\ lower \in 0 .. Word - 1
  BY <1>1, <1>6, <1>7, <1>9, <1>10
<1>12. z * w = upper * Word + lower
  <2> DEFINE W == Half * Half
  <2>1. /\ hl * Half = m1 * W + m0 * Half /\ lh * Half = n1 * W + n0 * Half
        /\ cross * Half = l1 * Half + m0 * Half + n0 * Half
        /\ cross * Half = c1 * W + c0 * Half
        /\ upper * W = m1 * W + n1 * W + c1 * W + hh * W
    <3>1. \A x, y \in Nat : (x * Half + y) * Half = x * W + y * Half
      BY <1>1
    <3>2. \A x, y, u \in Nat : (x + y + u) * Half = x * Half + y * Half + u * Half
      BY <1>1
    <3>3. W \in Nat
      BY <1>1
    <3> HIDE DEF W
    <3>4. \A x, y, u, v \in Nat : (x + y + u + v) * W = x * W + y * W + u * W + v * W
      BY <3>3
    <3>5. hl * Half = m1 * W + m0 * Half
      BY <1>6, <3>1
    <3>6. lh * Half = n1 * W + n0 * Half
      BY <1>6, <3>1
    <3>7. cross * Half = l1 * Half + m0 * Half + n0 * Half
      BY <1>6, <1>7, <3>2
    <3>8. cross * Half = c1 * W + c0 * Half
      BY <1>8, <3>1
    <3>9. upper * W = m1 * W + n1 * W + c1 * W + hh * W
      BY <1>5, <1>6, <1>8, <3>4
    <3> QED
      BY <3>5, <3>6, <3>7, <3>8, <3>9
  <2>2. z * w = hh * W + hl * Half + lh * Half + (l1 * Half + l0) /\ Word = W
    BY <1>1, <1>4, <1>6
  <2>3. /\ hh * W \in Nat /\ m1 * W \in Nat /\ n1 * W \in Nat /\ c1 * W \in Nat
        /\ m0 * Half \in Nat /\ n0 * Half \in Nat /\ l1 * Half \in Nat /\ c0 * Half \in Nat
        /\ l0 \in Nat
    <3>1. W \in Nat /\ Half \in Nat
      BY <1>1
    <3> HIDE DEF W
    <3> QED
      BY <1>5, <1>6, <1>8, <3>1
  <2> HIDE DEF W
  <2> QED
    BY <1>11, <2>1, <2>2, <2>3
<1>13. upper \in Nat /\ lower \in Nat
  BY <1>5, <1>6, <1>8, <1>11
<1>14. upper < Word
  <2> SUFFICES ASSUME Word <= upper PROVE FALSE
    BY <1>1, <1>13
  <2>1. Word * Word <= upper * Word /\ upper * Word \in Nat /\ Word * Word \in Nat
    BY <1>1, <1>13, Ordered
  <2>2. z * w <= z * Word /\ z * Word \in Nat /\ z * w \in Nat
    BY <1>1, <1>2, Ordered
  <2>3. (z + 1) * Word <= Word * Word /\ (z + 1) * Word = z * Word + Word
    BY <1>1, <1>2, Ordered
  <2> QED
    BY <1>1, <1>12, <1>13, <2>1, <2>2, <2>3
<1>15. upper % Word = upper
  BY <1>1, <1>13, <1>14
<1>16. (z * w) % Word = lower /\ (z * w) \div Word = upper
  <2> DEFINE p == z * w
  <2>1. p = upper * Word + lower
    BY <1>12
  <2> HIDE DEF p
  <2>2. p % Word = lower /\ p \div Word = upper
    BY <1>1, <1>11, <1>13, <2>1, Divided
  <2> QED
    BY <2>2 DEF p
<1>17. lower \in Words /\ upper % Word \in Words
  BY <1>1, <1>11, <1>13, <1>14, <1>15 DEF Words
<1> QED
  BY <1>15, <1>16, <1>17 DEF al, ah, bl, bh, ll, hl, lh, hh, cross, upper, lower

(* Both forms of the hasher give the same word. *)
LEMMA FormsAgree ==
  ASSUME NEW key \in Words
  PROVE  FoldByHalves(key) = Fold(key) /\ Fold(key) \in Words
<1>1. Xor(key, Seed) \in Words /\ Prime \in Words
  BY XorIsAWord, HasherAssumption
<1>2. FoldByHalves(key) = Fold(key)
  BY <1>1, ProductOfHalves DEF Fold, FoldByHalves
<1>3. Fold(key) \in Words
  <2>1. (Xor(key, Seed) * Prime) % Word \in Words /\ (Xor(key, Seed) * Prime) \div Word \in Words
    BY <1>1, ProductOfHalves
  <2> QED
    BY <2>1, XorIsAWord DEF Fold
<1> QED
  BY <1>2, <1>3

(* The hash of a key in the builds without a product of two words is that of *)
(* the others, so a key has the same bucket in both: no carry is lost.      *)
THEOREM HashersAgree == RSpec => []HasherFormsAgree
<1>1. RInit => HasherFormsAgree
  BY DEF RInit, HasherFormsAgree
<1>2. ASSUME HasherFormsAgree, [RNext]_rvars PROVE HasherFormsAgree'
  <2>1. ASSUME NEW key \in RouteKeys, Route(key) PROVE HasherFormsAgree'
    <3>1. key \in Words
      BY WordParts DEF RouteKeys, Words
    <3>2. Hashers(key) \subseteq {Fold(key)}
      BY <3>1, FormsAgree DEF Hashers
    <3>3. PICK hash \in Hashers(key) : route'.hash = hash /\ route'.key = key
      BY <2>1 DEF Route
    <3>4. route'.hash = Fold(route'.key)
      BY <3>2, <3>3
    <3> QED
      BY <3>4 DEF HasherFormsAgree, Fold
  <2>2. route' = NoRoute => HasherFormsAgree'
    BY DEF HasherFormsAgree, NoRoute
  <2>3. route' = route => HasherFormsAgree'
    BY <1>2 DEF HasherFormsAgree, NoRoute, Fold
  <2> QED
    BY <1>2, <2>1, <2>2, <2>3 DEF RNext, rvars
<1> QED
  BY <1>1, <1>2, PTL DEF RSpec
-----------------------------------------------------------------------------
(***************************************************************************)
(* The buckets.                                                             *)
(***************************************************************************)
(* Of two powers of two, the smaller divides the larger. *)
LEMMA PartsDivide ==
  ASSUME NEW p \in Parts, NEW q \in Parts
  PROVE  /\ p <= q => \E d \in Nat \ {0} : q = d * p
         /\ p < 2 * q => p <= q
<1> DEFINE Over(r) == \A x \in Parts : x <= r => \E d \in Nat \ {0} : r = d * x
           T == {r \in Parts : Over(r)}
<1>1. 1 \in T
  <2>1. \A x \in Parts : x <= 1 => x = 1
    BY PartsOfAWord
  <2>2. 1 = 1 * 1 /\ 1 \in Nat \ {0}
    OBVIOUS
  <2> QED
    BY <2>1, <2>2, PartsOfAWord
<1>2. ASSUME NEW r \in Parts \cap T, 2 * r \in Parts PROVE 2 * r \in T
  <2> SUFFICES ASSUME NEW x \in Parts, x <= 2 * r PROVE \E d \in Nat \ {0} : 2 * r = d * x
    BY <1>2
  <2>1. r \in Nat \ {0} /\ x \in Nat \ {0} /\ Over(r)
    BY PartsOfAWord
  <2>2. CASE x <= r
    <3>1. PICK d \in Nat \ {0} : r = d * x
      BY <2>1, <2>2
    <3>2. 2 * r = (2 * d) * x /\ 2 * d \in Nat \ {0}
      BY <2>1, <3>1
    <3> QED
      BY <3>2
  <2>3. CASE r < x
    <3>1. x # 1
      BY <2>1, <2>3
    <3>2. PICK y \in Parts : x = 2 * y
      BY <3>1, PartsOfAWord
    <3>3. y \in Nat \ {0} /\ y <= r
      BY <2>1, <3>2, PartsOfAWord
    <3>4. PICK d \in Nat \ {0} : r = d * y
      BY <2>1, <3>3
    <3>5. d = 1
      <4> SUFFICES ASSUME 2 <= d PROVE FALSE
        OBVIOUS
      <4>1. 2 * y <= d * y /\ d * y \in Nat /\ 2 * y \in Nat
        BY <3>3, Ordered
      <4> QED
        BY <2>1, <2>3, <3>2, <3>4, <4>1
    <3>6. 2 * r = 1 * x /\ 1 \in Nat \ {0}
      BY <2>1, <3>2, <3>3, <3>4, <3>5
    <3> QED
      BY <3>6
  <2> QED
    BY <2>1, <2>2, <2>3
<1>3. \A r \in Parts : Over(r)
  <2>1. Parts \subseteq T
    <3> HIDE DEF T
    <3> QED
      BY <1>1, <1>2, EveryPart
  <2> QED
    BY <2>1
<1>4. p \in Nat \ {0} /\ q \in Nat \ {0}
  BY PartsOfAWord
<1>5. ASSUME p < 2 * q PROVE p <= q
  <2> SUFFICES ASSUME q < p PROVE FALSE
    BY <1>4
  <2>1. PICK d \in Nat \ {0} : p = d * q
    BY <1>3, <1>4
  <2>2. d # 1
    BY <1>4, <2>1
  <2>3. 2 * q <= d * q /\ d * q \in Nat
    BY <1>4, <2>2, Ordered
  <2> QED
    BY <1>4, <1>5, <2>1, <2>3
<1> QED
  BY <1>3, <1>5

(* What rounding gives is below a bound that is itself a power of two. *)
LEMMA RoundedBelow ==
  ASSUME NEW c \in Nat \ {0}, NEW n \in 0 .. Scale, NEW q \in Parts, n <= q * c
  PROVE  LET S == {p \in PowersOfTwo : p * c >= n}
         IN  LeastOf(S) \in PowersOfTwo /\ LeastOf(S) \in Parts /\ LeastOf(S) <= q
<1> DEFINE S == {p \in PowersOfTwo : p * c >= n}
           m == LeastOf(S)
<1>1. m \in PowersOfTwo /\ (m = 1 \/ m * c < 2 * n)
  BY RoundedUp
<1> HIDE DEF m
<1>2. m \in Parts /\ m \in Nat \ {0} /\ q \in Nat \ {0} /\ n \in Nat
  BY <1>1, PartsOfAWord, ScaleIsNatural
<1>3. ASSUME m # 1 PROVE m < 2 * q
  <2> SUFFICES ASSUME 2 * q <= m PROVE FALSE
    BY <1>2
  <2>1. 2 * q \in Nat /\ (2 * q) * c <= m * c /\ m * c \in Nat
    BY <1>2, Ordered
  <2>2. (2 * q) * c = 2 * (q * c) /\ q * c \in Nat
    BY <1>2
  <2> QED
    BY <1>1, <1>2, <1>3, <2>1, <2>2
<1>4. m <= q
  BY <1>2, <1>3, PartsDivide
<1> QED
  BY <1>1, <1>2, <1>4 DEF m

(* The masks: the counts of shards and of sets are powers of two, and small. *)
Masking ==
  /\ total \in Totals \cup {0}
  /\ shardCount # 0 => shardCount \in Parts /\ shardCount <= Quarter

(* Masking is inductive, beside Owned. *)
LEMMA MaskingInvariant ==
  /\ Init => Masking
  /\ Owned /\ Masking /\ [Next]_vars => Masking'
<1>1. Init => Masking
  BY DEF Init, Masking
<1>2. ASSUME Owned, NEW entries \in Totals, NEW procs \in Procs, Initialize(entries, procs)
      PROVE  Masking'
  <2> DEFINE p == IF procs = 0 THEN 4 ELSE procs
             n == p * ShardsPerProc[build]
  <2>1. build \in Builds
    BY <1>2 DEF Owned, TypeOK
  <2>2. MaxShards[build] \in PowersOfTwo /\ MaxShards[build] <= Quarter
    BY <2>1, MasksAssumption
  <2>3. n \in 0 .. Scale
    <3>1. p \in Nat /\ p \in Procs \cup {4}
      BY CallsAssumption
    <3>2. ShardsPerProc[build] \in Nat /\ n <= Scale
      BY <2>1, <3>1, ScaleAssumption
    <3>3. n \in Nat
      BY <3>1, <3>2
    <3> QED
      BY <3>2, <3>3, ScaleIsNatural
  <2>4. BitCeil(n) \in PowersOfTwo
    <3> DEFINE S == {x \in PowersOfTwo : x >= n}
    <3>1. S \in SUBSET Nat
      BY Powers
    <3>2. Scale \in S
      <4> HIDE DEF n
      <4> QED
        BY <2>3, Powers, ScaleIsNatural
    <3>3. LeastOf(S) \in S
      BY <3>1, <3>2, LeastIsThere
    <3> QED
      BY <3>3 DEF BitCeil
  <2>5. CountShards(procs) \in PowersOfTwo /\ CountShards(procs) <= MaxShards[build]
    <3>1. BitCeil(n) \in Nat /\ MaxShards[build] \in Nat
      BY <2>2, <2>4, Powers
    <3>2. CountShards(procs)
            = IF BitCeil(n) > MaxShards[build] THEN MaxShards[build] ELSE BitCeil(n)
      BY DEF CountShards
    <3> HIDE DEF n
    <3> QED
      BY <2>2, <2>4, <3>1, <3>2
  <2>6. CountShards(procs) \in Parts /\ CountShards(procs) <= Quarter
    <3>1. CountShards(procs) \in Nat /\ MaxShards[build] \in Nat /\ Quarter \in Nat
      BY <2>2, <2>5, Powers, WordParts
    <3> QED
      BY <2>2, <2>5, <3>1, PartsOfAWord
  <2>7. total' = entries /\ shardCount' = CountShards(procs)
    BY <1>2 DEF Initialize
  <2>8. Parts' = Parts /\ Quarter' = Quarter
    BY DEF Parts, Quarter
  <2> QED
    BY <2>6, <2>7 DEF Masking, Parts, Quarter
<1>3. Masking /\ Cleanup => Masking'
  BY DEF Cleanup, Masking, Machine, Parts, Quarter
<1>4. Masking /\ UNCHANGED <<total, shardCount>> => Masking'
  BY DEF Masking, Parts, Quarter
<1>5. AllocateBase \/ BaseFails \/ AllocateNodes \/ AllocateShard \/ Finish \/ UNCHANGED vars
        => UNCHANGED <<total, shardCount>>
  BY DEF AllocateBase, BaseFails, AllocateNodes, AllocateShard, Finish, vars, Machine
<1>6. ASSUME Owned, Masking, Next PROVE Masking'
  BY <1>2, <1>3, <1>4, <1>5, <1>6 DEF Next, CallCleanup, BaseThrows, ShardFails
<1> QED
  BY <1>1, <1>4, <1>5, <1>6

(* The sets of a shard fit half a word. *)
LEMMA SetsAreMasked ==
  ASSUME Owned, Masking, shardCount # 0
  PROVE  NumSets \in Parts /\ NumSets <= Half
<1>1. /\ build \in Builds /\ shardCount \in Nat \ {0} /\ total \in 0 .. Scale
      /\ LeastPerShard[build] \in 0 .. Scale /\ SlotsPerSet \in Nat \ {0}
      /\ Half \in Parts /\ Half \in Nat \ {0} /\ Scale \in Nat
  BY ScaleAssumption, ScaleIsNatural, SlotsAssumption, PartsOfAWord, WordParts
  DEF Owned, TypeOK, Scaled
<1>2. \A n \in Totals \cup {LeastPerShard[build]} : n <= Half * SlotsPerSet
  BY <1>1, MasksAssumption
<1>3. Half * SlotsPerSet \in Nat
  BY <1>1
<1>4. total <= Half * SlotsPerSet
  BY <1>2, <1>3 DEF Masking
<1>5. total \div shardCount \in Nat /\ total \div shardCount <= total
  <2>1. total \in Nat /\ shardCount \in Nat \ {0}
    BY <1>1
  <2> QED
    BY <2>1, Quotient
<1>6. Share \in 0 .. Scale /\ Share <= Half * SlotsPerSet /\ Share \in Nat
  BY <1>1, <1>2, <1>3, <1>4, <1>5 DEF Share, AtLeast
<1>7. CASE build = "um"
  <2> DEFINE n == Share \div SlotsPerSet
             S == {p \in PowersOfTwo : p * 1 >= n}
  <2>1. n \in Nat /\ n <= Share /\ n * SlotsPerSet <= Share
    BY <1>1, <1>6, Quotient, RoundedDown
  <2>2. n <= Half
    <3> SUFFICES ASSUME Half + 1 <= n PROVE FALSE
      BY <1>1, <2>1
    <3>1. Half + 1 \in Nat
      BY <1>1
    <3> HIDE DEF n
    <3>2. (Half + 1) * SlotsPerSet <= n * SlotsPerSet /\ n * SlotsPerSet \in Nat
      BY <1>1, <2>1, <3>1, Ordered
    <3>3. (Half + 1) * SlotsPerSet = Half * SlotsPerSet + SlotsPerSet
      BY <1>1
    <3> QED
      BY <1>1, <1>3, <1>6, <2>1, <3>2, <3>3
  <2>3. n \in 0 .. Scale /\ n <= Half * 1 /\ 1 \in Nat \ {0}
    <3> HIDE DEF n
    <3> QED
      BY <1>1, <1>6, <2>1, <2>2
  <2>4. LeastOf(S) \in Parts /\ LeastOf(S) <= Half
    <3> HIDE DEF n
    <3> QED
      BY <1>1, <2>3, RoundedBelow
  <2>5. S = {p \in PowersOfTwo : p >= n}
    <3>1. \A p \in PowersOfTwo : p * 1 = p
      BY Powers
    <3> QED
      BY <3>1
  <2>6. NumSets = LeastOf({p \in PowersOfTwo : p >= n})
    BY <1>7 DEF NumSets, BitCeil
  <2> QED
    BY <2>4, <2>5, <2>6
<1>8. CASE build = "km"
  <2>1. NumSets = LeastOf({p \in PowersOfTwo : p * SlotsPerSet >= Share})
    BY <1>8 DEF NumSets
  <2> QED
    BY <1>1, <1>6, <2>1, RoundedBelow
<1> QED
  BY <1>1, <1>7, <1>8, BuildsAssumption

(* The index of a shard and that of a set are remainders. *)
LEMMA IndicesAreRemainders ==
  ASSUME NEW hash \in Words, shardCount \in Parts, shardCount <= Quarter,
         NEW sets \in Parts, sets <= Half
  PROVE  /\ ShardIndex(hash)
              = Xor(hash \div (Half * Quarter), hash \div (Half * Quarter * Eighth)) % shardCount
         /\ SetIndex(hash, sets)
              = (IF build = "um" THEN Xor(hash, hash \div Half) ELSE hash) % sets
         /\ ShardIndex(hash) \in 0 .. shardCount - 1
         /\ SetIndex(hash, sets) \in 0 .. sets - 1
<1>1. /\ Half \in Nat \ {0} /\ Quarter \in Nat \ {0} /\ Eighth \in Nat \ {0}
      /\ Half = Quarter * Quarter /\ Word = Half * Half /\ Word \in Nat
  BY WordParts
<1>2. shardCount \in Nat \ {0} /\ sets \in Nat \ {0}
  BY PartsOfAWord
<1>3. Half * Quarter \in Nat \ {0} /\ Half * Quarter * Eighth \in Nat \ {0}
  BY <1>1
<1>4. Half <= Word /\ Quarter <= Half
  <2>1. 1 <= Quarter /\ 1 <= Half
    BY <1>1
  <2>2. 1 * Quarter <= Quarter * Quarter /\ 1 * Half <= Half * Half
    BY <1>1, <2>1, Ordered
  <2> QED
    BY <1>1, <2>2
<1>5. shardCount - 1 \in Words /\ sets - 1 \in Words
  BY <1>1, <1>2, <1>4 DEF Words
<1> DEFINE x == Xor(hash \div (Half * Quarter), hash \div (Half * Quarter * Eighth))
           y == IF build = "um" THEN Xor(hash, hash \div Half) ELSE hash
<1>6. x \in Words /\ y \in Words
  BY <1>1, <1>3, SmallWords, XorIsAWord
<1>7. ShardIndex(hash) = And(x, shardCount - 1) /\ SetIndex(hash, sets) = And(y, sets - 1)
  BY DEF ShardIndex, SetIndex
<1> HIDE DEF x, y
<1>8. ShardIndex(hash) = x % shardCount /\ SetIndex(hash, sets) = y % sets
  BY <1>5, <1>6, <1>7, Masked
<1>9. x \in Nat /\ y \in Nat
  BY <1>6, Halves
<1>10. x % shardCount \in 0 .. shardCount - 1 /\ y % sets \in 0 .. sets - 1
  BY <1>2, <1>9, Quotient
<1> QED
  BY <1>8, <1>10 DEF x, y

(* A hash that leads to a given shard and a given set of it. *)
LEMMA SomeHashLeads ==
  ASSUME shardCount \in Parts, shardCount <= Quarter, NEW sets \in Parts, sets <= Half,
         NEW i \in 0 .. shardCount - 1, NEW s \in 0 .. sets - 1
  PROVE  \E hash \in Words : ShardIndex(hash) = i /\ SetIndex(hash, sets) = s
<1>1. /\ Half \in Nat \ {0} /\ Quarter \in Nat \ {0} /\ Eighth \in Nat \ {0}
      /\ Quarter = Eighth * Eighth /\ Half = Quarter * Quarter
      /\ Word = Half * Half /\ Word \in Nat \ {0}
      /\ Half \in Parts /\ Quarter \in Parts /\ Eighth \in Parts
  BY WordParts, PartsOfAWord
<1>2. shardCount \in Nat \ {0} /\ sets \in Nat \ {0}
  BY PartsOfAWord
<1>3. i \in Nat /\ s \in Nat /\ i < Quarter /\ s < Half /\ s < sets
  BY <1>1, <1>2
<1> DEFINE shift == Half * Quarter
<1>4. shift \in Nat \ {0} /\ Half <= shift /\ shift <= Word /\ Word = Quarter * shift
      /\ Quarter <= Half /\ Half <= Word /\ shift = Quarter * Half
  <2>1. 1 <= Quarter /\ 1 <= Half
    BY <1>1
  <2>2. 1 * Quarter <= Quarter * Quarter /\ 1 * Half <= Half * Half /\ Half * 1 <= Half * Quarter
    BY <1>1, <2>1, Ordered
  <2>3. Half * Quarter <= Half * Half
    BY <1>1, <2>2, Ordered
  <2>4. Quarter * (Half * Quarter) = Half * (Quarter * Quarter)
        /\ Half * Quarter \in Nat \ {0} /\ Half * Quarter = Quarter * Half
    BY <1>1
  <2> QED
    BY <1>1, <2>2, <2>3, <2>4
<1>5. i \in Words /\ s \in Words
  BY <1>1, <1>3, <1>4 DEF Words
(* The upper quarter of the hash. *)
<1> DEFINE top == Xor(i, i \div Eighth)
<1>6. i \div Eighth \in Words /\ i \div Eighth < Quarter /\ top \in Words /\ top \in Nat
  <2>1. i \div Eighth \in Words /\ i \div Eighth <= i /\ i \div Eighth \in Nat
    BY <1>1, <1>3, <1>5, SmallWords, Quotient
  <2>2. top \in Words
    BY <1>5, <2>1, XorIsAWord
  <2>3. i \div Eighth < Quarter
    BY <1>1, <1>3, <2>1
  <2> QED
    BY <2>1, <2>2, <2>3, Halves
<1>7. top < Quarter
  BY <1>1, <1>3, <1>5, <1>6, StaysBelow
<1>8. top \div Eighth = i \div Eighth
  <2>1. top \div Eighth = Xor(i \div Eighth, (i \div Eighth) \div Eighth)
    BY <1>1, <1>5, <1>6, UpperBits
  <2>2. (i \div Eighth) \div Eighth = i \div Quarter
    <3>1. \A j \in Nat, e \in Nat \ {0} : (j \div e) \div e = j \div (e * e)
      BY DividedTwice
    <3>2. Eighth \in Nat \ {0} /\ Eighth * Eighth = Quarter /\ i \in Nat
      BY <1>1, <1>3
    <3>3. (i \div Eighth) \div Eighth = i \div (Eighth * Eighth)
      BY <3>1, <3>2, Zenon
    <3> QED
      BY <3>2, <3>3, Zenon
  <2>3. i \div Quarter = 0
    BY <1>1, <1>3
  <2> QED
    BY <1>5, <1>6, <2>1, <2>2, <2>3, Undone
<1>9. Xor(top, top \div Eighth) = i
  BY <1>5, <1>6, <1>8, Undone
<1> HIDE DEF top
(* The lower three quarters. *)
<1> DEFINE t == (top * Quarter) % sets
           low == IF build = "um" THEN Xor(s, t) ELSE s
           hash == top * shift + low
<1>10. top * Quarter \in Nat /\ top * Quarter + Quarter <= Half
  <2>1. top + 1 \in Nat /\ top + 1 <= Quarter
    BY <1>1, <1>6, <1>7
  <2>2. (top + 1) * Quarter <= Quarter * Quarter
    BY <1>1, <2>1, Ordered
  <2>3. (top + 1) * Quarter = top * Quarter + Quarter /\ top * Quarter \in Nat
    BY <1>1, <1>6
  <2> QED
    BY <1>1, <2>2, <2>3
<1>11. t \in Nat /\ t < sets /\ t \in Words
  <2>1. t \in 0 .. sets - 1 /\ t \in Nat
    BY <1>2, <1>10, Quotient
  <2> HIDE DEF t
  <2> QED
    BY <1>1, <1>2, <1>4, <2>1 DEF Words
<1>12. low \in Nat /\ low < sets /\ low \in Words /\ low < Half /\ low < shift
  <2>1. Xor(s, t) < sets /\ Xor(s, t) \in Words /\ Xor(s, t) \in Nat
    <3> HIDE DEF t
    <3> QED
      BY <1>3, <1>5, <1>11, StaysBelow, XorIsAWord, BitByBit
  <2>2. low \in Nat /\ low < sets /\ low \in Words
    <3> HIDE DEF t
    <3> QED
      BY <1>2, <1>3, <1>5, <2>1
  <2> HIDE DEF low, shift
  <2> QED
    BY <1>1, <1>2, <1>4, <2>2
<1> HIDE DEF t, low
<1>13. hash \in Words /\ hash \div shift = top
  <2>1. (top + 1) * shift <= Quarter * shift /\ (top + 1) * shift = top * shift + shift
        /\ top * shift \in Nat
    <3>1. top + 1 \in Nat /\ top + 1 <= Quarter
      BY <1>1, <1>6, <1>7
    <3> HIDE DEF shift
    <3> QED
      BY <1>1, <1>4, <1>6, <3>1, Ordered
  <2>2. low \in 0 .. shift - 1
    <3> HIDE DEF shift
    <3> QED
      BY <1>4, <1>12
  <2> HIDE DEF shift
  <2>3. hash \in 0 .. Word - 1
    BY <1>1, <1>4, <1>6, <2>1, <2>2
  <2>4. hash \div shift = top
    BY <1>4, <1>6, <2>2, Divided
  <2> QED
    BY <2>3, <2>4 DEF Words
<1>14. hash \in Nat
  BY <1>13, Halves
<1>15. ShardIndex(hash) = i
  <2>1. hash \div (Half * Quarter * Eighth) = top \div Eighth
    <3> HIDE DEF hash
    <3> QED
      BY <1>1, <1>4, <1>13, <1>14, DividedTwice
  <2>2. ShardIndex(hash) = i % shardCount
    <3> HIDE DEF hash
    <3> QED
      BY <1>9, <1>13, <2>1, IndicesAreRemainders
  <2> QED
    BY <1>2, <1>3, <2>2
<1>16. hash \div Half = top * Quarter /\ hash % sets = low
  <2>1. top * shift = (top * Quarter) * Half
    BY <1>1, <1>6
  <2>2. hash \div Half = top * Quarter
    <3> DEFINE u == top * Quarter
    <3>1. hash = u * Half + low /\ u \in Nat
      BY <1>10, <2>1
    <3>2. low \in 0 .. Half - 1
      BY <1>1, <1>12
    <3> HIDE DEF u, hash
    <3>3. hash \div Half = u
      BY <1>1, <3>1, <3>2, Divided
    <3> QED
      BY <3>3 DEF u
  <2>3. PICK d \in Nat \ {0} : Half = d * sets
    BY <1>1, PartsDivide
  <2>4. hash % sets = low
    <3> DEFINE u == (top * Quarter) * d
    <3>1. (top * Quarter) * Half = u * sets /\ u \in Nat
      <4> DEFINE v == top * Quarter
      <4>1. v \in Nat
        BY <1>10
      <4> HIDE DEF v
      <4>2. v * (d * sets) = (v * d) * sets /\ v * d \in Nat
        BY <1>2, <4>1
      <4> QED
        BY <2>3, <4>2 DEF v
    <3>2. hash = u * sets + low
      BY <2>1, <3>1
    <3>3. low \in 0 .. sets - 1
      BY <1>2, <1>12
    <3> HIDE DEF u, hash
    <3> QED
      BY <1>2, <3>1, <3>2, <3>3, Divided
  <2> QED
    BY <2>2, <2>4
<1> HIDE DEF hash
<1>17. SetIndex(hash, sets) = s
  <2>1. CASE build = "um"
    <3>1. hash \div Half \in Words
      BY <1>1, <1>13, SmallWords
    <3>2. Xor(hash, hash \div Half) % sets = Xor(low, t)
      BY <1>13, <1>16, <3>1, LowerBits DEF t
    <3>3. Xor(low, t) = s
      BY <1>5, <1>11, <2>1, Undone DEF low
    <3> QED
      BY <1>13, <2>1, <3>2, <3>3, IndicesAreRemainders
  <2>2. CASE build # "um"
    <3>1. low = s
      BY <2>2 DEF low
    <3> QED
      BY <1>13, <1>16, <2>2, <3>1, IndicesAreRemainders
  <2> QED
    BY <2>1, <2>2
<1> QED
  BY <1>13, <1>15, <1>17

(* Every bucket of a cache is the bucket of some hash, and no hash leads out *)
(* of the cache: no shard and no set is without use, none is missing.        *)
THEOREM BucketsAreReached == RSpec => []EveryBucketIsReached
<1>1. ASSUME Owned, Counted, Masking PROVE EveryBucketIsReached
  <2> SUFFICES ASSUME pc = "idle", usable
               PROVE  {Bucket(hash) : hash \in Words}
                        = {<<i, s>> : i \in Indices, s \in 0 .. shards[0].sets - 1}
    BY DEF EveryBucketIsReached, Words
  <2>1. /\ shardCount \in Nat \ {0}
        /\ \A i \in Indices : shards[i].sets = NumSets
    BY <1>1, WholeHeap
  <2>2. shardCount \in Parts /\ shardCount <= Quarter /\ NumSets \in Parts /\ NumSets <= Half
    BY <1>1, <2>1, SetsAreMasked DEF Masking
  <2>3. 0 \in Indices /\ shards[0].sets = NumSets /\ Indices = 0 .. shardCount - 1
    BY <2>1 DEF Indices
  <2>4. ASSUME NEW hash \in Words
        PROVE  /\ Bucket(hash) = <<ShardIndex(hash), SetIndex(hash, NumSets)>>
               /\ ShardIndex(hash) \in Indices /\ SetIndex(hash, NumSets) \in 0 .. NumSets - 1
    <3>1. ShardIndex(hash) \in Indices /\ SetIndex(hash, NumSets) \in 0 .. NumSets - 1
      BY <2>2, <2>3, IndicesAreRemainders
    <3>2. Bucket(hash) = <<ShardIndex(hash), SetIndex(hash, shards[ShardIndex(hash)].sets)>>
      BY DEF Bucket
    <3> QED
      BY <2>1, <3>1, <3>2
  <2>5. ASSUME NEW i \in Indices, NEW s \in 0 .. NumSets - 1
        PROVE  \E hash \in Words : Bucket(hash) = <<i, s>>
    <3>1. PICK hash \in Words : ShardIndex(hash) = i /\ SetIndex(hash, NumSets) = s
      BY <2>2, <2>3, SomeHashLeads
    <3> QED
      BY <2>4, <3>1
  <2> QED
    BY <2>3, <2>4, <2>5
<1>2. RInit => Init
  BY DEF RInit
<1>3. [RNext]_rvars => [Next]_vars
  BY DEF RNext, Route, rvars
<1> QED
  BY <1>1, <1>2, <1>3, OwnedInvariant, CountedInvariant, MaskingInvariant, PTL DEF RSpec
=============================================================================
