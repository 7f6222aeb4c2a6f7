---------------------------- MODULE BasicLemmas ----------------------------
(***************************************************************************)
(* Facts about division, greatest and least elements and sequences that    *)
(* the proofs of the components cite.                                      *)
(***************************************************************************)
EXTENDS Integers, Sequences, FiniteSets, FiniteSetsExt, SequencesExt,
        WellFoundedInduction, TLAPS

\* Integer division is monotone in its first argument.
LEMMA DivMonotone ==
    ASSUME NEW d \in Nat \ {0}, NEW a \in Nat, NEW b \in Nat, a <= b
    PROVE  a \div d \in Nat /\ a \div d <= b \div d
<1>1. a \div d \in Int /\ b \div d \in Int
  BY SMT
<1>2. d * (a \div d) <= a /\ a < d * (a \div d) + d
  BY SMT
<1>3. d * (b \div d) <= b /\ b < d * (b \div d) + d
  BY SMT
<1>4. a \div d >= 0
  BY SMT
<1>5. a \div d <= b \div d
  <2> DEFINE x == a \div d
             y == b \div d
  <2>1. SUFFICES ASSUME x >= y + 1 PROVE FALSE
    BY <1>1
  <2> HIDE DEF x, y
  <2>2. x \in Int /\ y \in Int
    BY <1>1 DEF x, y
  <2>3. d * x >= d * (y + 1)
    BY <2>1, <2>2, SMT
  <2>4. d * (y + 1) = d * y + d
    BY <2>2, SMT
  <2>5. d * x <= a /\ b < d * y + d
    BY <1>2, <1>3 DEF x, y
  <2>6. d * x \in Int /\ d * y \in Int
    BY <2>2, SMT
  <2> QED BY <2>3, <2>4, <2>5, <2>6
<1> QED BY <1>1, <1>4, <1>5

\* A bounded, non-empty set of numbers has a greatest element.
LEMMA MaxFacts ==
    ASSUME NEW N \in Nat, NEW S \in SUBSET (0..N), S # {}
    PROVE  Max(S) \in S /\ \A s \in S : s <= Max(S)
<1> DEFINE T == {N - s : s \in S}
<1>1. \A s \in S : s \in Int /\ 0 <= s /\ s <= N /\ N - s \in Nat
  OBVIOUS
<1>2. T \in SUBSET Nat /\ T # {}
  BY <1>1
<1>3. PICK x \in T : \A y \in T : ~(<<y, x>> \in OpToRel(<, Nat))
  BY <1>2, NatLessThanWellFounded, WFMin
<1>4. PICK m \in S : x = N - m
  OBVIOUS
<1>5. \A s \in S : s <= m
  <2> TAKE s \in S
  <2>1. N - s \in T
    OBVIOUS
  <2>2. ~(N - s < x)
    BY <1>2, <1>3, <2>1 DEF OpToRel
  <2> QED BY <1>1, <1>4, <2>2
<1>6. m >= m /\ \A s \in S : m >= s
  BY <1>1, <1>5
<1> QED BY <1>1, <1>6 DEF Max

\* A non-empty set of natural numbers has a least element.
LEMMA MinFacts ==
    ASSUME NEW S \in SUBSET Nat, S # {}
    PROVE  Min(S) \in S /\ \A s \in S : Min(S) <= s
<1>1. PICK m \in S : \A y \in S : ~(<<y, m>> \in OpToRel(<, Nat))
  BY NatLessThanWellFounded, WFMin
<1>2. \A s \in S : m <= s
  <2> TAKE s \in S
  <2>1. ~(s < m)
    BY <1>1 DEF OpToRel
  <2> QED BY <2>1
<1> QED BY <1>2 DEF Min

\* The members of a sequence.
LEMMA RangeFacts ==
    ASSUME NEW T, NEW s \in Seq(T)
    PROVE  /\ Len(s) \in Nat
           /\ \A i \in 1..Len(s) : s[i] \in T
           /\ \A x : x \in Range(s) <=> \E i \in 1..Len(s) : s[i] = x
           /\ s = <<>> <=> Len(s) = 0
           /\ Range(s) \in SUBSET T
BY DEF Range

\* The empty sequence has no member.
LEMMA EmptyFacts ==
    Range(<<>>) = {} /\ Len(<<>>) = 0 /\ \A T : <<>> \in Seq(T)
BY DEF Range

\* What Append does to a sequence.
LEMMA AppendFacts ==
    ASSUME NEW T, NEW s \in Seq(T), NEW x \in T
    PROVE  /\ Append(s, x) \in Seq(T)
           /\ Len(Append(s, x)) = Len(s) + 1
           /\ Len(s) \in Nat
           /\ Append(s, x)[Len(s) + 1] = x
           /\ \A i \in 1..Len(s) : Append(s, x)[i] = s[i]
           /\ Append(s, x) # <<>>
           /\ Range(Append(s, x)) = Range(s) \cup {x}
<1>1. /\ Append(s, x) \in Seq(T) /\ Len(Append(s, x)) = Len(s) + 1 /\ Len(s) \in Nat
      /\ Append(s, x)[Len(s) + 1] = x
      /\ \A i \in 1..Len(s) : Append(s, x)[i] = s[i]
      /\ Append(s, x) # <<>>
  OBVIOUS
<1>2. ASSUME NEW y PROVE y \in Range(Append(s, x)) <=> y \in Range(s) \cup {x}
  <2>1. y \in Range(Append(s, x)) <=> \E i \in 1..Len(s) + 1 : Append(s, x)[i] = y
    BY <1>1, RangeFacts
  <2>2. y \in Range(s) <=> \E i \in 1..Len(s) : s[i] = y
    BY RangeFacts
  <2>3. \A i \in 1..Len(s) + 1 : i \in 1..Len(s) \/ i = Len(s) + 1
    BY <1>1
  <2>4. 1..Len(s) \subseteq 1..Len(s) + 1 /\ Len(s) + 1 \in 1..Len(s) + 1
    BY <1>1
  <2> QED BY <1>1, <2>1, <2>2, <2>3, <2>4, Zenon
<1> QED BY <1>1, <1>2

\* What the concatenation of two sequences holds.
LEMMA ConcatFacts ==
    ASSUME NEW T, NEW s \in Seq(T), NEW t \in Seq(T)
    PROVE  /\ s \o t \in Seq(T)
           /\ Len(s \o t) = Len(s) + Len(t)
           /\ \A i \in 1..Len(s) : (s \o t)[i] = s[i]
           /\ \A i \in 1..Len(t) : (s \o t)[Len(s) + i] = t[i]
           /\ \A i \in 1..Len(s \o t) :
                 i \in 1..Len(s) \/ (i - Len(s) \in 1..Len(t) /\ (s \o t)[i] = t[i - Len(s)])
           /\ Range(s \o t) = Range(s) \cup Range(t)
<1>1. /\ s \o t \in Seq(T) /\ Len(s) \in Nat /\ Len(t) \in Nat
      /\ Len(s \o t) = Len(s) + Len(t)
  OBVIOUS
<1>2. \A i \in 1..Len(s) : (s \o t)[i] = s[i]
  OBVIOUS
<1>3. \A i \in 1..Len(t) : (s \o t)[Len(s) + i] = t[i]
  BY <1>1
<1>4. ASSUME NEW i \in 1..Len(s \o t), i \notin 1..Len(s)
      PROVE  i - Len(s) \in 1..Len(t) /\ (s \o t)[i] = t[i - Len(s)]
  <2>1. i - Len(s) \in 1..Len(t) /\ i = Len(s) + (i - Len(s))
    BY <1>1, <1>4
  <2> QED BY <1>3, <2>1
<1>5. ASSUME NEW y PROVE y \in Range(s \o t) <=> y \in Range(s) \cup Range(t)
  <2>1. y \in Range(s \o t) <=> \E i \in 1..Len(s \o t) : (s \o t)[i] = y
    BY <1>1, RangeFacts
  <2>2. y \in Range(s) <=> \E i \in 1..Len(s) : s[i] = y
    BY RangeFacts
  <2>3. y \in Range(t) <=> \E i \in 1..Len(t) : t[i] = y
    BY RangeFacts
  <2>4. 1..Len(s) \subseteq 1..Len(s \o t) /\ \A i \in 1..Len(t) : Len(s) + i \in 1..Len(s \o t)
    BY <1>1
  <2>5. y \in Range(s) \cup Range(t) => y \in Range(s \o t)
    BY <1>2, <1>3, <2>1, <2>2, <2>3, <2>4, Zenon
  <2>6. y \in Range(s \o t) => y \in Range(s) \cup Range(t)
    BY <1>2, <1>4, <2>1, <2>2, <2>3, Zenon
  <2> QED BY <2>5, <2>6
<1> QED BY <1>1, <1>2, <1>3, <1>4, <1>5

\* What a piece of a sequence holds.
LEMMA SubSeqFacts ==
    ASSUME NEW T, NEW s \in Seq(T), NEW m \in Nat, NEW n \in Nat, n # 0, m + n <= Len(s)
    PROVE  /\ SubSeq(s, m + 1, m + n) \in Seq(T)
           /\ Len(SubSeq(s, m + 1, m + n)) = n
           /\ \A i \in 1..n : m + i \in 1..Len(s) /\ SubSeq(s, m + 1, m + n)[i] = s[m + i]
<1> DEFINE u == SubSeq(s, m + 1, m + n)
<1>1. Len(s) \in Nat /\ s \in [1..Len(s) -> T]
  OBVIOUS
<1>2. u = [i \in 1..n |-> s[m + i]]
  <2>1. u = [i \in 1..(m + n) - (m + 1) + 1 |-> s[(m + 1) + i - 1]]
    BY <1>1
  <2>2. (m + n) - (m + 1) + 1 = n /\ \A i \in 1..n : (m + 1) + i - 1 = m + i
    OBVIOUS
  <2> QED BY <2>1, <2>2
<1>3. \A i \in 1..n : m + i \in 1..Len(s) /\ s[m + i] \in T
  BY <1>1
<1>4. u \in [1..n -> T]
  BY <1>2, <1>3
<1>5. u \in Seq(T)
  BY <1>4
<1>6. Len(u) = n
  BY <1>4, <1>5
<1> HIDE DEF u
<1>7. \A i \in 1..n : u[i] = s[m + i]
  BY <1>2
<1> QED BY <1>3, <1>5, <1>6, <1>7 DEF u

\* An induction over the indices of a sequence, by the least index that is not in G.
LEMMA IndexInduction ==
    ASSUME NEW N \in Nat, NEW G, 1 \in G, \A i \in 1..N - 1 : i \in G => i + 1 \in G
    PROVE  1..N \subseteq G
<1> DEFINE bad == {i \in 1..N : i \notin G}
<1> SUFFICES ASSUME bad # {} PROVE FALSE
  OBVIOUS
<1>1. bad \in SUBSET Nat
  OBVIOUS
<1>2. Min(bad) \in bad /\ \A s \in bad : Min(bad) <= s
  BY <1>1, MinFacts
<1> DEFINE m == Min(bad)
<1> HIDE DEF m
<1>3. m \in 1..N /\ m \notin G /\ \A s \in bad : m <= s
  BY <1>2 DEF m
<1>4. m # 1
  BY <1>3
<1>5. m - 1 \in 1..N - 1 /\ m - 1 \in 1..N /\ (m - 1) + 1 = m
  BY <1>3, <1>4
<1>6. m - 1 \notin bad
  BY <1>3, <1>5
<1>7. m - 1 \in G
  BY <1>5, <1>6
<1> QED BY <1>3, <1>5, <1>7

\* FlattenSeq is defined by a recursive function on the indices, which exists.
LEMMA FlattenDefined ==
    ASSUME NEW s, NEW N \in Nat \ {0}, Len(s) = N
    PROVE  \E f : /\ f = [i \in 1..N |-> IF i = 1 THEN s[i] ELSE f[i - 1] \o s[i]]
                  /\ FlattenSeq(s) = f[N]
<1> DEFINE Eq(f, k) == f = [i \in 1..k |-> IF i = 1 THEN s[i] ELSE f[i - 1] \o s[i]]
           G == {k \in Nat : \E f : Eq(f, k)}
<1>1. 1 \in G
  <2> DEFINE f == [i \in 1..1 |-> s[1]]
  <2>1. \A i \in 1..1 : i = 1
    OBVIOUS
  <2>2. f = [i \in 1..1 |-> IF i = 1 THEN s[i] ELSE f[i - 1] \o s[i]]
    BY <2>1
  <2> HIDE DEF f
  <2> QED BY <2>2
<1>2. ASSUME NEW k \in 1..N - 1, k \in G PROVE k + 1 \in G
  <2>1. PICK g : Eq(g, k)
    BY <1>2
  <2> DEFINE h == [i \in 1..k + 1 |-> IF i = k + 1 THEN g[k] \o s[k + 1] ELSE g[i]]
             e == [i \in 1..k + 1 |-> IF i = 1 THEN s[i] ELSE h[i - 1] \o s[i]]
  <2>2. ASSUME NEW i \in 1..k + 1 PROVE h[i] = IF i = 1 THEN s[i] ELSE h[i - 1] \o s[i]
    <3>1. CASE i = k + 1
      <4>1. i # 1 /\ i - 1 = k /\ k \in 1..k + 1 /\ k # k + 1
        BY <3>1
      <4>2. h[i] = g[k] \o s[k + 1] /\ h[k] = g[k]
        BY <3>1, <4>1
      <4> QED BY <3>1, <4>1, <4>2
    <3>2. CASE i \in 1..k
      <4>1. i # k + 1
        BY <3>2
      <4>2. h[i] = g[i]
        BY <4>1
      <4>3. g[i] = IF i = 1 THEN s[i] ELSE g[i - 1] \o s[i]
        BY <2>1, <3>2
      <4>4. i # 1 => i - 1 \in 1..k + 1 /\ i - 1 # k + 1
        BY <3>2
      <4>5. i # 1 => h[i - 1] = g[i - 1]
        BY <4>4
      <4> QED BY <4>2, <4>3, <4>5
    <3> QED BY <3>1, <3>2
  <2>3. h = e
    <3>1. \A i \in 1..k + 1 : h[i] = e[i]
      BY <2>2
    <3>2. DOMAIN h = 1..k + 1 /\ DOMAIN e = 1..k + 1
      OBVIOUS
    <3>3. h = [i \in 1..k + 1 |-> h[i]] /\ e = [i \in 1..k + 1 |-> e[i]]
      OBVIOUS
    <3> HIDE DEF h, e
    <3> QED BY <3>1, <3>3
  <2>4. Eq(h, k + 1)
    BY <2>3
  <2> HIDE DEF h, Eq
  <2>5. k + 1 \in Nat
    OBVIOUS
  <2> QED BY <2>4, <2>5
<1>3. N \in G
  <2> HIDE DEF G
  <2>1. 1..N \subseteq G
    BY <1>1, <1>2, IndexInduction
  <2> QED BY <2>1
<1> DEFINE F == CHOOSE f : Eq(f, N)
<1>4. Eq(F, N)
  <2>1. PICK f : Eq(f, N)
    BY <1>3
  <2> HIDE DEF Eq
  <2> QED BY <2>1
<1>5. FlattenSeq(s) = F[N]
  BY DEF FlattenSeq
<1> HIDE DEF F
<1> QED BY <1>4, <1>5

\* The concatenation of sequences holds their members, in an order that the
\* sequences and their members have.
LEMMA FlattenFacts ==
    ASSUME NEW T, NEW N \in Nat \ {0}, NEW s \in [1..N -> Seq(T)], NEW R,
           \A i \in 1..N : \A m, n \in 1..Len(s[i]) : m < n => <<s[i][m], s[i][n]>> \in R,
           \A i, j \in 1..N : i < j =>
               \A m \in 1..Len(s[i]), n \in 1..Len(s[j]) : <<s[i][m], s[j][n]>> \in R
    PROVE  /\ FlattenSeq(s) \in Seq(T)
           /\ \A x : x \in Range(FlattenSeq(s)) <=> \E i \in 1..N : x \in Range(s[i])
           /\ \A m, n \in 1..Len(FlattenSeq(s)) :
                 m < n => <<FlattenSeq(s)[m], FlattenSeq(s)[n]>> \in R
<1>1. Len(s) = N
  OBVIOUS
<1>2. PICK f : /\ f = [i \in 1..N |-> IF i = 1 THEN s[i] ELSE f[i - 1] \o s[i]]
               /\ FlattenSeq(s) = f[N]
  BY <1>1, FlattenDefined
<1>3. 1 \in 1..N /\ f[1] = s[1]
  BY <1>2
<1>4. ASSUME NEW i \in 1..N - 1 PROVE i \in 1..N /\ i + 1 \in 1..N /\ f[i + 1] = f[i] \o s[i + 1]
  <2>1. i \in 1..N /\ i + 1 \in 1..N /\ i + 1 # 1 /\ (i + 1) - 1 = i
    OBVIOUS
  <2>2. f[i + 1] = f[(i + 1) - 1] \o s[i + 1]
    BY <1>2, <2>1
  <2> QED BY <2>1, <2>2
<1> DEFINE Members(k) == \A x : x \in Range(f[k]) <=> \E i \in 1..k : x \in Range(s[i])
           Ordered(k) == \A m, n \in 1..Len(f[k]) : m < n => <<f[k][m], f[k][n]>> \in R
           G == {k \in 1..N : f[k] \in Seq(T) /\ Members(k) /\ Ordered(k)}
<1>5. 1 \in G
  <2>1. f[1] \in Seq(T)
    BY <1>3
  <2>2. Ordered(1)
    BY <1>3
  <2>3. \A i \in 1..1 : i = 1
    OBVIOUS
  <2>4. 1 \in 1..1
    OBVIOUS
  <2>5. Members(1)
    BY <1>3, <2>3, <2>4, Zenon
  <2> QED BY <1>3, <2>1, <2>2, <2>5
<1>6. ASSUME NEW k \in 1..N - 1, k \in G PROVE k + 1 \in G
  <2> DEFINE a == f[k]
             c == s[k + 1]
  <2>1. k \in 1..N /\ k + 1 \in 1..N /\ f[k + 1] = a \o c
    BY <1>4
  <2>2. a \in Seq(T) /\ c \in Seq(T) /\ Members(k) /\ Ordered(k)
    BY <1>6, <2>1
  <2> DEFINE Joined(x, y, z) ==
            /\ z \in Seq(T) /\ Len(z) = Len(x) + Len(y)
            /\ \A i \in 1..Len(x) : z[i] = x[i]
            /\ \A i \in 1..Len(z) :
                  i \in 1..Len(x) \/ (i - Len(x) \in 1..Len(y) /\ z[i] = y[i - Len(x)])
            /\ Range(z) = Range(x) \cup Range(y)
  <2>3. ASSUME NEW x \in Seq(T), NEW y \in Seq(T) PROVE Joined(x, y, x \o y)
    BY ConcatFacts
  <2> HIDE DEF Joined
  <2>4. Joined(a, c, f[k + 1])
    BY <2>1, <2>2, <2>3
  <2> DEFINE z == f[k + 1]
  <2>5. /\ z \in Seq(T) /\ Len(z) = Len(a) + Len(c) /\ Len(a) \in Nat /\ Len(c) \in Nat
        /\ \A i \in 1..Len(a) : z[i] = a[i]
        /\ \A i \in 1..Len(z) :
              i \in 1..Len(a) \/ (i - Len(a) \in 1..Len(c) /\ z[i] = c[i - Len(a)])
        /\ Range(z) = Range(a) \cup Range(c)
    <3>1. Len(a) \in Nat /\ Len(c) \in Nat
      BY <2>2
    <3> HIDE DEF a, c, z
    <3>2. Joined(a, c, z)
      BY <2>4 DEF z
    <3> QED BY <3>1, <3>2 DEF Joined
  <2>6. Members(k + 1)
    <3>1. \A i \in 1..k + 1 : i \in 1..k \/ i = k + 1
      OBVIOUS
    <3>2. 1..k \subseteq 1..k + 1 /\ k + 1 \in 1..k + 1
      OBVIOUS
    <3> HIDE DEF a, z
    <3>3. ASSUME NEW x PROVE x \in Range(z) <=> \E i \in 1..k + 1 : x \in Range(s[i])
      <4>1. x \in Range(a) <=> \E i \in 1..k : x \in Range(s[i])
        BY <2>2 DEF a
      <4> QED BY <2>5, <3>1, <3>2, <4>1, Zenon
    <3> QED BY <3>3 DEF z
  <2>7. Ordered(k + 1)
    <3> SUFFICES ASSUME NEW m \in 1..Len(z), NEW n \in 1..Len(z), m < n
                 PROVE  <<z[m], z[n]>> \in R
      OBVIOUS
    <3> HIDE DEF z
    <3>1. CASE n \in 1..Len(a)
      <4>1. m \in 1..Len(a)
        BY <2>5, <3>1
      <4> QED BY <2>2, <2>5, <3>1, <4>1
    <3>2. CASE n \notin 1..Len(a) /\ m \in 1..Len(a)
      <4>1. n - Len(a) \in 1..Len(c) /\ z[n] = c[n - Len(a)] /\ z[m] = a[m]
        BY <2>5, <3>2
      <4>2. a[m] \in Range(a)
        BY <2>2, <3>2, RangeFacts
      <4>3. PICK i \in 1..k : a[m] \in Range(s[i])
        BY <2>2, <4>2
      <4>4. i \in 1..N /\ i < k + 1
        BY <2>1
      <4>5. PICK l \in 1..Len(s[i]) : s[i][l] = a[m]
        <5>1. s[i] \in Seq(T)
          BY <4>4
        <5> QED BY <4>3, <5>1, RangeFacts
      <4>6. <<s[i][l], s[k + 1][n - Len(a)]>> \in R
        BY <2>1, <4>1, <4>4, <4>5
      <4> QED BY <4>1, <4>5, <4>6
    <3>3. CASE n \notin 1..Len(a) /\ m \notin 1..Len(a)
      <4>1. /\ n - Len(a) \in 1..Len(c) /\ z[n] = c[n - Len(a)]
            /\ m - Len(a) \in 1..Len(c) /\ z[m] = c[m - Len(a)]
        BY <2>5, <3>3
      <4>2. m - Len(a) < n - Len(a)
        BY <2>5
      <4> QED BY <2>1, <4>1, <4>2
    <3> QED BY <3>1, <3>2, <3>3
  <2> QED BY <2>1, <2>5, <2>6, <2>7
<1>7. N \in G
  <2> HIDE DEF G
  <2>1. 1..N \subseteq G
    BY <1>5, <1>6, IndexInduction
  <2> QED BY <2>1
<1> QED BY <1>2, <1>7
=============================================================================
