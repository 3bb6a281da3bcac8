----------------------------- MODULE Arithmetic -----------------------------
(***************************************************************************)
(* Facts about integers that the proofs of several components need.        *)
(*                                                                         *)
(* The rows of a circular buffer of R rows in which record n lives in row  *)
(* n % R: SilkPermit's indices are such remainders, the Disruptor's        *)
(* sequences are the counts they come from.                                *)
(*                                                                         *)
(* The sums of the executed quantities of a market and of the cash of the  *)
(* ledger.  SumFunctionOnSet chooses which member it adds first; that the  *)
(* choice does not matter is proved here, from the fact that a family of   *)
(* finite sets has a smallest one.                                         *)
(***************************************************************************)
EXTENDS Integers, FiniteSetTheorems, WellFoundedInduction, TLAPS

\* A row number is a remainder, and a count is its quotient and its row.
LEMMA DivMod ==
    ASSUME NEW R \in Nat \ {0}, NEW n \in Nat
    PROVE  /\ n % R \in 0 .. R - 1
           /\ n \div R \in Int
           /\ n = R * (n \div R) + (n % R)
  OBVIOUS

\* A count that splits into a quotient and a row has that row.
LEMMA ModUnique ==
    ASSUME NEW R \in Nat \ {0}, NEW n \in Nat, NEW q \in Int,
           NEW r \in 0 .. R - 1, n = R * q + r
    PROVE  n % R = r
  OBVIOUS

LEMMA ModSmall ==
    ASSUME NEW R \in Nat \ {0}, NEW n \in 0 .. R - 1
    PROVE  n % R = n
  OBVIOUS

\* Products of the row count keep the order of the quotients.
LEMMA Multiples ==
    ASSUME NEW R \in Nat \ {0}, NEW p \in Int, NEW q \in Int, p < q
    PROVE  R * p + R <= R * q
  OBVIOUS

\* Incrementing an index modulo R is incrementing the count behind it.
LEMMA ModSuccessor ==
    ASSUME NEW R \in Nat \ {0}, NEW n \in Nat
    PROVE  ((n % R) + 1) % R = (n + 1) % R
  <1> DEFINE q == n \div R
             r == n % R
             m == n + 1
             c == q + 1
  <1>1. /\ q \in Int /\ c \in Int /\ c = q + 1
        /\ 0 \in 0 .. R - 1
        /\ r \in 0 .. R - 1
        /\ n = R * q + r
        /\ m \in Nat /\ m = n + 1
    BY DivMod
  <1> HIDE DEF q, r, m, c
  <1>2. CASE r = R - 1
    <2>1. m = R * c + 0
      BY <1>1, <1>2
    <2>2. m % R = 0
      BY <1>1, <2>1, ModUnique
    <2>3. r + 1 = R * 1 + 0 /\ r + 1 \in Nat
      BY <1>1, <1>2
    <2>4. (r + 1) % R = 0
      BY <2>3, ModUnique
    <2>5. QED
      BY <2>2, <2>4 DEF r, m
  <1>3. CASE r # R - 1
    <2>1. m = R * q + (r + 1) /\ r + 1 \in 0 .. R - 1
      BY <1>1, <1>3
    <2>2. m % R = r + 1
      BY <1>1, <2>1, ModUnique
    <2>3. (r + 1) % R = r + 1
      BY <2>1, ModSmall
    <2>4. QED
      BY <2>2, <2>3 DEF r, m
  <1>4. QED
    BY <1>2, <1>3

\* _writedIndex is one row behind _writingIndex, around the end of the ring.
LEMMA ModPredecessor ==
    ASSUME NEW R \in Nat \ {0}, NEW n \in Nat
    PROVE  n % R = IF (n + 1) % R = 0 THEN R - 1 ELSE ((n + 1) % R) - 1
  <1> DEFINE q == n \div R
             r == n % R
             m == n + 1
             c == q + 1
  <1>1. /\ q \in Int /\ c \in Int /\ c = q + 1
        /\ 0 \in 0 .. R - 1
        /\ r \in 0 .. R - 1
        /\ n = R * q + r
        /\ m \in Nat /\ m = n + 1
    BY DivMod
  <1> HIDE DEF q, r, m, c
  <1>2. CASE r = R - 1
    <2>1. m = R * c + 0
      BY <1>1, <1>2
    <2>2. m % R = 0
      BY <1>1, <2>1, ModUnique
    <2>3. QED
      BY <2>2, <1>2 DEF r, m
  <1>3. CASE r # R - 1
    <2>1. m = R * q + (r + 1) /\ r + 1 \in 0 .. R - 1
      BY <1>1, <1>3
    <2>2. m % R = r + 1
      BY <1>1, <2>1, ModUnique
    <2>3. QED
      BY <2>2, <1>1 DEF r, m
  <1>4. QED
    BY <1>2, <1>3

\* Two counts less than R apart are in different rows.
LEMMA DistinctRows ==
    ASSUME NEW R \in Nat \ {0}, NEW a \in Nat, NEW b \in Nat,
           a < b, b - a < R
    PROVE  a % R # b % R
  <1> DEFINE p == a \div R
             q == b \div R
  <1>1. /\ p \in Int /\ q \in Int
        /\ a = R * p + (a % R) /\ a % R \in 0 .. R - 1
        /\ b = R * q + (b % R) /\ b % R \in 0 .. R - 1
    BY DivMod
  <1> HIDE DEF p, q
  <1>2. SUFFICES ASSUME a % R = b % R PROVE FALSE
    OBVIOUS
  <1>3. R * q - R * p = b - a /\ R * p \in Int /\ R * q \in Int
    BY <1>1, <1>2
  <1>4. CASE p < q
    BY <1>1, <1>3, <1>4, Multiples
  <1>5. CASE q < p
    BY <1>1, <1>3, <1>5, Multiples
  <1>6. CASE p = q
    BY <1>3, <1>6
  <1>7. QED
    BY <1>1, <1>4, <1>5, <1>6

\* The test of SilkPermit::fixed accepts every row of the window: if count m
\* is between the tail t and the next write w, its row is at or above the
\* tail's or below the next write's.
LEMMA WindowAccepted ==
    ASSUME NEW R \in Nat \ {0}, NEW t \in Nat, NEW m \in Nat, NEW w \in Nat,
           t <= m, m < w, w - t < R
    PROVE  t % R <= m % R \/ m % R < w % R
  <1> DEFINE p == t \div R
             q == m \div R
             s == w \div R
  <1>1. /\ p \in Int /\ q \in Int /\ s \in Int
        /\ t = R * p + (t % R) /\ t % R \in 0 .. R - 1
        /\ m = R * q + (m % R) /\ m % R \in 0 .. R - 1
        /\ w = R * s + (w % R) /\ w % R \in 0 .. R - 1
        /\ R * p \in Int /\ R * q \in Int /\ R * s \in Int
    BY DivMod
  <1> HIDE DEF p, q, s
  <1>2. SUFFICES ASSUME m % R < t % R, w % R <= m % R PROVE FALSE
    BY <1>1
  <1>3. p < q
    <2>1. CASE q < p
      BY <1>1, <1>2, <2>1, Multiples
    <2>2. CASE p = q
      BY <1>1, <1>2, <2>2
    <2>3. QED
      BY <1>1, <2>1, <2>2
  <1>4. q < s
    <2>1. CASE s < q
      BY <1>1, <1>2, <2>1, Multiples
    <2>2. CASE s = q
      BY <1>1, <1>2, <2>2
    <2>3. QED
      BY <1>1, <2>1, <2>2
  <1>5. R * p + R <= R * q /\ R * q + R <= R * s
    BY <1>1, <1>3, <1>4, Multiples
  <1>6. QED
    BY <1>1, <1>2, <1>5

-----------------------------------------------------------------------------
(* Sums. *)

\* One step of a sum of f: the member chosen, and the rest.
Chosen(s) == CHOOSE x \in s : TRUE

SumStep(g, f, s) == IF s = {} THEN 0 ELSE f[Chosen(s)] + g[s \ {Chosen(s)}]

Sums(g, f, S) == g = [s \in SUBSET S |-> SumStep(g, f, s)]

LEMMA SumIs ==
    ASSUME NEW f, NEW S
    PROVE  SumFunctionOnSet(f, S) = (CHOOSE g : Sums(g, f, S))[S]
  BY DEF SumFunctionOnSet, FoldFunctionOnSet, MapThenFoldSet, Sums, SumStep, Chosen

LEMMA ChosenIs ==
    ASSUME NEW s, s # {}
    PROVE  Chosen(s) \in s
  BY DEF Chosen

\* Of a family of finite sets one has no proper subset in the family.
LEMMA Smallest ==
    ASSUME NEW S, IsFiniteSet(S), NEW F, F \subseteq SUBSET S, F # {}
    PROVE  \E s \in F : \A r \in F : r \subseteq s => r = s
  <1>1. IsWellFoundedOn(StrictSubsetOrdering(S), FiniteSubsetsOf(S))
    BY FS_StrictSubsetOrderingWellFounded
  <1>2. F \subseteq FiniteSubsetsOf(S)
    BY FS_FiniteSubsetsOfFinite
  <1>3. PICK s \in F : \A r \in F : <<r, s>> \notin StrictSubsetOrdering(S)
    BY <1>1, <1>2, WFMin
  <1>4. ASSUME NEW r \in F, r \subseteq s, r # s PROVE FALSE
    <2>1. <<r, s>> \in (SUBSET S) \X (SUBSET S)
      OBVIOUS
    <2>2. <<r, s>>[1] = r /\ <<r, s>>[2] = s
      OBVIOUS
    <2>3. <<r, s>> \in StrictSubsetOrdering(S)
      BY <1>4, <2>1, <2>2 DEF StrictSubsetOrdering
    <2>4. QED
      BY <1>3, <2>3
  <1>5. QED
    BY <1>4

\* A finite set of integers has a least member.
LEMMA LeastOfIntegers ==
    ASSUME NEW S, S \subseteq Int, IsFiniteSet(S), S # {}
    PROVE  \E m \in S : \A s \in S : m <= s
  <1> DEFINE Below(m) == {t \in S : t < m}
             F == {Below(m) : m \in S}
  <1>1. F \subseteq SUBSET S /\ F # {} /\ \A m \in S : Below(m) \in F
    OBVIOUS
  <1>2. \A x \in F : \E m \in S : x = Below(m)
    OBVIOUS
  <1> HIDE DEF F, Below
  <1>3. PICK x \in F : \A r \in F : r \subseteq x => r = x
    BY ONLY IsFiniteSet(S), <1>1, Smallest
  <1>4. PICK m \in S : x = Below(m)
    BY <1>2
  <1>5. ASSUME NEW s \in S, s < m PROVE FALSE
    <2>1. s \in Int /\ m \in Int /\ \A t \in S : t \in Int
      OBVIOUS
    <2>2. Below(s) \subseteq Below(m)
      <3>1. ASSUME NEW t \in S, t < s PROVE t < m
        BY <1>5, <2>1, <3>1
      <3>2. QED
        BY <3>1 DEF Below
    <2>3. s \in Below(m) /\ s \notin Below(s)
      BY <1>5, <2>1 DEF Below
    <2>4. QED
      BY <1>1, <1>3, <1>4, <2>2, <2>3
  <1>6. QED
    BY <1>5

\* Of a finite set of integers some member has k above it, for any k that is less
\* than their number.
LEMMA WithAbove ==
    ASSUME NEW S, S \subseteq Int, IsFiniteSet(S), NEW k \in Nat, k < Cardinality(S)
    PROVE  \E m \in S : Cardinality({s \in S : s > m}) = k
  <1> DEFINE Upper(U) == \A u \in U, s \in S : s > u => s \in U
             F == {U \in SUBSET S : Cardinality(U) > k /\ Upper(U)}
  <1>1. S \in F /\ F \subseteq SUBSET S
    OBVIOUS
  <1>2. PICK U \in F : \A r \in F : r \subseteq U => r = U
    <2>1. F \subseteq SUBSET S /\ F # {}
      BY <1>1
    <2> HIDE DEF F, Upper
    <2>2. QED
      BY ONLY IsFiniteSet(S), <2>1, Smallest
  <1>3. U \subseteq S /\ Cardinality(U) > k /\ Upper(U)
    BY <1>2
  <1>4. IsFiniteSet(U) /\ Cardinality(U) \in Nat /\ U # {}
    <2>1. IsFiniteSet(S) /\ U \in SUBSET S
      BY <1>3
    <2>2. IsFiniteSet(U)
      BY <2>1, FS_Subset
    <2>3. Cardinality(U) \in Nat /\ (Cardinality(U) = 0 <=> U = {})
      BY <2>2, FS_CardinalityType, FS_EmptySet
    <2>4. QED
      BY <1>3, <2>2, <2>3
  <1>5. PICK m \in U : \A u \in U : m <= u
    <2>1. U \subseteq Int /\ IsFiniteSet(U) /\ U # {}
      BY <1>3, <1>4
    <2>2. QED
      BY <2>1, LeastOfIntegers
  <1>6. /\ IsFiniteSet(U \ {m})
        /\ Cardinality(U \ {m}) = Cardinality(U) - 1
    BY <1>4, FS_RemoveElement
  <1>7. Upper(U \ {m})
    BY <1>3, <1>5
  <1>8. Cardinality(U \ {m}) <= k
    BY <1>2, <1>3, <1>4, <1>6, <1>7
  <1>9. {s \in S : s > m} = U \ {m}
    <2>1. m \in S /\ \A s \in S : s \in Int
      BY <1>3
    <2>2. ASSUME NEW s \in S, s > m PROVE s \in U \ {m}
      BY <1>3, <2>1, <2>2
    <2>3. ASSUME NEW s \in U \ {m} PROVE s \in S /\ s > m
      BY <1>3, <1>5, <2>1
    <2>4. QED
      BY <2>2, <2>3
  <1>10. Cardinality(U \ {m}) = k
    BY <1>3, <1>4, <1>6, <1>8
  <1>11. QED
    BY <1>3, <1>9, <1>10

LEMMA SumsAt ==
    ASSUME NEW g, NEW f, NEW S, Sums(g, f, S), NEW s, s \subseteq S
    PROVE  /\ s = {} => g[s] = 0
           /\ s # {} => /\ Chosen(s) \in s /\ s \ {Chosen(s)} \subseteq S
                        /\ g[s] = f[Chosen(s)] + g[s \ {Chosen(s)}]
  <1>1. g[s] = SumStep(g, f, s)
    BY DEF Sums
  <1>2. QED
    BY <1>1, ChosenIs DEF SumStep

\* Sums agree wherever they and what they sum are both defined.
LEMMA SumsAgree ==
    ASSUME NEW S, IsFiniteSet(S), NEW T, NEW U, S \subseteq T, S \subseteq U,
           NEW e, NEW f, \A x \in S : e[x] = f[x],
           NEW g, Sums(g, e, T), NEW h, Sums(h, f, U)
    PROVE  g[S] = h[S]
  <1> DEFINE F == {s \in SUBSET S : g[s] # h[s]}
  <1>1. ASSUME F # {} PROVE FALSE
    <2>0. F \subseteq SUBSET S
      OBVIOUS
    <2>1. \E s \in F : \A r \in F : r \subseteq s => r = s
      <3> HIDE DEF F
      <3>1. QED
        BY <1>1, <2>0, Smallest
    <2>2. PICK s \in F : \A r \in F : r \subseteq s => r = s
      BY <2>1
    <2>3. CASE s = {}
      BY <2>3, SumsAt
    <2>4. CASE s # {}
      <3> DEFINE c == Chosen(s)
                 r == s \ {c}
      <3>1. s \subseteq T /\ s \subseteq U /\ s \subseteq S
        OBVIOUS
      <3>2. /\ c \in s /\ g[s] = e[c] + g[r] /\ h[s] = f[c] + h[r]
        BY <2>4, <3>1, SumsAt
      <3>3. r \notin F
        BY <2>2, <3>2
      <3>4. g[r] = h[r] /\ e[c] = f[c]
        BY <3>1, <3>2, <3>3
      <3>5. QED
        BY <3>2, <3>4
    <2>5. QED
      BY <2>3, <2>4
  <1>2. QED
    BY <1>1

\* Every finite set has its sums.
LEMMA SumsExist ==
    ASSUME NEW f, NEW S, IsFiniteSet(S)
    PROVE  \E g : Sums(g, f, S)
  <1> DEFINE F == {s \in SUBSET S : ~ \E g : Sums(g, f, s)}
  <1>1. ASSUME F # {} PROVE FALSE
    <2>0. F \subseteq SUBSET S
      OBVIOUS
    <2>a. \E s \in F : \A r \in F : r \subseteq s => r = s
      <3> HIDE DEF F
      <3>1. QED
        BY <1>1, <2>0, Smallest
    <2>1. PICK T \in F : \A r \in F : r \subseteq T => r = T
      BY <2>a
    <2> DEFINE sum(s) == CHOOSE g : Sums(g, f, s)
               val(s) == sum(s)[s]
               g == [s \in SUBSET T |->
                        IF s = {} THEN 0 ELSE f[Chosen(s)] + val(s \ {Chosen(s)})]
    <2>2. ASSUME NEW s \in SUBSET T, s # T PROVE Sums(sum(s), f, s)
      <3>1. \E h : Sums(h, f, s)
        BY <2>1, <2>2
      <3>2. QED
        BY <3>1
    <2> HIDE DEF sum
    <2>3. ASSUME NEW s \in SUBSET T, s # T PROVE g[s] = val(s)
      <3>1. Sums(sum(s), f, s)
        BY <2>2, <2>3
      <3>2. CASE s = {}
        BY <3>1, <3>2, SumsAt
      <3>3. CASE s # {}
        <4> DEFINE c == Chosen(s)
                   r == s \ {c}
        <4>1. c \in s /\ val(s) = f[c] + sum(s)[r]
          BY <3>1, <3>3, SumsAt
        <4>2. r \in SUBSET T /\ r # T /\ r \subseteq s /\ IsFiniteSet(r)
          <5>1. r \in SUBSET T /\ r # T /\ r \subseteq S
            BY <4>1
          <5>2. QED
            BY <5>1, FS_Subset
        <4>3. Sums(sum(r), f, r)
          BY <2>2, <4>2
        <4>4. sum(s)[r] = val(r)
          BY <3>1, <4>2, <4>3, SumsAgree
        <4>5. g[s] = f[c] + val(r)
          BY <3>3
        <4>6. QED
          BY <4>1, <4>4, <4>5
      <3>4. QED
        BY <3>2, <3>3
    <2>4. ASSUME NEW s \in SUBSET T PROVE g[s] = SumStep(g, f, s)
      <3>1. CASE s = {}
        BY <3>1 DEF SumStep
      <3>2. CASE s # {}
        <4> DEFINE c == Chosen(s)
                   r == s \ {c}
        <4>1. c \in s /\ r \in SUBSET T /\ r # T
          BY <3>2, ChosenIs
        <4>2. g[r] = val(r)
          BY <2>3, <4>1
        <4>3. g[s] = f[c] + val(r)
          BY <3>2
        <4>4. QED
          BY <3>2, <4>2, <4>3 DEF SumStep
      <3>3. QED
        BY <3>1, <3>2
    <2>5. g = [s \in SUBSET T |-> SumStep(g, f, s)]
      BY <2>4
    <2>6. Sums(g, f, T)
      BY <2>5 DEF Sums
    <2>7. QED
      BY <2>1, <2>6
  <1>2. QED
    BY <1>1

LEMMA SumEmpty ==
    ASSUME NEW f
    PROVE  SumFunctionOnSet(f, {}) = 0
  <1>1. PICK g : Sums(g, f, {})
    BY FS_EmptySet, SumsExist
  <1>2. Sums((CHOOSE h : Sums(h, f, {})), f, {})
    BY <1>1
  <1>3. QED
    BY <1>2, SumIs, SumsAt

LEMMA SumStepIs ==
    ASSUME NEW f, NEW S, IsFiniteSet(S), S # {}
    PROVE  /\ Chosen(S) \in S
           /\ SumFunctionOnSet(f, S) =
                  f[Chosen(S)] + SumFunctionOnSet(f, S \ {Chosen(S)})
  <1> DEFINE r == S \ {Chosen(S)}
             g == CHOOSE h : Sums(h, f, S)
             k == CHOOSE h : Sums(h, f, r)
  <1>1. Sums(g, f, S)
    BY SumsExist
  <1>2. IsFiniteSet(r) /\ r \subseteq S /\ Chosen(S) \in S
    BY FS_Subset, ChosenIs
  <1>3. Sums(k, f, r)
    BY <1>2, SumsExist
  <1>4. SumFunctionOnSet(f, S) = g[S] /\ SumFunctionOnSet(f, r) = k[r]
    BY SumIs
  <1> HIDE DEF g, k
  <1>5. g[S] = f[Chosen(S)] + g[r]
    BY <1>1, SumsAt
  <1>6. g[r] = k[r]
    BY <1>1, <1>2, <1>3, SumsAgree
  <1>7. QED
    BY <1>2, <1>4, <1>5, <1>6

\* A sum depends on the values in the set only.
LEMMA SumSame ==
    ASSUME NEW S, IsFiniteSet(S), NEW e, NEW f, \A x \in S : e[x] = f[x]
    PROVE  SumFunctionOnSet(e, S) = SumFunctionOnSet(f, S)
  <1> DEFINE g == CHOOSE h : Sums(h, e, S)
             k == CHOOSE h : Sums(h, f, S)
  <1>1. Sums(g, e, S) /\ Sums(k, f, S)
    BY SumsExist
  <1>2. SumFunctionOnSet(e, S) = g[S] /\ SumFunctionOnSet(f, S) = k[S]
    BY SumIs
  <1> HIDE DEF g, k
  <1>3. g[S] = k[S]
    BY <1>1, SumsAgree
  <1>4. QED
    BY <1>2, <1>3

LEMMA SumInt ==
    ASSUME NEW f, NEW S, IsFiniteSet(S), \A x \in S : f[x] \in Int
    PROVE  SumFunctionOnSet(f, S) \in Int
  <1> DEFINE F == {s \in SUBSET S : SumFunctionOnSet(f, s) \notin Int}
  <1>1. ASSUME F # {} PROVE FALSE
    <2>0. F \subseteq SUBSET S
      OBVIOUS
    <2>1. \E s \in F : \A r \in F : r \subseteq s => r = s
      <3> HIDE DEF F
      <3>1. QED
        BY <1>1, <2>0, Smallest
    <2>2. PICK s \in F : \A r \in F : r \subseteq s => r = s
      BY <2>1
    <2>3. CASE s = {}
      BY <2>3, SumEmpty
    <2>4. CASE s # {}
      <3> DEFINE r == s \ {Chosen(s)}
      <3>1. IsFiniteSet(s)
        BY FS_Subset
      <3>2. /\ Chosen(s) \in s
            /\ SumFunctionOnSet(f, s) = f[Chosen(s)] + SumFunctionOnSet(f, r)
        BY <2>4, <3>1, SumStepIs
      <3>3. r \notin F /\ r \in SUBSET S
        BY <2>2, <3>2
      <3>4. QED
        BY <3>2, <3>3
    <2>5. QED
      BY <2>3, <2>4
  <1>2. QED
    BY <1>1, FS_Subset

LEMMA SumNat ==
    ASSUME NEW f, NEW S, IsFiniteSet(S), \A x \in S : f[x] \in Nat
    PROVE  SumFunctionOnSet(f, S) \in Nat
  <1> DEFINE F == {s \in SUBSET S : SumFunctionOnSet(f, s) \notin Nat}
  <1>1. ASSUME F # {} PROVE FALSE
    <2>0. F \subseteq SUBSET S
      OBVIOUS
    <2>1. \E s \in F : \A r \in F : r \subseteq s => r = s
      <3> HIDE DEF F
      <3>1. QED
        BY <1>1, <2>0, Smallest
    <2>2. PICK s \in F : \A r \in F : r \subseteq s => r = s
      BY <2>1
    <2>3. CASE s = {}
      BY <2>3, SumEmpty
    <2>4. CASE s # {}
      <3> DEFINE r == s \ {Chosen(s)}
      <3>1. IsFiniteSet(s)
        BY FS_Subset
      <3>2. /\ Chosen(s) \in s
            /\ SumFunctionOnSet(f, s) = f[Chosen(s)] + SumFunctionOnSet(f, r)
        BY <2>4, <3>1, SumStepIs
      <3>3. r \notin F /\ r \in SUBSET S
        BY <2>2, <3>2
      <3>4. QED
        BY <3>2, <3>3
    <2>5. QED
      BY <2>3, <2>4
  <1>2. QED
    BY <1>1, FS_Subset

LEMMA SumZero ==
    ASSUME NEW f, NEW S, IsFiniteSet(S), \A x \in S : f[x] = 0
    PROVE  SumFunctionOnSet(f, S) = 0
  <1> DEFINE F == {s \in SUBSET S : SumFunctionOnSet(f, s) # 0}
  <1>1. ASSUME F # {} PROVE FALSE
    <2>0. F \subseteq SUBSET S
      OBVIOUS
    <2>1. \E s \in F : \A r \in F : r \subseteq s => r = s
      <3> HIDE DEF F
      <3>1. QED
        BY <1>1, <2>0, Smallest
    <2>2. PICK s \in F : \A r \in F : r \subseteq s => r = s
      BY <2>1
    <2>3. CASE s = {}
      BY <2>3, SumEmpty
    <2>4. CASE s # {}
      <3> DEFINE r == s \ {Chosen(s)}
      <3>1. IsFiniteSet(s)
        BY FS_Subset
      <3>2. /\ Chosen(s) \in s
            /\ SumFunctionOnSet(f, s) = f[Chosen(s)] + SumFunctionOnSet(f, r)
        BY <2>4, <3>1, SumStepIs
      <3>3. r \notin F /\ r \in SUBSET S
        BY <2>2, <3>2
      <3>4. QED
        BY <3>2, <3>3
    <2>5. QED
      BY <2>3, <2>4
  <1>2. QED
    BY <1>1

\* A number that stands for every member is added once for each.
LEMMA SumConstant ==
    ASSUME NEW f, NEW S, IsFiniteSet(S), NEW c \in Int, \A x \in S : f[x] = c
    PROVE  SumFunctionOnSet(f, S) = c * Cardinality(S)
  <1> DEFINE F == {s \in SUBSET S : SumFunctionOnSet(f, s) # c * Cardinality(s)}
  <1>1. ASSUME F # {} PROVE FALSE
    <2>0. F \subseteq SUBSET S
      OBVIOUS
    <2>1. \E s \in F : \A r \in F : r \subseteq s => r = s
      <3> HIDE DEF F
      <3>1. QED
        BY <1>1, <2>0, Smallest
    <2>2. PICK s \in F : \A r \in F : r \subseteq s => r = s
      BY <2>1
    <2>3. CASE s = {}
      <3>1. SumFunctionOnSet(f, s) = 0 /\ Cardinality(s) = 0
        BY <2>3, SumEmpty, FS_EmptySet
      <3>2. QED
        BY <2>2, <3>1
    <2>4. CASE s # {}
      <3> DEFINE r == s \ {Chosen(s)}
      <3>1. IsFiniteSet(s) /\ IsFiniteSet(r)
        BY FS_Subset
      <3>2. /\ Chosen(s) \in s
            /\ SumFunctionOnSet(f, s) = f[Chosen(s)] + SumFunctionOnSet(f, r)
        BY <2>4, <3>1, SumStepIs
      <3>3. r \notin F /\ r \in SUBSET S
        BY <2>2, <3>2
      <3>4. SumFunctionOnSet(f, r) = c * Cardinality(r) /\ f[Chosen(s)] = c
        BY <3>2, <3>3
      <3>5. Cardinality(r) = Cardinality(s) - 1
        BY <3>1, <3>2, FS_RemoveElement
      <3>6. Cardinality(s) \in Nat
        BY <3>1, FS_CardinalityType
      <3>7. PICK n \in Nat : n = Cardinality(s)
        BY <3>6
      <3>8. c + c * (n - 1) = c * n
        OBVIOUS
      <3>9. QED
        BY <2>2, <3>2, <3>4, <3>5, <3>7, <3>8
    <2>5. QED
      BY <2>3, <2>4
  <1>2. QED
    BY <1>1, FS_Subset

\* Any member may be added first.
LEMMA SumTake ==
    ASSUME NEW f, NEW S, IsFiniteSet(S), \A x \in S : f[x] \in Int, NEW x \in S
    PROVE  SumFunctionOnSet(f, S) = f[x] + SumFunctionOnSet(f, S \ {x})
  <1> DEFINE Bad(s) == \E y \in s : SumFunctionOnSet(f, s)
                                      # f[y] + SumFunctionOnSet(f, s \ {y})
             F == {s \in SUBSET S : Bad(s)}
  <1>1. ASSUME F # {} PROVE FALSE
    <2>0. F \subseteq SUBSET S
      OBVIOUS
    <2>1. \E s \in F : \A r \in F : r \subseteq s => r = s
      <3> HIDE DEF F
      <3>1. QED
        BY <1>1, <2>0, Smallest
    <2>2. PICK s \in F : \A r \in F : r \subseteq s => r = s
      BY <2>1
    <2>3. PICK y \in s : SumFunctionOnSet(f, s)
                           # f[y] + SumFunctionOnSet(f, s \ {y})
      BY <2>2
    <2> DEFINE c == Chosen(s)
    <2>4. IsFiniteSet(s) /\ s # {}
      BY <2>3, FS_Subset
    <2>5. c \in s /\ SumFunctionOnSet(f, s) = f[c] + SumFunctionOnSet(f, s \ {c})
      BY <2>4, SumStepIs
    <2> HIDE DEF c
    <2>6. c # y
      BY <2>3, <2>5
    <2> DEFINE r == s \ {c}
               q == s \ {y}
               p == s \ {c, y}
    <2>7. r \in SUBSET S /\ q \in SUBSET S /\ p \in SUBSET S
          /\ IsFiniteSet(p)
      BY <2>4, FS_Subset
    <2>8. ~Bad(r) /\ ~Bad(q)
      <3>1. r \notin F /\ q \notin F
        BY <2>2, <2>3, <2>5
      <3>2. QED
        BY <3>1, <2>7
    <2>9. SumFunctionOnSet(f, r) = f[y] + SumFunctionOnSet(f, p)
      <3>1. y \in r /\ r \ {y} = p
        BY <2>3, <2>6
      <3>2. QED
        BY <2>8, <3>1
    <2>10. SumFunctionOnSet(f, q) = f[c] + SumFunctionOnSet(f, p)
      <3>1. c \in q /\ q \ {c} = p
        BY <2>5, <2>6
      <3>2. QED
        BY <2>8, <3>1
    <2>11. f[c] \in Int /\ f[y] \in Int /\ SumFunctionOnSet(f, p) \in Int
      BY <2>3, <2>5, <2>7, SumInt
    <2>12. QED
      BY <2>3, <2>5, <2>9, <2>10, <2>11
  <1>2. S \notin F
    BY <1>1
  <1>3. QED
    BY <1>2

\* A member that is added.
LEMMA SumAdded ==
    ASSUME NEW f, NEW S, IsFiniteSet(S), NEW x, x \notin S, f[x] \in Int,
           \A y \in S : f[y] \in Int
    PROVE  SumFunctionOnSet(f, S \cup {x}) = f[x] + SumFunctionOnSet(f, S)
  <1> DEFINE T == S \cup {x}
  <1>1. IsFiniteSet(T) /\ x \in T /\ T \ {x} = S /\ \A y \in T : f[y] \in Int
    BY FS_AddElement
  <1> HIDE DEF T
  <1>2. SumFunctionOnSet(f, T) = f[x] + SumFunctionOnSet(f, T \ {x})
    BY <1>1, SumTake
  <1>3. QED
    BY <1>1, <1>2 DEF T

\* One value that changes.
LEMMA SumChanged ==
    ASSUME NEW e, NEW f, NEW S, IsFiniteSet(S), NEW x \in S,
           \A y \in S : e[y] \in Int /\ f[y] \in Int,
           \A y \in S \ {x} : e[y] = f[y]
    PROVE  SumFunctionOnSet(e, S) = SumFunctionOnSet(f, S) - f[x] + e[x]
  <1>1. IsFiniteSet(S \ {x})
    BY FS_Subset
  <1>2. SumFunctionOnSet(e, S \ {x}) = SumFunctionOnSet(f, S \ {x})
    BY <1>1, SumSame
  <1>3. /\ SumFunctionOnSet(e, S) = e[x] + SumFunctionOnSet(e, S \ {x})
        /\ SumFunctionOnSet(f, S) = f[x] + SumFunctionOnSet(f, S \ {x})
    BY SumTake
  <1>4. SumFunctionOnSet(f, S \ {x}) \in Int
    BY <1>1, SumInt
  <1>5. QED
    BY <1>2, <1>3, <1>4

\* Sums over sets of which one is named by the other, where what has no name counts
\* nothing.
LEMMA SumNamed ==
    ASSUME NEW S, IsFiniteSet(S), NEW T, IsFiniteSet(T), NEW e, NEW f, NEW g,
           \A x \in S : f[x] \in Int /\ g[x] \in T /\ e[g[x]] = f[x],
           \A x, y \in S : g[x] = g[y] => x = y,
           \A t \in T : e[t] = 0 \/ \E x \in S : t = g[x]
    PROVE  SumFunctionOnSet(e, T) = SumFunctionOnSet(f, S)
  <1> DEFINE Names(s) == {x \in S : g[x] \in s}
             F == {s \in SUBSET T : SumFunctionOnSet(e, s) # SumFunctionOnSet(f, Names(s))}
  <1>1. ASSUME F # {} PROVE FALSE
    <2>0. F \subseteq SUBSET T
      OBVIOUS
    <2>1. \E s \in F : \A r \in F : r \subseteq s => r = s
      <3> HIDE DEF F
      <3>1. QED
        BY <1>1, <2>0, Smallest
    <2>2. PICK s \in F : \A r \in F : r \subseteq s => r = s
      BY <2>1
    <2>3. CASE s = {}
      <3>1. Names(s) = {}
        BY <2>3
      <3>2. QED
        BY <2>2, <2>3, <3>1, SumEmpty
    <2>4. CASE s # {}
      <3>1. PICK t, r : t \in s /\ r = s \ {t}
        BY <2>4
      <3>2. IsFiniteSet(s) /\ r \in SUBSET T /\ t \in T
        BY <2>2, <3>1, FS_Subset
      <3>3. \A y \in s : e[y] \in Int
        <4>1. \A y \in T : e[y] \in Int
          OBVIOUS
        <4>2. QED
          BY <2>2, <4>1
      <3>4. SumFunctionOnSet(e, s) = e[t] + SumFunctionOnSet(e, r)
        BY <3>1, <3>2, <3>3, SumTake
      <3>5. SumFunctionOnSet(e, r) = SumFunctionOnSet(f, Names(r))
        BY <2>2, <3>1, <3>2
      <3>6. IsFiniteSet(Names(s)) /\ IsFiniteSet(Names(r))
        BY FS_Subset
      <3>7. CASE \E x \in S : t = g[x]
        <4>1. PICK x \in S : t = g[x]
          BY <3>7
        <4>2. x \in Names(s) /\ Names(s) \ {x} = Names(r)
          BY <3>1, <4>1
        <4>3. \A y \in Names(s) : f[y] \in Int
          OBVIOUS
        <4> HIDE DEF Names
        <4>4. SumFunctionOnSet(f, Names(s)) = f[x] + SumFunctionOnSet(f, Names(r))
          BY <3>6, <4>2, <4>3, SumTake
        <4>5. SumFunctionOnSet(e, s) = SumFunctionOnSet(f, Names(s))
          BY <3>4, <3>5, <4>1, <4>4
        <4>6. QED
          BY <2>2, <4>5 DEF Names
      <3>8. CASE ~ \E x \in S : t = g[x]
        <4>1. e[t] = 0
          BY <3>2, <3>8
        <4>2. Names(s) = Names(r)
          BY <3>1, <3>8
        <4>3. SumFunctionOnSet(f, Names(r)) \in Int
          BY <3>6, SumInt
        <4> HIDE DEF Names
        <4>4. SumFunctionOnSet(e, s) = SumFunctionOnSet(f, Names(s))
          BY <3>4, <3>5, <4>1, <4>2, <4>3
        <4>5. QED
          BY <2>2, <4>4 DEF Names
      <3>9. QED
        BY <3>7, <3>8
    <2>5. QED
      BY <2>3, <2>4
  <1>2. SumFunctionOnSet(e, T) = SumFunctionOnSet(f, Names(T))
    BY <1>1
  <1>3. Names(T) = S
    OBVIOUS
  <1>4. QED
    BY <1>2, <1>3

\* The first of a sequence of terms leaves, the others move up.
LEMMA SumTail ==
    ASSUME NEW n \in Nat \ {0}, NEW e, \A i \in 1 .. n : e[i] \in Int,
           NEW f, \A i \in 1 .. n - 1 : f[i] = e[i + 1]
    PROVE  SumFunctionOnSet(e, 1 .. n) = e[1] + SumFunctionOnSet(f, 1 .. n - 1)
  <1>1. PICK T, R, S : T = 1 .. n /\ R = 2 .. n /\ S = 1 .. n - 1
    OBVIOUS
  <1>2. /\ IsFiniteSet(T) /\ IsFiniteSet(R) /\ IsFiniteSet(S)
        /\ 1 \in T /\ T \ {1} = R /\ \A i \in T : e[i] \in Int
    <2>1. IsFiniteSet(1 .. n) /\ IsFiniteSet(2 .. n) /\ IsFiniteSet(1 .. n - 1)
      BY FS_Interval
    <2>2. 1 \in 1 .. n /\ (1 .. n) \ {1} = 2 .. n
      OBVIOUS
    <2>3. QED
      BY <1>1, <2>1, <2>2
  <1>3. SumFunctionOnSet(e, T) = e[1] + SumFunctionOnSet(e, R)
    BY <1>2, SumTake
  <1>4. PICK g : g = [i \in S |-> i + 1]
    OBVIOUS
  <1>5. \A i \in S : f[i] \in Int /\ g[i] \in R /\ e[g[i]] = f[i]
    BY <1>1, <1>4
  <1>6. \A i, j \in S : g[i] = g[j] => i = j
    BY <1>1, <1>4
  <1>7. \A t \in R : \E i \in S : t = g[i]
    <2>1. ASSUME NEW t \in R PROVE t - 1 \in S /\ t = g[t - 1]
      BY <1>1, <1>4
    <2>2. QED
      BY <2>1
  <1>8. SumFunctionOnSet(e, R) = SumFunctionOnSet(f, S)
    BY <1>2, <1>5, <1>6, <1>7, SumNamed
  <1>9. QED
    BY <1>1, <1>3, <1>8

\* Sums are added term by term.
LEMMA SumOfSums ==
    ASSUME NEW S, IsFiniteSet(S), NEW e, NEW f, NEW g,
           \A x \in S : f[x] \in Int /\ g[x] \in Int /\ e[x] = f[x] + g[x]
    PROVE  SumFunctionOnSet(e, S) = SumFunctionOnSet(f, S) + SumFunctionOnSet(g, S)
  <1> DEFINE F == {s \in SUBSET S : SumFunctionOnSet(e, s)
                                      # SumFunctionOnSet(f, s) + SumFunctionOnSet(g, s)}
  <1>1. ASSUME F # {} PROVE FALSE
    <2>0. F \subseteq SUBSET S
      OBVIOUS
    <2>1. \E s \in F : \A r \in F : r \subseteq s => r = s
      <3> HIDE DEF F
      <3>1. QED
        BY <1>1, <2>0, Smallest
    <2>2. PICK s \in F : \A r \in F : r \subseteq s => r = s
      BY <2>1
    <2>3. CASE s = {}
      BY <2>2, <2>3, SumEmpty
    <2>4. CASE s # {}
      <3>1. PICK x, r : x \in s /\ r = s \ {x}
        BY <2>4
      <3>2. IsFiniteSet(s) /\ IsFiniteSet(r) /\ r \in SUBSET S /\ x \in S
        BY <2>2, <3>1, FS_Subset
      <3>3. \A y \in s : e[y] \in Int /\ f[y] \in Int /\ g[y] \in Int
        BY <2>2
      <3>4. /\ SumFunctionOnSet(e, s) = e[x] + SumFunctionOnSet(e, r)
            /\ SumFunctionOnSet(f, s) = f[x] + SumFunctionOnSet(f, r)
            /\ SumFunctionOnSet(g, s) = g[x] + SumFunctionOnSet(g, r)
        BY <3>1, <3>2, <3>3, SumTake
      <3>5. /\ SumFunctionOnSet(f, r) \in Int /\ SumFunctionOnSet(g, r) \in Int
            /\ SumFunctionOnSet(e, r) = SumFunctionOnSet(f, r) + SumFunctionOnSet(g, r)
        BY <2>2, <3>1, <3>2, SumInt
      <3>6. f[x] \in Int /\ g[x] \in Int /\ e[x] = f[x] + g[x]
        BY <3>2
      <3>7. SumFunctionOnSet(e, s) = SumFunctionOnSet(f, s) + SumFunctionOnSet(g, s)
        BY <3>4, <3>5, <3>6
      <3>8. QED
        BY <2>2, <3>7
    <2>5. QED
      BY <2>3, <2>4
  <1>2. QED
    BY <1>1
-----------------------------------------------------------------------------
(* The place of a number in a finite set of numbers. *)

Lower(S, x) == {y \in S : y < x}

LEMMA Ranks ==
    ASSUME NEW S, IsFiniteSet(S), S \subseteq Int, NEW x \in S
    PROVE  Cardinality(Lower(S, x)) \in 0 .. Cardinality(S) - 1
  <1>1. Lower(S, x) \in SUBSET S /\ x \notin Lower(S, x)
    BY DEF Lower
  <1>2. /\ IsFiniteSet(Lower(S, x)) /\ Cardinality(Lower(S, x)) <= Cardinality(S)
        /\ Cardinality(Lower(S, x)) # Cardinality(S)
    BY <1>1, FS_Subset
  <1>3. Cardinality(Lower(S, x)) \in Nat /\ Cardinality(S) \in Nat
    BY <1>2, FS_CardinalityType
  <1>4. QED
    BY <1>2, <1>3

LEMMA RanksDiffer ==
    ASSUME NEW S, IsFiniteSet(S), S \subseteq Int, NEW x \in S, NEW y \in S, x # y
    PROVE  Cardinality(Lower(S, x)) # Cardinality(Lower(S, y))
  <1>1. ASSUME NEW u \in S, NEW v \in S, u < v
        PROVE  Cardinality(Lower(S, u)) # Cardinality(Lower(S, v))
    <2>1. u \in Int /\ v \in Int
      OBVIOUS
    <2>2. Lower(S, u) \subseteq Lower(S, v)
      <3>1. ASSUME NEW z \in S, z < u PROVE z < v
        <4>1. z \in Int
          OBVIOUS
        <4>2. QED
          BY <1>1, <2>1, <3>1, <4>1
      <3>2. QED
        BY <3>1 DEF Lower
    <2>3. u \in Lower(S, v) /\ u \notin Lower(S, u)
      BY <1>1, <2>1 DEF Lower
    <2>4. IsFiniteSet(Lower(S, v))
      BY FS_Subset DEF Lower
    <2>5. QED
      BY <2>2, <2>3, <2>4, FS_Subset
  <1>2. x \in Int /\ y \in Int
    OBVIOUS
  <1>3. x < y \/ y < x
    BY <1>2
  <1>4. QED
    BY <1>1, <1>3
=============================================================================
