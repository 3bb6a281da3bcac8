---------------------------- MODULE SessionProofs ----------------------------
(****************************************************************************)
(* Symbols have one owner where the exchange locks them, subscribers and     *)
(* nobody else an account, nodes what they asked for, and no node misses a   *)
(* quote once it has read one: for any number of nodes and symbols, whatever *)
(* is under way between them, whoever logs on, dies or comes back.           *)
(*                                                                          *)
(* First what holds of the market, the queues, the subscriptions and the     *)
(* nodes together (SessionsInv), then what the bus and the queues carry      *)
(* (Piped).                                                                 *)
(****************************************************************************)
EXTENDS Session, Arithmetic, SequenceTheorems, TLAPS

-----------------------------------------------------------------------------
(* Offers to several sessions. *)

LEMMA MaxIs ==
    ASSUME NEW s, s \subseteq Nat, IsFiniteSet(s), s # {}
    PROVE  Max(s) \in s
<1>1. Cardinality(s) \in Nat /\ Cardinality(s) # 0
  BY FS_CardinalityType, FS_EmptySet
<1>2. s \subseteq Int /\ 0 \in Nat /\ 0 < Cardinality(s)
  BY <1>1
<1>3. PICK m \in s : Cardinality({x \in s : x > m}) = 0
  BY <1>2, WithAbove
<1>4. IsFiniteSet({x \in s : x > m})
  BY FS_Subset
<1>5. {x \in s : x > m} = {}
  BY <1>3, <1>4, FS_EmptySet
<1>6. \A x \in s : m >= x
  <2>1. ASSUME NEW x \in s PROVE m >= x
    <3>1. ~(x > m) /\ x \in Nat /\ m \in Nat
      BY <1>5
    <3> QED
      BY <3>1
  <2> QED
    BY <2>1
<1> QED
  BY <1>6 DEF Max

\* The offers to the members of s after those to all but its greatest.
OfferStep(g, base, s) ==
    IF s = {} THEN base ELSE MassQuote(g[s \ {Max(s)}], Max(s))

OfferSteps(g, base, T) == g = [s \in SUBSET T |-> OfferStep(g, base, s)]

Unoffered(m) == [market |-> m, toNode |-> toNode, login |-> login]

LEMMA MassQuotesIs ==
    ASSUME NEW m, NEW T
    PROVE  MassQuotes(m, T) = (CHOOSE g : OfferSteps(g, Unoffered(m), T))[T]
  BY DEF MassQuotes, MapThenFoldSet, OfferSteps, OfferStep, Unoffered

LEMMA OfferStepsAt ==
    ASSUME NEW g, NEW base, NEW T, OfferSteps(g, base, T), NEW s, s \subseteq T
    PROVE  g[s] = OfferStep(g, base, s)
  BY DEF OfferSteps

LEMMA OfferStepsAgree ==
    ASSUME NEW base, NEW s, s \subseteq Nat, IsFiniteSet(s),
           NEW T, s \subseteq T, NEW U, s \subseteq U,
           NEW g, OfferSteps(g, base, T), NEW h, OfferSteps(h, base, U)
    PROVE  g[s] = h[s]
<1> DEFINE F == {r \in SUBSET s : g[r] # h[r]}
<1>1. ASSUME F # {} PROVE FALSE
  <2>1. F \subseteq SUBSET s
    OBVIOUS
  <2>2. \E r \in F : \A q \in F : q \subseteq r => q = r
    <3> HIDE DEF F
    <3> QED
      BY ONLY IsFiniteSet(s), <1>1, <2>1, Smallest
  <2>3. PICK r \in F : \A q \in F : q \subseteq r => q = r
    BY <2>2
  <2>4. g[r] = OfferStep(g, base, r) /\ h[r] = OfferStep(h, base, r)
    BY OfferStepsAt
  <2>5. CASE r = {}
    BY <2>4, <2>5 DEF OfferStep
  <2>6. CASE r # {}
    <3> DEFINE q == r \ {Max(r)}
    <3>1. IsFiniteSet(r) /\ r \subseteq Nat
      BY FS_Subset
    <3>2. Max(r) \in r
      BY <2>6, <3>1, MaxIs
    <3>3. q \notin F /\ q \in SUBSET s
      BY <2>3, <3>2
    <3>4. g[q] = h[q]
      BY <3>3
    <3> QED
      BY <2>4, <2>6, <3>4 DEF OfferStep
  <2> QED
    BY <2>5, <2>6
<1> QED
  BY <1>1

\* Every finite set of sessions can be served one by one.
LEMMA OfferStepsExist ==
    ASSUME NEW base, NEW T, T \subseteq Nat, IsFiniteSet(T)
    PROVE  \E g : OfferSteps(g, base, T)
<1> DEFINE F == {s \in SUBSET T : ~ \E g : OfferSteps(g, base, s)}
<1>1. ASSUME F # {} PROVE FALSE
  <2>1. F \subseteq SUBSET T
    OBVIOUS
  <2>2. \E s \in F : \A r \in F : r \subseteq s => r = s
    <3> HIDE DEF F
    <3> QED
      BY ONLY IsFiniteSet(T), <1>1, <2>1, Smallest
  <2>3. PICK U \in F : \A r \in F : r \subseteq U => r = U
    BY <2>2
  <2> DEFINE steps(s) == CHOOSE g : OfferSteps(g, base, s)
             val(s) == steps(s)[s]
             g == [s \in SUBSET U |->
                      IF s = {} THEN base ELSE MassQuote(val(s \ {Max(s)}), Max(s))]
  <2>4. ASSUME NEW s \in SUBSET U, s # U PROVE OfferSteps(steps(s), base, s)
    <3>1. \E h : OfferSteps(h, base, s)
      BY <2>3, <2>4
    <3> QED
      BY <3>1
  <2> HIDE DEF steps
  <2>5. ASSUME NEW s \in SUBSET U, s # U PROVE g[s] = val(s)
    <3>1. val(s) = OfferStep(steps(s), base, s)
      BY <2>4, <2>5, OfferStepsAt
    <3>2. CASE s = {}
      BY <3>1, <3>2 DEF OfferStep
    <3>3. CASE s # {}
      <4> DEFINE r == s \ {Max(s)}
      <4>1. IsFiniteSet(s) /\ s \subseteq Nat
        BY FS_Subset
      <4>2. Max(s) \in s
        BY <3>3, <4>1, MaxIs
      <4>3. r \in SUBSET U /\ r # U /\ r \subseteq s /\ r \subseteq Nat /\ IsFiniteSet(r)
        BY <4>1, <4>2, FS_Subset
      <4>4. OfferSteps(steps(r), base, r) /\ OfferSteps(steps(s), base, s)
        BY <2>4, <2>5, <4>3
      <4>5. steps(s)[r] = val(r)
        BY <4>3, <4>4, OfferStepsAgree
      <4>6. g[s] = MassQuote(val(r), Max(s))
        BY <3>3
      <4> QED
        BY <3>1, <3>3, <4>5, <4>6 DEF OfferStep
    <3> QED
      BY <3>2, <3>3
  <2>6. ASSUME NEW s \in SUBSET U PROVE g[s] = OfferStep(g, base, s)
    <3>1. CASE s = {}
      BY <3>1 DEF OfferStep
    <3>2. CASE s # {}
      <4> DEFINE r == s \ {Max(s)}
      <4>1. IsFiniteSet(s) /\ s \subseteq Nat
        BY FS_Subset
      <4>2. Max(s) \in s
        BY <3>2, <4>1, MaxIs
      <4>3. r \in SUBSET U /\ r # U
        BY <4>2
      <4>4. g[r] = val(r)
        BY <2>5, <4>3
      <4>5. g[s] = MassQuote(val(r), Max(s))
        BY <3>2
      <4> QED
        BY <3>2, <4>4, <4>5 DEF OfferStep
    <3> QED
      BY <3>1, <3>2
  <2>7. OfferSteps(g, base, U)
    <3>1. g = [s \in SUBSET U |-> g[s]]
      OBVIOUS
    <3> QED
      BY <2>6, <3>1 DEF OfferSteps
  <2> QED
    BY <2>3, <2>7
<1> QED
  BY <1>1

-----------------------------------------------------------------------------
(* The invariant, of any market m, queues q, subscriptions S and nodes N.    *)

Offered == [kind : {"MassQuote"}, codes : SUBSET Codes]
News == [kind : {"Quote"}, code : Codes, delisted : BOOLEAN]
Records == [kind : {"Data"}, code : Codes, number : Nat]
Statuses == [kind : {"Status"}, suspend : BOOLEAN]
Words == [kind : {"Cancel", "Granted"}]
Messages == Offered \cup News \cup Records \cup Statuses \cup Words

Listings == [dia : {"LIST", "DELISTING", "THROWOUT"}, locked : BOOLEAN]
Markets == UNION {[D -> Listings] : D \in SUBSET Codes}
Wishes == SUBSET (Codes \ {0})
Subscriptions == UNION {[D -> Wishes] : D \in SUBSET Nodes}
Queues == [Nodes -> Seq(Messages)]
AllNodes == [Nodes -> NodeRecord]

Locked(m) == {c \in DOMAIN m : m[c].locked}

\* Messages speak of codes that the market has.
Fine(m) ==
    {x \in Messages : /\ x.kind = "MassQuote" => x.codes \subseteq DOMAIN m
                      /\ x.kind = "Quote" => x.code \in DOMAIN m}

Shape(n, m, q, S, v) ==
    /\ q \in Seq(Fine(m)) /\ v \in NodeRecord
    /\ v.down \subseteq DOMAIN v.symbols /\ DOMAIN v.symbols \subseteq DOMAIN m
    /\ v.pc = "off" => q = << >> /\ v = Fresh(n)
    /\ v.pc # "off" => n \in DOMAIN S

\* The cash is granted, or is on its way.
Promised(q, v) == v.applied \/ \E x \in ToSet(q) : x.kind = "Granted"

Served(n, q, S, v) ==
    Promised(q, v) =>
        /\ v.mine # {}
        /\ v.pc # "left" => n \in DOMAIN S /\ S[n] = v.mine

Runs == [kind |-> "Status", suspend |-> FALSE]

Suspends(x) == x.kind = "Status" /\ x.suspend

\* While the trade runs, who is or will be suspended will hear of it.
Told(q, v, halted) ==
    ~halted =>
        /\ v.suspended => \E i \in DOMAIN q : q[i] = Runs
        /\ \A i \in DOMAIN q :
              Suspends(q[i]) => \E j \in DOMAIN q : i < j /\ q[j] = Runs

OffersIn(q) ==
    UNION {x.codes \ {0} : x \in {y \in ToSet(q) : y.kind = "MassQuote"}}

\* What a node is subscribed to, works on, or is being offered.
Claims(n, q, S, v) ==
    (IF n \in DOMAIN S THEN S[n] ELSE {}) \cup v.mine \cup OffersIn(q)

Backed(n, m, q, S, v) == mode.lock => Claims(n, q, S, v) \subseteq Locked(m)

Fit(n, m, q, S, v, halted) ==
    Shape(n, m, q, S, v) /\ Served(n, q, S, v) /\ Told(q, v, halted)
        /\ Backed(n, m, q, S, v)

\* Under LOCKFOREA no two nodes claim the same code.
Apart(q, S, N) ==
    mode.lock =>
        \A n \in Nodes : \A k \in Nodes \ {n} :
            Claims(n, q[n], S, N[n]) \cap Claims(k, q[k], S, N[k]) = {}

Good(m, q, S, N, halted) ==
    /\ m \in Markets /\ q \in Queues /\ S \in Subscriptions /\ N \in AllNodes
    /\ \A n \in Nodes : Fit(n, m, q[n], S, N[n], halted)
    /\ Apart(q, S, N)

-----------------------------------------------------------------------------
(* Partial functions and queues. *)

LEMMA MarketIs ==
    ASSUME NEW m
    PROVE  m \in Markets <=> DOMAIN m \subseteq Codes /\ m \in [DOMAIN m -> Listings]
<1>1. ASSUME m \in Markets PROVE DOMAIN m \subseteq Codes /\ m \in [DOMAIN m -> Listings]
  <2>1. PICK D \in SUBSET Codes : m \in [D -> Listings]
    BY <1>1 DEF Markets
  <2> QED
    BY <2>1
<1>2. ASSUME DOMAIN m \subseteq Codes, m \in [DOMAIN m -> Listings] PROVE m \in Markets
  BY <1>2 DEF Markets
<1> QED
  BY <1>1, <1>2

LEMMA SubscriptionIs ==
    ASSUME NEW S
    PROVE  S \in Subscriptions <=> DOMAIN S \subseteq Nodes /\ S \in [DOMAIN S -> Wishes]
<1>1. ASSUME S \in Subscriptions
      PROVE  DOMAIN S \subseteq Nodes /\ S \in [DOMAIN S -> Wishes]
  <2>1. PICK D \in SUBSET Nodes : S \in [D -> Wishes]
    BY <1>1 DEF Subscriptions
  <2> QED
    BY <2>1
<1>2. ASSUME DOMAIN S \subseteq Nodes, S \in [DOMAIN S -> Wishes] PROVE S \in Subscriptions
  BY <1>2 DEF Subscriptions
<1> QED
  BY <1>1, <1>2

LEMMA BookIs ==
    ASSUME NEW b
    PROVE  b \in Books <=> /\ DOMAIN b \subseteq Codes
                           /\ b \in [DOMAIN b -> {"LIST", "DELISTING"}]
<1>1. ASSUME b \in Books
      PROVE  DOMAIN b \subseteq Codes /\ b \in [DOMAIN b -> {"LIST", "DELISTING"}]
  <2>1. PICK D \in SUBSET Codes : b \in [D -> {"LIST", "DELISTING"}]
    BY <1>1 DEF Books
  <2> QED
    BY <2>1
<1>2. ASSUME DOMAIN b \subseteq Codes, b \in [DOMAIN b -> {"LIST", "DELISTING"}]
      PROVE  b \in Books
  BY <1>2 DEF Books
<1> QED
  BY <1>1, <1>2

LEMMA Grown ==
    ASSUME NEW T, NEW q \in Seq(T), NEW x \in T
    PROVE  /\ Append(q, x) \in Seq(T)
           /\ ToSet(Append(q, x)) = ToSet(q) \cup {x}
<1>1. Append(q, x) \in Seq(T)
  OBVIOUS
<1>2. /\ DOMAIN Append(q, x) = 1..Len(q) + 1 /\ DOMAIN q = 1..Len(q)
      /\ Append(q, x)[Len(q) + 1] = x /\ Len(q) \in Nat
      /\ \A i \in 1..Len(q) : Append(q, x)[i] = q[i]
  OBVIOUS
<1>3. ASSUME NEW y \in ToSet(Append(q, x)) PROVE y \in ToSet(q) \cup {x}
  <2>1. PICK i \in 1..Len(q) + 1 : y = Append(q, x)[i]
    BY <1>2, <1>3 DEF ToSet
  <2>2. i \in 1..Len(q) \/ i = Len(q) + 1
    BY <1>2
  <2> QED
    BY <1>2, <2>1, <2>2 DEF ToSet
<1>4. x \in ToSet(Append(q, x))
  <2>1. Len(q) + 1 \in 1..Len(q) + 1
    BY <1>2
  <2> QED
    BY <1>2, <2>1 DEF ToSet
<1>5. ASSUME NEW y \in ToSet(q) PROVE y \in ToSet(Append(q, x))
  <2>1. PICK i \in 1..Len(q) : y = q[i]
    BY <1>2, <1>5 DEF ToSet
  <2>2. i \in 1..Len(q) + 1
    BY <1>2
  <2> QED
    BY <1>2, <2>1, <2>2 DEF ToSet
<1> QED
  BY <1>1, <1>3, <1>4, <1>5

LEMMA Shrunk ==
    ASSUME NEW T, NEW q \in Seq(T), q # << >>
    PROVE  /\ Tail(q) \in Seq(T) /\ Head(q) \in T
           /\ ToSet(Tail(q)) \subseteq ToSet(q) /\ Head(q) \in ToSet(q)
<1>1. /\ Tail(q) \in Seq(T) /\ Head(q) \in T
      /\ Len(Tail(q)) = Len(q) - 1 /\ \A i \in 1..Len(Tail(q)) : Tail(q)[i] = q[i + 1]
  BY HeadTailProperties
<1>2. /\ DOMAIN q = 1..Len(q) /\ Len(q) \in Nat /\ Len(q) >= 1 /\ Head(q) = q[1]
      /\ DOMAIN Tail(q) = 1..Len(q) - 1
  BY <1>1
<1>3. ASSUME NEW y \in ToSet(Tail(q)) PROVE y \in ToSet(q)
  <2>1. PICK i \in 1..Len(q) - 1 : y = Tail(q)[i]
    BY <1>2, <1>3 DEF ToSet
  <2>2. i + 1 \in 1..Len(q) /\ y = q[i + 1]
    BY <1>1, <1>2, <2>1
  <2> QED
    BY <1>2, <2>2 DEF ToSet
<1>4. Head(q) \in ToSet(q)
  <2>1. 1 \in 1..Len(q)
    BY <1>2
  <2> QED
    BY <1>2, <2>1 DEF ToSet
<1> QED
  BY <1>1, <1>3, <1>4

\* A message that is not a suspension disturbs nothing.
LEMMA ToldGrown ==
    ASSUME NEW T, NEW q \in Seq(T), NEW x \in T, ~Suspends(x),
           NEW v, NEW halted, Told(q, v, halted)
    PROVE  Told(Append(q, x), v, halted)
<1> SUFFICES ASSUME ~halted
             PROVE  /\ v.suspended => \E i \in DOMAIN Append(q, x) : Append(q, x)[i] = Runs
                    /\ \A i \in DOMAIN Append(q, x) :
                          Suspends(Append(q, x)[i]) =>
                              \E j \in DOMAIN Append(q, x) : i < j /\ Append(q, x)[j] = Runs
  BY DEF Told
<1>1. /\ v.suspended => \E i \in DOMAIN q : q[i] = Runs
      /\ \A i \in DOMAIN q : Suspends(q[i]) => \E j \in DOMAIN q : i < j /\ q[j] = Runs
  BY DEF Told
<1>2. /\ DOMAIN Append(q, x) = 1..Len(q) + 1 /\ DOMAIN q = 1..Len(q)
      /\ Append(q, x)[Len(q) + 1] = x /\ Len(q) \in Nat
      /\ \A i \in 1..Len(q) : Append(q, x)[i] = q[i] /\ i \in 1..Len(q) + 1
  OBVIOUS
<1>3. ASSUME NEW i \in DOMAIN Append(q, x), Suspends(Append(q, x)[i])
      PROVE  \E j \in DOMAIN Append(q, x) : i < j /\ Append(q, x)[j] = Runs
  <2>1. i \in 1..Len(q) \/ i = Len(q) + 1
    BY <1>2
  <2>2. i \in 1..Len(q) /\ Suspends(q[i])
    BY <1>2, <1>3, <2>1
  <2>3. PICK j \in DOMAIN q : i < j /\ q[j] = Runs
    BY <1>1, <1>2, <2>2
  <2> QED
    BY <1>2, <2>3
<1>4. v.suspended => \E i \in DOMAIN Append(q, x) : Append(q, x)[i] = Runs
  BY <1>1, <1>2
<1> QED
  BY <1>3, <1>4

\* A node that has handled a message is suspended if that says so, or if it was.
LEMMA ToldShrunk ==
    ASSUME NEW T, NEW q \in Seq(T), q # << >>,
           NEW v, NEW halted, Told(q, v, halted), NEW w,
           w.suspended => Suspends(Head(q)) \/ (v.suspended /\ Head(q).kind # "Status")
    PROVE  Told(Tail(q), w, halted)
<1> SUFFICES ASSUME ~halted
             PROVE  /\ w.suspended => \E i \in DOMAIN Tail(q) : Tail(q)[i] = Runs
                    /\ \A i \in DOMAIN Tail(q) :
                          Suspends(Tail(q)[i]) =>
                              \E j \in DOMAIN Tail(q) : i < j /\ Tail(q)[j] = Runs
  BY DEF Told
<1>1. /\ v.suspended => \E i \in DOMAIN q : q[i] = Runs
      /\ \A i \in DOMAIN q : Suspends(q[i]) => \E j \in DOMAIN q : i < j /\ q[j] = Runs
  BY DEF Told
<1>2. Len(Tail(q)) = Len(q) - 1 /\ \A i \in 1..Len(Tail(q)) : Tail(q)[i] = q[i + 1]
  BY HeadTailProperties
<1>3. /\ DOMAIN q = 1..Len(q) /\ Len(q) \in Nat /\ Len(q) >= 1 /\ Head(q) = q[1]
      /\ DOMAIN Tail(q) = 1..Len(q) - 1 /\ 1 \in DOMAIN q
  BY <1>2
<1>4. ASSUME NEW j \in DOMAIN q, j > 1
      PROVE  j - 1 \in DOMAIN Tail(q) /\ Tail(q)[j - 1] = q[j]
  <2>1. j \in Nat /\ j - 1 \in 1..Len(q) - 1
    BY <1>3, <1>4
  <2>2. (j - 1) + 1 = j
    BY <2>1
  <2> QED
    BY <1>2, <1>3, <2>1, <2>2
<1>5. ASSUME w.suspended PROVE \E i \in DOMAIN Tail(q) : Tail(q)[i] = Runs
  <2>1. CASE Suspends(Head(q))
    <3>1. PICK j \in DOMAIN q : 1 < j /\ q[j] = Runs
      BY <1>1, <1>3, <2>1
    <3>2. j > 1
      BY <1>3, <3>1
    <3> QED
      BY <1>4, <3>1, <3>2
  <2>2. CASE v.suspended /\ Head(q).kind # "Status"
    <3>1. PICK j \in DOMAIN q : q[j] = Runs
      BY <1>1, <2>2
    <3>2. j # 1
      BY <1>3, <2>2, <3>1 DEF Runs
    <3>3. j > 1
      BY <1>3, <3>2
    <3> QED
      BY <1>4, <3>1, <3>3
  <2> QED
    BY <1>5, <2>1, <2>2
<1>6. ASSUME NEW i \in DOMAIN Tail(q), Suspends(Tail(q)[i])
      PROVE  \E j \in DOMAIN Tail(q) : i < j /\ Tail(q)[j] = Runs
  <2>1. i \in Nat /\ i >= 1 /\ i + 1 \in DOMAIN q /\ Tail(q)[i] = q[i + 1]
    BY <1>2, <1>3
  <2>2. PICK j \in DOMAIN q : i + 1 < j /\ q[j] = Runs
    BY <1>1, <1>6, <2>1
  <2>3. j \in Nat /\ j > 1 /\ i < j - 1
    BY <1>3, <2>1, <2>2
  <2> QED
    BY <1>4, <2>2, <2>3
<1> QED
  BY <1>5, <1>6

LEMMA OffersGrown ==
    ASSUME NEW T, NEW q \in Seq(T), NEW x \in T
    PROVE  OffersIn(Append(q, x)) =
               OffersIn(q) \cup (IF x.kind = "MassQuote" THEN x.codes \ {0} ELSE {})
<1>1. ToSet(Append(q, x)) = ToSet(q) \cup {x}
  BY Grown
<1> QED
  BY <1>1 DEF OffersIn

-----------------------------------------------------------------------------
(* What keeps the invariant. *)

LEMMA FineGrown ==
    ASSUME NEW m, NEW k, DOMAIN m \subseteq DOMAIN k, NEW q \in Seq(Fine(m))
    PROVE  q \in Seq(Fine(k))
<1>1. Fine(m) \subseteq Fine(k)
  BY DEF Fine
<1>2. /\ \A i \in 1..Len(q) : q[i] \in Fine(k)
      /\ q = [i \in 1..Len(q) |-> q[i]] /\ Len(q) \in Nat
  BY <1>1
<1> QED
  BY <1>2, IsASeq

\* The market grows, codes are locked.
LEMMA FitMarket ==
    ASSUME NEW n, NEW m, NEW k, NEW q, NEW S, NEW v, NEW halted,
           DOMAIN m \subseteq DOMAIN k, Locked(m) \subseteq Locked(k),
           Fit(n, m, q, S, v, halted)
    PROVE  Fit(n, k, q, S, v, halted)
<1>1. q \in Seq(Fine(k))
  BY FineGrown DEF Fit, Shape
<1>2. Shape(n, k, q, S, v)
  BY <1>1 DEF Fit, Shape
<1>3. Backed(n, k, q, S, v)
  BY DEF Fit, Backed
<1> QED
  BY <1>2, <1>3 DEF Fit

LEMMA GoodMarket ==
    ASSUME NEW m, NEW q, NEW S, NEW N, NEW halted, Good(m, q, S, N, halted),
           NEW k \in Markets, DOMAIN m \subseteq DOMAIN k, Locked(m) \subseteq Locked(k)
    PROVE  Good(k, q, S, N, halted)
<1>1. \A n \in Nodes : Fit(n, k, q[n], S, N[n], halted)
  <2>1. ASSUME NEW n \in Nodes PROVE Fit(n, k, q[n], S, N[n], halted)
    <3>1. Fit(n, m, q[n], S, N[n], halted)
      BY DEF Good
    <3> QED
      BY <3>1, FitMarket
  <2> QED
    BY <2>1
<1> QED
  BY <1>1 DEF Good

\* A message that offers nothing.
LEMMA FitGrown ==
    ASSUME NEW n, NEW m, NEW q, NEW S, NEW v, NEW halted, Fit(n, m, q, S, v, halted),
           v.pc # "off", NEW x \in Fine(m), ~Suspends(x), x.kind # "MassQuote",
           x.kind = "Granted" => v.mine # {} /\ n \in DOMAIN S /\ S[n] = v.mine
    PROVE  /\ Fit(n, m, Append(q, x), S, v, halted)
           /\ Claims(n, Append(q, x), S, v) = Claims(n, q, S, v)
<1>0. q \in Seq(Fine(m))
  BY DEF Fit, Shape
<1>1. Append(q, x) \in Seq(Fine(m)) /\ ToSet(Append(q, x)) = ToSet(q) \cup {x}
  BY <1>0, Grown
<1>2. OffersIn(Append(q, x)) = OffersIn(q)
  <2>1. OffersIn(Append(q, x)) =
            OffersIn(q) \cup (IF x.kind = "MassQuote" THEN x.codes \ {0} ELSE {})
    BY <1>0, OffersGrown
  <2> QED
    BY <2>1
<1>3. Claims(n, Append(q, x), S, v) = Claims(n, q, S, v)
  BY <1>2 DEF Claims
<1>4. Shape(n, m, Append(q, x), S, v)
  BY <1>1 DEF Fit, Shape
<1>5. Served(n, Append(q, x), S, v)
  BY <1>1 DEF Fit, Served, Promised
<1>6. Told(Append(q, x), v, halted)
  BY <1>0, ToldGrown DEF Fit
<1>7. Backed(n, m, Append(q, x), S, v)
  BY <1>3 DEF Fit, Backed
<1> QED
  BY <1>3, <1>4, <1>5, <1>6, <1>7 DEF Fit

\* An offer of codes that, under LOCKFOREA, are locked for it.
LEMMA FitOffer ==
    ASSUME NEW n, NEW m, NEW q, NEW S, NEW v, NEW halted, Fit(n, m, q, S, v, halted),
           v.pc # "off", NEW o, [kind |-> "MassQuote", codes |-> o] \in Fine(m),
           mode.lock => o \ {0} \subseteq Locked(m)
    PROVE  LET new == Append(q, [kind |-> "MassQuote", codes |-> o])
           IN  /\ Fit(n, m, new, S, v, halted)
               /\ Claims(n, new, S, v) = Claims(n, q, S, v) \cup (o \ {0})
<1> DEFINE x == [kind |-> "MassQuote", codes |-> o]
           new == Append(q, x)
<1>0. q \in Seq(Fine(m)) /\ x \in Fine(m) /\ x.kind = "MassQuote" /\ x.codes = o
  BY DEF Fit, Shape
<1>a. ~Suspends(x) /\ x.kind # "Granted"
  BY DEF Suspends
<1> HIDE DEF x
<1>1. new \in Seq(Fine(m)) /\ ToSet(new) = ToSet(q) \cup {x}
  BY <1>0, Grown
<1>2. OffersIn(new) = OffersIn(q) \cup (o \ {0})
  BY <1>0, OffersGrown
<1>3. Told(new, v, halted)
  BY <1>0, <1>a, ToldGrown DEF Fit
<1> HIDE DEF new
<1>4. Claims(n, new, S, v) = Claims(n, q, S, v) \cup (o \ {0})
  BY <1>2 DEF Claims
<1>5. Shape(n, m, new, S, v)
  BY <1>1 DEF Fit, Shape
<1>6. Served(n, new, S, v)
  BY <1>a, <1>1 DEF Fit, Served, Promised
<1>7. Backed(n, m, new, S, v)
  BY <1>4 DEF Fit, Backed
<1>8. Fit(n, m, new, S, v, halted) /\ Claims(n, new, S, v) = Claims(n, q, S, v) \cup (o \ {0})
  BY <1>3, <1>4, <1>5, <1>6, <1>7 DEF Fit
<1> QED
  BY <1>8 DEF new, x

\* The subscriptions of the others.
SameButFor(n, S, Z) ==
    \A k \in Nodes \ {n} : /\ k \in DOMAIN Z <=> k \in DOMAIN S
                           /\ k \in DOMAIN S => Z[k] = S[k]

\* One node, its queue and its subscription change; it claims codes that it had
\* claimed or that nobody had.
LEMMA GoodOne ==
    ASSUME NEW m, NEW q, NEW S, NEW N, NEW halted, Good(m, q, S, N, halted),
           NEW n \in Nodes, NEW w \in Seq(Messages), NEW v \in NodeRecord,
           NEW Z \in Subscriptions, SameButFor(n, S, Z),
           NEW k \in Markets, DOMAIN m \subseteq DOMAIN k, Locked(m) \subseteq Locked(k),
           Fit(n, k, w, Z, v, halted),
           NEW X, mode.lock => X \cap Locked(m) = {},
           mode.lock => Claims(n, w, Z, v) \subseteq Claims(n, q[n], S, N[n]) \cup X
    PROVE  Good(k, [q EXCEPT ![n] = w], Z, [N EXCEPT ![n] = v], halted)
<1> DEFINE r == [q EXCEPT ![n] = w]
           M == [N EXCEPT ![n] = v]
<1>0. Good(k, q, S, N, halted)
  BY GoodMarket
<1>1. q \in Queues /\ N \in AllNodes /\ \A i \in Nodes : Fit(i, k, q[i], S, N[i], halted)
  BY <1>0 DEF Good
<1>2. r \in Queues /\ r[n] = w /\ \A i \in Nodes \ {n} : r[i] = q[i]
  BY <1>1 DEF Queues
<1>3. M \in AllNodes /\ M[n] = v /\ \A i \in Nodes \ {n} : M[i] = N[i]
  BY <1>1 DEF AllNodes
<1> HIDE DEF r, M
<1>4. ASSUME NEW i \in Nodes \ {n}
      PROVE  Claims(i, r[i], Z, M[i]) = Claims(i, q[i], S, N[i])
  <2>1. (i \in DOMAIN Z <=> i \in DOMAIN S) /\ (i \in DOMAIN S => Z[i] = S[i])
    BY DEF SameButFor
  <2> QED
    BY <1>2, <1>3, <2>1 DEF Claims
<1>5. ASSUME NEW i \in Nodes PROVE Fit(i, k, r[i], Z, M[i], halted)
  <2>1. CASE i = n
    BY <1>2, <1>3, <2>1
  <2>2. CASE i \in Nodes \ {n}
    <3>1. (i \in DOMAIN Z <=> i \in DOMAIN S) /\ (i \in DOMAIN S => Z[i] = S[i])
      BY <2>2 DEF SameButFor
    <3>2. Fit(i, k, q[i], S, N[i], halted) /\ r[i] = q[i] /\ M[i] = N[i]
      BY <1>1, <1>2, <1>3, <2>2
    <3>3. Shape(i, k, r[i], Z, M[i])
      BY <3>1, <3>2 DEF Fit, Shape
    <3>4. Served(i, r[i], Z, M[i])
      BY <3>1, <3>2 DEF Fit, Served
    <3>5. Told(r[i], M[i], halted)
      BY <3>2 DEF Fit
    <3>6. Backed(i, k, r[i], Z, M[i])
      BY <1>4, <2>2, <3>2 DEF Fit, Backed
    <3> QED
      BY <3>3, <3>4, <3>5, <3>6 DEF Fit
  <2> QED
    BY <2>1, <2>2
<1>6. Apart(r, Z, M)
  <2> SUFFICES ASSUME mode.lock, NEW i \in Nodes, NEW j \in Nodes \ {i}
               PROVE  Claims(i, r[i], Z, M[i]) \cap Claims(j, r[j], Z, M[j]) = {}
    BY DEF Apart
  <2>1. \A a \in Nodes : \A b \in Nodes \ {a} :
           Claims(a, q[a], S, N[a]) \cap Claims(b, q[b], S, N[b]) = {}
    BY DEF Good, Apart
  <2>2. \A a \in Nodes : Claims(a, q[a], S, N[a]) \subseteq Locked(m)
    <3>1. \A a \in Nodes : Fit(a, m, q[a], S, N[a], halted)
      BY DEF Good
    <3> QED
      BY <3>1 DEF Fit, Backed
  <2>3. /\ X \cap Locked(m) = {}
        /\ Claims(n, r[n], Z, M[n]) \subseteq Claims(n, q[n], S, N[n]) \cup X
    BY <1>2, <1>3
  <2>4. CASE i = n
    <3>1. j \in Nodes \ {n} /\ n \in Nodes \ {j}
      BY <2>4
    <3>2. /\ Claims(j, r[j], Z, M[j]) = Claims(j, q[j], S, N[j])
          /\ Claims(j, q[j], S, N[j]) \subseteq Locked(m)
          /\ Claims(n, q[n], S, N[n]) \cap Claims(j, q[j], S, N[j]) = {}
      BY <1>4, <2>1, <2>2, <3>1
    <3> QED
      BY <2>3, <2>4, <3>2
  <2>5. CASE j = n
    <3>1. i \in Nodes \ {n} /\ n \in Nodes \ {i}
      BY <2>5
    <3>2. /\ Claims(i, r[i], Z, M[i]) = Claims(i, q[i], S, N[i])
          /\ Claims(i, q[i], S, N[i]) \subseteq Locked(m)
          /\ Claims(n, q[n], S, N[n]) \cap Claims(i, q[i], S, N[i]) = {}
      BY <1>4, <2>1, <2>2, <3>1
    <3> QED
      BY <2>3, <2>5, <3>2
  <2>6. CASE i # n /\ j # n
    BY <1>4, <2>1, <2>6
  <2> QED
    BY <2>4, <2>5, <2>6
<1>7. Good(k, r, Z, M, halted)
  BY <1>2, <1>3, <1>5, <1>6 DEF Good
<1> QED
  BY <1>7 DEF r, M

\* A message that offers nothing, to any nodes.
LEMMA GoodBroadcast ==
    ASSUME NEW m, NEW q, NEW S, NEW N, NEW halted, Good(m, q, S, N, halted),
           NEW x \in Fine(m), ~Suspends(x), x.kind \notin {"MassQuote", "Granted"},
           NEW r, r = [n \in Nodes |-> r[n]],
           \A n \in Nodes : r[n] = q[n] \/ (r[n] = Append(q[n], x) /\ N[n].pc # "off")
    PROVE  Good(m, r, S, N, halted)
<1>1. ASSUME NEW n \in Nodes
      PROVE  /\ Fit(n, m, r[n], S, N[n], halted)
             /\ Claims(n, r[n], S, N[n]) = Claims(n, q[n], S, N[n])
  <2>1. Fit(n, m, q[n], S, N[n], halted)
    BY DEF Good
  <2>2. CASE r[n] = q[n]
    BY <2>1, <2>2
  <2>3. CASE r[n] = Append(q[n], x) /\ N[n].pc # "off"
    <3>1. x.kind # "MassQuote" /\ x.kind # "Granted"
      OBVIOUS
    <3>2. /\ Fit(n, m, Append(q[n], x), S, N[n], halted)
          /\ Claims(n, Append(q[n], x), S, N[n]) = Claims(n, q[n], S, N[n])
      BY <2>1, <2>3, <3>1, FitGrown
    <3> QED
      BY <2>3, <3>2
  <2> QED
    BY <2>2, <2>3
<1>2. r \in Queues
  <2>1. \A n \in Nodes : r[n] \in Seq(Messages)
    <3>1. ASSUME NEW n \in Nodes PROVE r[n] \in Seq(Messages)
      <4>1. q[n] \in Seq(Messages) /\ x \in Messages
        BY DEF Good, Queues, Fine
      <4>2. Append(q[n], x) \in Seq(Messages)
        BY <4>1
      <4> QED
        BY <4>1, <4>2
    <3> QED
      BY <3>1
  <2> QED
    BY <2>1 DEF Queues
<1>3. Apart(r, S, N)
  BY <1>1 DEF Good, Apart
<1> QED
  BY <1>1, <1>2, <1>3 DEF Good

-----------------------------------------------------------------------------
(* Quotes of one code in a queue. *)

IsQuoteOf(x, c) == x.kind = "Data" /\ x.code = c

\* The quotes of c in s are those from a + 1 to b, in order: k counts them.
Counted(k, s, c) ==
    \A i \in 1..Len(s) :
        IF IsQuoteOf(s[i], c) THEN k[i] = k[i - 1] + 1 /\ s[i].number = k[i]
        ELSE k[i] = k[i - 1]

Steady(s, c, a, b) ==
    \E k \in [0..Len(s) -> Nat] : k[0] = a /\ k[Len(s)] = b /\ Counted(k, s, c)

LEMMA SteadyEmpty ==
    ASSUME NEW c, NEW a \in Nat
    PROVE  Steady(<< >>, c, a, a)
<1> DEFINE k == [i \in 0..0 |-> a]
<1>1. Len(<< >>) = 0 /\ 1..0 = {}
  OBVIOUS
<1>2. k \in [0..0 -> Nat] /\ k[0] = a
  OBVIOUS
<1> HIDE DEF k
<1>3. Counted(k, << >>, c)
  BY <1>1 DEF Counted
<1> QED
  BY <1>1, <1>2, <1>3 DEF Steady

LEMMA SteadyMore ==
    ASSUME NEW T, NEW s \in Seq(T), NEW x \in T, NEW c, NEW a, NEW b, Steady(s, c, a, b)
    PROVE  /\ a \in Nat /\ b \in Nat
           /\ ~IsQuoteOf(x, c) => Steady(Append(s, x), c, a, b)
           /\ IsQuoteOf(x, c) /\ x.number = b + 1 => Steady(Append(s, x), c, a, b + 1)
<1>1. PICK k \in [0..Len(s) -> Nat] : k[0] = a /\ k[Len(s)] = b /\ Counted(k, s, c)
  BY DEF Steady
<1> DEFINE L == Len(s)
           r == Append(s, x)
<1>2. /\ L \in Nat /\ Len(r) = L + 1 /\ r[L + 1] = x
      /\ \A i \in 1..L : r[i] = s[i]
  OBVIOUS
<1>3. a \in Nat /\ b \in Nat
  BY <1>1, <1>2
<1> HIDE DEF r
<1>4. ASSUME NEW e \in Nat,
             IF IsQuoteOf(x, c) THEN e = b + 1 /\ x.number = e ELSE e = b
      PROVE  Steady(r, c, a, e)
  <2> DEFINE h == [i \in 0..L + 1 |-> IF i = L + 1 THEN e ELSE k[i]]
  <2>1. h \in [0..L + 1 -> Nat]
    BY <1>1, <1>2
  <2>2. h[0] = a /\ h[L + 1] = e /\ h[L] = b
    BY <1>1, <1>2
  <2>3. \A i \in 1..L : h[i] = k[i] /\ h[i - 1] = k[i - 1]
    BY <1>2
  <2> HIDE DEF h
  <2>4. Counted(h, r, c)
    <3> SUFFICES ASSUME NEW i \in 1..L + 1
                 PROVE  IF IsQuoteOf(r[i], c) THEN h[i] = h[i - 1] + 1 /\ r[i].number = h[i]
                        ELSE h[i] = h[i - 1]
      BY <1>2 DEF Counted
    <3>1. CASE i \in 1..L
      BY <1>1, <1>2, <2>3, <3>1 DEF Counted
    <3>2. CASE i = L + 1
      <4>1. i - 1 = L
        BY <1>2, <3>2
      <4> QED
        BY <1>2, <1>4, <2>2, <3>2, <4>1
    <3> QED
      BY <1>2, <3>1, <3>2
  <2> QED
    BY <1>2, <2>1, <2>2, <2>4 DEF Steady
<1>5. ~IsQuoteOf(x, c) => Steady(r, c, a, b)
  BY <1>3, <1>4
<1>6. IsQuoteOf(x, c) /\ x.number = b + 1 => Steady(r, c, a, b + 1)
  BY <1>3, <1>4
<1> QED
  BY <1>3, <1>5, <1>6 DEF r

LEMMA SteadyLess ==
    ASSUME NEW T, NEW s \in Seq(T), s # << >>, NEW c, NEW a, NEW b, Steady(s, c, a, b)
    PROVE  /\ a \in Nat /\ b \in Nat
           /\ ~IsQuoteOf(Head(s), c) => Steady(Tail(s), c, a, b)
           /\ IsQuoteOf(Head(s), c) => Head(s).number = a + 1 /\ Steady(Tail(s), c, a + 1, b)
<1>1. PICK k \in [0..Len(s) -> Nat] : k[0] = a /\ k[Len(s)] = b /\ Counted(k, s, c)
  BY DEF Steady
<1> DEFINE L == Len(s) - 1
           r == Tail(s)
           h == [i \in 0..L |-> k[i + 1]]
<1>2. Len(r) = Len(s) - 1 /\ \A i \in 1..Len(r) : r[i] = s[i + 1]
  BY HeadTailProperties
<1>3. L \in Nat /\ Len(s) = L + 1 /\ Len(r) = L /\ Head(s) = s[1] /\ 1 \in 1..Len(s)
  BY <1>2
<1>4. a \in Nat /\ b \in Nat /\ k[1] \in Nat
  BY <1>1, <1>3
<1>5. h \in [0..L -> Nat] /\ h[0] = k[1] /\ h[L] = b
  BY <1>1, <1>3
<1>6. \A i \in 1..L : /\ h[i] = k[i + 1] /\ h[i - 1] = k[i] /\ r[i] = s[i + 1]
                      /\ i + 1 \in 1..Len(s) /\ (i + 1) - 1 = i
  BY <1>2, <1>3
<1> HIDE DEF h, r, L
<1>7. Counted(h, r, c)
  <2> SUFFICES ASSUME NEW i \in 1..L
               PROVE  IF IsQuoteOf(r[i], c) THEN h[i] = h[i - 1] + 1 /\ r[i].number = h[i]
                      ELSE h[i] = h[i - 1]
    BY <1>3 DEF Counted
  <2>1. IF IsQuoteOf(s[i + 1], c)
        THEN k[i + 1] = k[(i + 1) - 1] + 1 /\ s[i + 1].number = k[i + 1]
        ELSE k[i + 1] = k[(i + 1) - 1]
    BY <1>1, <1>6 DEF Counted
  <2> QED
    BY <1>6, <2>1
<1>8. Steady(r, c, k[1], b)
  BY <1>3, <1>5, <1>7 DEF Steady
<1>9. IF IsQuoteOf(s[1], c) THEN k[1] = k[0] + 1 /\ s[1].number = k[1] ELSE k[1] = k[0]
  BY <1>1, <1>3 DEF Counted
<1> QED
  BY <1>1, <1>3, <1>4, <1>8, <1>9 DEF r

\* r has the quotes of q, and no word that ends all unless q has one.
NoCancel(q) == \A x \in ToSet(q) : x.kind # "Cancel"

Alike(q, r) ==
    \A c \in Codes : \A a \in Nat : \A b \in Nat : Steady(q, c, a, b) => Steady(r, c, a, b)

Calm(q, r) == Alike(q, r) /\ (NoCancel(q) => NoCancel(r))

LEMMA CalmSame ==
    ASSUME NEW q
    PROVE  Calm(q, q)
BY DEF Calm, Alike

LEMMA CalmOn ==
    ASSUME NEW p, NEW q, NEW r, Calm(p, q), Calm(q, r)
    PROVE  Calm(p, r)
BY DEF Calm, Alike

LEMMA CalmMore ==
    ASSUME NEW T, NEW q \in Seq(T), NEW x \in T, x.kind # "Data"
    PROVE  /\ Alike(q, Append(q, x))
           /\ x.kind # "Cancel" => Calm(q, Append(q, x))
<1>1. Alike(q, Append(q, x))
  <2> SUFFICES ASSUME NEW c \in Codes, NEW a \in Nat, NEW b \in Nat, Steady(q, c, a, b)
               PROVE  Steady(Append(q, x), c, a, b)
    BY DEF Alike
  <2>1. ~IsQuoteOf(x, c)
    BY DEF IsQuoteOf
  <2> QED
    BY <2>1, SteadyMore
<1>2. ToSet(Append(q, x)) = ToSet(q) \cup {x}
  BY Grown
<1> QED
  BY <1>1, <1>2 DEF Calm, NoCancel

LEMMA AlikeLess ==
    ASSUME NEW T, NEW q \in Seq(T), q # << >>, Head(q).kind # "Data"
    PROVE  Alike(q, Tail(q))
<1> SUFFICES ASSUME NEW c \in Codes, NEW a \in Nat, NEW b \in Nat, Steady(q, c, a, b)
             PROVE  Steady(Tail(q), c, a, b)
  BY DEF Alike
<1>1. ~IsQuoteOf(Head(q), c)
  BY DEF IsQuoteOf
<1> QED
  BY <1>1, SteadyLess

-----------------------------------------------------------------------------
(* Offers keep it. *)

Exchanges == [market : Markets, toNode : Queues, login : SUBSET Nodes]

\* What offers have made of a market with the codes of m, and of the queues q.
Sound(s, m, q, S, N, halted) ==
    /\ s \in Exchanges /\ DOMAIN s.market = DOMAIN m
    /\ Good(s.market, s.toNode, S, N, halted)
    /\ \A n \in Nodes : Calm(q[n], s.toNode[n])

LEMMA LockIs ==
    ASSUME NEW m \in Markets, NEW o, o \subseteq DOMAIN m
    PROVE  /\ Lock(m, o) \in Markets /\ DOMAIN Lock(m, o) = DOMAIN m
           /\ Locked(m) \subseteq Locked(Lock(m, o))
           /\ mode.lock => o \ {0} \subseteq Locked(Lock(m, o))
<1>1. DOMAIN m \subseteq Codes /\ m \in [DOMAIN m -> Listings]
  BY MarketIs
<1>2. ASSUME NEW c \in DOMAIN m
      PROVE  /\ m[c] \in Listings /\ [m[c] EXCEPT !.locked = TRUE] \in Listings
             /\ [m[c] EXCEPT !.locked = TRUE].locked
  BY <1>1 DEF Listings
<1> DEFINE k == Lock(m, o)
<1>3. /\ DOMAIN k = DOMAIN m
      /\ \A c \in DOMAIN m :
            k[c] = IF mode.lock /\ c \in o \ {0} THEN [m[c] EXCEPT !.locked = TRUE]
                   ELSE m[c]
      /\ k = [c \in DOMAIN m |-> k[c]]
  BY DEF Lock
<1> HIDE DEF k
<1>4. k \in Markets
  <2>1. \A c \in DOMAIN m : k[c] \in Listings
    BY <1>2, <1>3
  <2>2. DOMAIN k \subseteq Codes /\ k \in [DOMAIN k -> Listings]
    BY <1>1, <1>3, <2>1
  <2> QED
    BY <2>2, MarketIs
<1>5. Locked(m) \subseteq Locked(k)
  BY <1>2, <1>3 DEF Locked
<1>6. mode.lock => o \ {0} \subseteq Locked(k)
  BY <1>2, <1>3 DEF Locked
<1> QED
  BY <1>3, <1>4, <1>5, <1>6 DEF k

LEMMA OfferIs ==
    ASSUME NEW m
    PROVE  Offer(m) \subseteq DOMAIN m /\ Offer(m) \cap Locked(m) = {}
BY DEF Offer, Locked

\* Everybody who sends or does not send sees who is logged on.
Sees(N) == \A n \in Nodes : Online(n) <=> N[n].pc # "off"

\* An offer is not a quote.
LEMMA MassQuoteCalm ==
    ASSUME NEW s \in Exchanges, NEW n \in Nodes, NEW k \in Nodes
    PROVE  Calm(s.toNode[k], MassQuote(s, n).toNode[k])
<1> DEFINE o == Offer(s.market)
           l == Lock(s.market, o)
           x == [kind |-> "MassQuote", codes |-> o]
<1>1. /\ s.market \in Markets /\ s.toNode \in Queues
      /\ s = [market |-> s.market, toNode |-> s.toNode, login |-> s.login]
  BY DEF Exchanges
<1>2. x \in Messages /\ x.kind = "MassQuote"
  <2>1. o \subseteq Codes
    BY <1>1, OfferIs, MarketIs
  <2> QED
    BY <2>1 DEF Messages, Offered
<1>3. \/ MassQuote(s, n) = [s EXCEPT !.market = l, !.login = s.login \cup {n}]
      \/ MassQuote(s, n) = [s EXCEPT !.market = l, !.toNode = Sent(s.toNode, n, x)]
  BY DEF MassQuote
<1> HIDE DEF o, l, x
<1>4. MassQuote(s, n).toNode = s.toNode \/ MassQuote(s, n).toNode = Sent(s.toNode, n, x)
  BY <1>1, <1>3
<1>5. \/ MassQuote(s, n).toNode[k] = s.toNode[k]
      \/ MassQuote(s, n).toNode[k] = Append(s.toNode[k], x)
  BY <1>1, <1>4 DEF Sent, Queues
<1>6. s.toNode[k] \in Seq(Messages)
  BY <1>1 DEF Queues
<1> QED
  BY <1>2, <1>5, <1>6, CalmSame, CalmMore

LEMMA MassQuoteTyped ==
    ASSUME NEW s \in Exchanges, NEW n \in Nodes
    PROVE  /\ MassQuote(s, n) \in Exchanges
           /\ DOMAIN MassQuote(s, n).market = DOMAIN s.market
<1> DEFINE o == Offer(s.market)
           l == Lock(s.market, o)
           x == [kind |-> "MassQuote", codes |-> o]
           r == Sent(s.toNode, n, x)
           g == s.login \cup {n}
<1>1. /\ s.market \in Markets /\ s.toNode \in Queues /\ s.login \in SUBSET Nodes
      /\ s = [market |-> s.market, toNode |-> s.toNode, login |-> s.login]
  BY DEF Exchanges
<1>2. l \in Markets /\ DOMAIN l = DOMAIN s.market
  BY <1>1, OfferIs, LockIs
<1>3. x \in Messages
  <2>1. o \subseteq Codes
    BY <1>1, OfferIs, MarketIs
  <2> QED
    BY <2>1 DEF Messages, Offered
<1>4. MassQuote(s, n) = [s EXCEPT !.market = l, !.login = g]
      \/ MassQuote(s, n) = [s EXCEPT !.market = l, !.toNode = r]
  BY DEF MassQuote
<1> HIDE DEF o, l, x
<1>5. r \in Queues
  BY <1>1, <1>3 DEF Sent, Queues
<1>6. g \in SUBSET Nodes
  BY <1>1
<1> HIDE DEF r, g
<1> QED
  BY <1>1, <1>2, <1>4, <1>5, <1>6 DEF Exchanges

LEMMA MassQuoteKeeps ==
    ASSUME NEW m, NEW q, NEW S, NEW N, NEW halted, Sees(N),
           NEW s, Sound(s, m, q, S, N, halted), NEW n \in Nodes
    PROVE  Sound(MassQuote(s, n), m, q, S, N, halted)
<1>0. \A k \in Nodes : Calm(q[k], MassQuote(s, n).toNode[k])
  <2>1. ASSUME NEW k \in Nodes PROVE Calm(q[k], MassQuote(s, n).toNode[k])
    <3>1. s \in Exchanges /\ Calm(q[k], s.toNode[k])
      BY DEF Sound
    <3>2. Calm(s.toNode[k], MassQuote(s, n).toNode[k])
      BY <3>1, MassQuoteCalm
    <3> QED
      BY <3>1, <3>2, CalmOn
  <2> QED
    BY <2>1
<1> DEFINE o == Offer(s.market)
           k == Lock(s.market, o)
           x == [kind |-> "MassQuote", codes |-> o]
           w == Append(s.toNode[n], x)
<1>1. /\ s \in Exchanges /\ DOMAIN s.market = DOMAIN m
      /\ Good(s.market, s.toNode, S, N, halted)
  BY DEF Sound
<1>2. /\ s.market \in Markets /\ s.toNode \in Queues /\ s.login \in SUBSET Nodes
      /\ s = [market |-> s.market, toNode |-> s.toNode, login |-> s.login]
  BY <1>1 DEF Exchanges
<1>3. o \subseteq DOMAIN s.market /\ o \cap Locked(s.market) = {}
  BY OfferIs
<1>4. /\ k \in Markets /\ DOMAIN k = DOMAIN m
      /\ Locked(s.market) \subseteq Locked(k)
      /\ mode.lock => o \ {0} \subseteq Locked(k)
  BY <1>1, <1>2, <1>3, LockIs
<1>5. Good(k, s.toNode, S, N, halted)
  BY <1>1, <1>4, GoodMarket
<1>6. CASE Cardinality(o) <= 1
  <2>1. MassQuote(s, n) = [s EXCEPT !.market = k, !.login = s.login \cup {n}]
    BY <1>6 DEF MassQuote
  <2> HIDE DEF k, o
  <2>2. /\ MassQuote(s, n).market = k /\ MassQuote(s, n).toNode = s.toNode
        /\ MassQuote(s, n) \in Exchanges
    BY <1>2, <1>4, <2>1 DEF Exchanges
  <2> QED
    BY <1>0, <1>4, <1>5, <2>2 DEF Sound
<1>7. CASE ~(Cardinality(o) <= 1) /\ ~Online(n)
  <2>1. MassQuote(s, n) = [s EXCEPT !.market = k, !.toNode = s.toNode]
    BY <1>7 DEF MassQuote, Sent
  <2> HIDE DEF k, o
  <2>2. /\ MassQuote(s, n).market = k /\ MassQuote(s, n).toNode = s.toNode
        /\ MassQuote(s, n) \in Exchanges
    BY <1>2, <1>4, <2>1 DEF Exchanges
  <2> QED
    BY <1>0, <1>4, <1>5, <2>2 DEF Sound
<1>8. CASE ~(Cardinality(o) <= 1) /\ Online(n)
  <2>1. MassQuote(s, n) = [s EXCEPT !.market = k, !.toNode = [s.toNode EXCEPT ![n] = w]]
    <3>1. Sent(s.toNode, n, x) = [s.toNode EXCEPT ![n] = Append(s.toNode[n], x)]
      BY <1>8 DEF Sent
    <3> QED
      BY <1>8, <3>1 DEF MassQuote
  <2> HIDE DEF k, o
  <2>2. x \in Fine(k) /\ x \in Fine(s.market)
    <3>1. o \in SUBSET Codes
      BY <1>2, <1>3, MarketIs
    <3>2. x \in Messages
      BY <3>1 DEF Messages, Offered
    <3> QED
      BY <1>1, <1>3, <1>4, <3>2 DEF Fine
  <2>3. Fit(n, k, s.toNode[n], S, N[n], halted) /\ N[n].pc # "off"
    BY <1>5, <1>8 DEF Good, Sees
  <2>4. /\ Fit(n, k, w, S, N[n], halted)
        /\ Claims(n, w, S, N[n]) = Claims(n, s.toNode[n], S, N[n]) \cup (o \ {0})
    BY <1>4, <2>2, <2>3, FitOffer
  <2>5. w \in Seq(Messages) /\ x \in Messages
    BY <1>2, <2>2 DEF Queues, Fine
  <2> HIDE DEF w, x
  <2>6. /\ N[n] \in NodeRecord /\ S \in Subscriptions /\ SameButFor(n, S, S)
        /\ [N EXCEPT ![n] = N[n]] = N
    BY <1>1 DEF Good, AllNodes, SameButFor
  <2>7. /\ mode.lock => (o \ {0}) \cap Locked(s.market) = {}
        /\ mode.lock => Claims(n, w, S, N[n]) \subseteq
                            Claims(n, s.toNode[n], S, N[n]) \cup (o \ {0})
    BY <1>3, <2>4
  <2>8. DOMAIN s.market \subseteq DOMAIN k /\ Locked(s.market) \subseteq Locked(k)
    BY <1>1, <1>4
  <2>9. Good(k, [s.toNode EXCEPT ![n] = w], S, [N EXCEPT ![n] = N[n]], halted)
    BY <1>1, <1>4, <2>4, <2>5, <2>6, <2>7, <2>8, GoodOne
  <2>10. Good(k, [s.toNode EXCEPT ![n] = w], S, N, halted)
    BY <2>6, <2>9
  <2>11. [s.toNode EXCEPT ![n] = w] \in Queues
    BY <1>2, <2>5 DEF Queues
  <2> DEFINE r == [s.toNode EXCEPT ![n] = w]
  <2> HIDE DEF r
  <2>12. /\ MassQuote(s, n).market = k /\ MassQuote(s, n).toNode = r
         /\ MassQuote(s, n) \in Exchanges
    BY <1>2, <1>4, <2>1, <2>11 DEF Exchanges, r
  <2>13. Good(k, r, S, N, halted)
    BY <2>10 DEF r
  <2> QED
    BY <1>0, <1>4, <2>12, <2>13 DEF Sound
<1> QED
  BY <1>6, <1>7, <1>8

LEMMA MassQuotesKeep ==
    ASSUME NEW m, Good(m, toNode, sessions, node, stop), login \subseteq Nodes,
           NEW T, T \subseteq Nodes
    PROVE  Sound(MassQuotes(m, T), m, toNode, sessions, node, stop)
<1> DEFINE base == Unoffered(m)
           g == CHOOSE h : OfferSteps(h, base, T)
           F == {s \in SUBSET T : ~Sound(g[s], m, toNode, sessions, node, stop)}
<1>1. IsFiniteSet(T) /\ T \subseteq Nat
  BY SessionAssumption, FS_Subset
<1>2. OfferSteps(g, base, T)
  BY <1>1, OfferStepsExist
<1>3. MassQuotes(m, T) = g[T]
  BY MassQuotesIs
<1>4. Sees(node)
  BY DEF Sees, Online
<1>5. Sound(base, m, toNode, sessions, node, stop)
  <2>1. m \in Markets /\ toNode \in Queues
    BY DEF Good
  <2>2. base = [market |-> m, toNode |-> toNode, login |-> login]
    BY DEF Unoffered
  <2>3. base \in Exchanges /\ base.market = m /\ base.toNode = toNode
    BY <2>1, <2>2 DEF Exchanges
  <2> HIDE DEF base
  <2> QED
    BY <2>3, CalmSame DEF Sound
<1> HIDE DEF g, base
<1>6. ASSUME F # {} PROVE FALSE
  <2>1. F \subseteq SUBSET T
    OBVIOUS
  <2>2. \E s \in F : \A r \in F : r \subseteq s => r = s
    <3>1. IsFiniteSet(T)
      BY <1>1
    <3> HIDE DEF F
    <3> QED
      BY ONLY <3>1, <1>6, <2>1, Smallest
  <2>3. PICK s \in F : \A r \in F : r \subseteq s => r = s
    BY <2>2
  <2>4. g[s] = OfferStep(g, base, s)
    BY <1>2, OfferStepsAt
  <2>5. CASE s = {}
    BY <1>5, <2>4, <2>5 DEF OfferStep
  <2>6. CASE s # {}
    <3> DEFINE r == s \ {Max(s)}
    <3>1. IsFiniteSet(s) /\ s \subseteq Nat
      BY <1>1, FS_Subset
    <3>2. Max(s) \in s /\ Max(s) \in Nodes
      BY <2>6, <3>1, MaxIs
    <3>3. r \notin F /\ r \in SUBSET T
      BY <2>3, <3>2
    <3>4. Sound(g[r], m, toNode, sessions, node, stop)
      BY <3>3
    <3>5. Sound(MassQuote(g[r], Max(s)), m, toNode, sessions, node, stop)
      BY <1>4, <3>2, <3>4, MassQuoteKeeps
    <3>6. g[s] = MassQuote(g[r], Max(s))
      BY <2>4, <2>6 DEF OfferStep
    <3> QED
      BY <3>5, <3>6
  <2> QED
    BY <2>5, <2>6
<1> QED
  BY <1>3, <1>6

-----------------------------------------------------------------------------
(* The invariant of the system. *)

Rest ==
    /\ mode \in [lock : BOOLEAN, chosen : [Nodes -> Wishes]]
    /\ mode.lock => \A n \in Nodes : mode.chosen[n] = {}
    /\ ready \in BOOLEAN /\ stop \in BOOLEAN
    /\ feed \in {"run", "exit", "end", "stopped"}
    /\ bus \in Seq(Records) /\ ticks \in [Codes -> Nat] /\ login \subseteq Nodes

SessionsInv ==
    Rest /\ Good(market, toNode, sessions, node, stop) /\ AccountIffSubscribed

\* The mode of a run never changes.
LEMMA GoodAfter ==
    ASSUME mode' = mode, Good(market', toNode', sessions', node', stop'),
           Rest', AccountIffSubscribed'
    PROVE  SessionsInv'
<1>1. /\ market' \in Markets /\ toNode' \in Queues /\ sessions' \in Subscriptions
      /\ node' \in AllNodes
  BY DEF Good
<1>2. (Apart(toNode, sessions, node))'
  BY DEF Good, Apart, Claims, OffersIn
<1>3. ASSUME NEW n \in Nodes PROVE (Fit(n, market, toNode[n], sessions, node[n], stop))'
  <2>1. Fit(n, market', toNode'[n], sessions', node'[n], stop')
    BY DEF Good
  <2>2. (Shape(n, market, toNode[n], sessions, node[n]))'
    BY <2>1 DEF Fit, Shape, Fresh, Fine
  <2>3. (Served(n, toNode[n], sessions, node[n]))'
    BY <2>1 DEF Fit, Served, Promised
  <2>4. (Told(toNode[n], node[n], stop))'
    BY <2>1 DEF Fit, Told
  <2>5. (Backed(n, market, toNode[n], sessions, node[n]))'
    BY <2>1 DEF Fit, Backed, Claims, OffersIn, Locked
  <2> QED
    BY <2>2, <2>3, <2>4, <2>5 DEF Fit
<1> QED
  BY <1>1, <1>2, <1>3 DEF SessionsInv, Good, Fit

-----------------------------------------------------------------------------
(* The steps of the exchange's feed and bus. *)

LEMMA PutMarket ==
    ASSUME NEW m \in Markets, NEW c \in Codes, c \notin DOMAIN m
    PROVE  /\ Put(m, c, Listed) \in Markets
           /\ DOMAIN m \subseteq DOMAIN Put(m, c, Listed) /\ c \in DOMAIN Put(m, c, Listed)
           /\ Locked(m) \subseteq Locked(Put(m, c, Listed))
<1> DEFINE k == Put(m, c, Listed)
<1>1. DOMAIN m \subseteq Codes /\ m \in [DOMAIN m -> Listings]
  BY MarketIs
<1>2. /\ DOMAIN k = DOMAIN m \cup {c} /\ k = [z \in DOMAIN k |-> k[z]]
      /\ k[c] = Listed /\ \A z \in DOMAIN m : k[z] = m[z]
  BY DEF Put
<1>3. Listed \in Listings
  BY DEF Listed, Listings
<1> HIDE DEF k
<1>4. k \in Markets
  <2>1. \A z \in DOMAIN k : k[z] \in Listings
    BY <1>1, <1>2, <1>3
  <2>2. DOMAIN k \subseteq Codes /\ k \in [DOMAIN k -> Listings]
    BY <1>1, <1>2, <2>1
  <2> QED
    BY <2>2, MarketIs
<1>5. Locked(m) \subseteq Locked(k)
  BY <1>2 DEF Locked
<1> QED
  BY <1>2, <1>4, <1>5 DEF k

\* Only the market, the queues and the sessions given up change.
LEMMA ExchangeKeeps ==
    ASSUME SessionsInv, mode' = mode, node' = node, sessions' = sessions,
           accounts' = accounts, stop' = stop, Rest',
           Good(market', toNode', sessions, node, stop)
    PROVE  SessionsInv'
<1>1. Good(market', toNode', sessions', node', stop')
  OBVIOUS
<1>2. AccountIffSubscribed'
  BY DEF SessionsInv, AccountIffSubscribed, Known
<1> QED
  BY <1>1, <1>2, GoodAfter

LEMMA SoundIs ==
    ASSUME NEW s, NEW m, Sound(s, m, toNode, sessions, node, stop)
    PROVE  /\ s.login \subseteq Nodes /\ s.toNode \in Queues /\ DOMAIN s.market = DOMAIN m
           /\ Good(s.market, s.toNode, sessions, node, stop)
           /\ \A n \in Nodes : Calm(toNode[n], s.toNode[n])
BY DEF Sound, Exchanges

LEMMA InitKeeps ==
    ASSUME SessionsInv, NEW code \in Codes, SymbolInit(code)
    PROVE  SessionsInv'
<1> DEFINE known == IF code \in DOMAIN market THEN market ELSE Put(market, code, Listed)
<1>1. Rest /\ Good(market, toNode, sessions, node, stop)
  BY DEF SessionsInv
<1>2. Good(known, toNode, sessions, node, stop)
  <2>1. CASE code \in DOMAIN market
    BY <1>1, <2>1
  <2>2. CASE code \notin DOMAIN market
    <3>1. market \in Markets
      BY <1>1 DEF Good
    <3>2. Good(Put(market, code, Listed), toNode, sessions, node, stop)
      BY <1>1, <2>2, <3>1, PutMarket, GoodMarket
    <3> QED
      BY <2>2, <3>2
  <2> QED
    BY <2>1, <2>2
<1>3. /\ UNCHANGED <<mode, stop, feed, bus, ticks, sessions, accounts, node>>
      /\ \/ ready' = TRUE /\ Becomes(MassQuotes(known, Known))
         \/ market' = known /\ UNCHANGED <<ready, toNode, login>>
  BY DEF SymbolInit, counters
<1> HIDE DEF known
<1>4. CASE market' = known /\ UNCHANGED <<ready, toNode, login>>
  <2>1. Rest'
    BY <1>1, <1>3, <1>4 DEF Rest
  <2>2. Good(market', toNode', sessions, node, stop)
    BY <1>2, <1>4
  <2> QED
    BY <1>3, <2>1, <2>2, ExchangeKeeps
<1>5. CASE ready' = TRUE /\ Becomes(MassQuotes(known, Known))
  <2> DEFINE s == MassQuotes(known, Known)
  <2>1. Known \subseteq Nodes /\ login \subseteq Nodes
    BY <1>1, SubscriptionIs DEF Good, Rest, Known
  <2>2. Sound(s, known, toNode, sessions, node, stop)
    BY <1>2, <2>1, MassQuotesKeep
  <2>3. market' = s.market /\ toNode' = s.toNode /\ login' = s.login
    BY <1>5 DEF Becomes
  <2> HIDE DEF s
  <2>4. login' \subseteq Nodes /\ Good(market', toNode', sessions, node, stop)
    BY <2>2, <2>3, SoundIs
  <2>5. Rest'
    BY <1>1, <1>3, <1>5, <2>4 DEF Rest
  <2> QED
    BY <1>3, <2>4, <2>5, ExchangeKeeps
<1> QED
  BY <1>3, <1>4, <1>5

LEMMA NewsFine ==
    ASSUME NEW m, NEW c \in Codes, c \in DOMAIN m, NEW d \in BOOLEAN
    PROVE  /\ Quote(c, d) \in Fine(m) /\ ~Suspends(Quote(c, d))
           /\ Quote(c, d).kind \notin {"MassQuote", "Granted"}
<1>1. Quote(c, d) \in News /\ Quote(c, d).kind = "Quote" /\ Quote(c, d).code = c
  BY DEF Quote, News
<1> HIDE DEF Quote
<1> QED
  BY <1>1 DEF Fine, Messages, Suspends

LEMMA EventIs ==
    ASSUME Event
    PROVE  mode' = mode /\ node' = node /\ feed = "run" /\ ready
BY DEF Event

LEMMA ListKeeps ==
    ASSUME SessionsInv, NEW code \in Codes, MarketList(code)
    PROVE  SessionsInv'
<1> DEFINE known == Put(market, code, Listed)
           others == {n \in Known : sessions[n] = {}}
           s == MassQuotes(known, others)
           news == Quote(code, FALSE)
           r == [n \in Nodes |-> IF n \in Known /\ sessions[n] # {}
                                 THEN Sent(s.toNode, n, news)[n] ELSE s.toNode[n]]
<1>1. Rest /\ Good(market, toNode, sessions, node, stop)
  BY DEF SessionsInv
<1>2. /\ Event /\ code \notin DOMAIN market
      /\ Becomes([s EXCEPT !.toNode = r])
      /\ UNCHANGED <<ready, stop, feed, bus, ticks, sessions, accounts>>
  BY DEF MarketList
<1>3. Good(known, toNode, sessions, node, stop) /\ code \in DOMAIN known
  <2>1. market \in Markets
    BY <1>1 DEF Good
  <2> QED
    BY <1>1, <1>2, <2>1, PutMarket, GoodMarket
<1>4. others \subseteq Nodes /\ login \subseteq Nodes
  BY <1>1, SubscriptionIs DEF Good, Rest, Known
<1> HIDE DEF known, others
<1>5. Sound(s, known, toNode, sessions, node, stop)
  BY <1>3, <1>4, MassQuotesKeep
<1> HIDE DEF s
<1>6. /\ s.login \subseteq Nodes /\ s.toNode \in Queues /\ DOMAIN s.market = DOMAIN known
      /\ Good(s.market, s.toNode, sessions, node, stop)
  BY <1>5, SoundIs
<1>7. news \in Fine(s.market) /\ ~Suspends(news) /\ news.kind \notin {"MassQuote", "Granted"}
  BY <1>3, <1>6, NewsFine
<1> HIDE DEF news
<1>8. ASSUME NEW n \in Nodes
      PROVE  r[n] = s.toNode[n] \/ (r[n] = Append(s.toNode[n], news) /\ node[n].pc # "off")
  BY <1>6 DEF Sent, Online, Queues
<1>9. r = [n \in Nodes |-> r[n]]
  OBVIOUS
<1> HIDE DEF r
<1>10. Good(s.market, r, sessions, node, stop)
  BY <1>6, <1>7, <1>8, <1>9, GoodBroadcast
<1>11. market' = s.market /\ toNode' = r /\ login' = s.login
  <2>1. s = [market |-> s.market, toNode |-> s.toNode, login |-> s.login]
    BY <1>5 DEF Sound, Exchanges
  <2> QED
    BY <1>2, <2>1 DEF Becomes
<1>12. mode' = mode /\ node' = node
  BY <1>2, EventIs
<1>13. Rest'
  BY <1>1, <1>2, <1>6, <1>11, <1>12 DEF Rest
<1> QED
  BY <1>2, <1>10, <1>11, <1>12, <1>13, ExchangeKeeps

\* A message to some of the sessions.
LEMMA BroadcastIs ==
    ASSUME NEW targets, NEW x
    PROVE  /\ Broadcast(targets, x) = [n \in Nodes |-> Broadcast(targets, x)[n]]
           /\ \A n \in Nodes :
                 \/ Broadcast(targets, x)[n] = toNode[n]
                 \/ Broadcast(targets, x)[n] = Append(toNode[n], x) /\ node[n].pc # "off"
BY DEF Broadcast, Online

LEMMA DelistKeeps ==
    ASSUME SessionsInv, NEW code \in Codes, MarketDelist(code)
    PROVE  SessionsInv'
<1>1. Rest /\ Good(market, toNode, sessions, node, stop)
  BY DEF SessionsInv
<1> DEFINE told == {n \in Known : code \in sessions[n]}
           r == Broadcast(told, Quote(code, TRUE))
<1>2. PICK d \in {"DELISTING", "THROWOUT"} :
        /\ Event /\ code \in DOMAIN market
        /\ market' = [market EXCEPT ![code].dia = d] /\ toNode' = r
        /\ UNCHANGED <<ready, stop, feed, bus, ticks, sessions, accounts, login>>
  BY DEF MarketDelist
<1>3. /\ market' \in Markets /\ DOMAIN market' = DOMAIN market
      /\ Locked(market) \subseteq Locked(market')
  <2>1. DOMAIN market \subseteq Codes /\ market \in [DOMAIN market -> Listings]
    BY <1>1, MarketIs DEF Good
  <2>2. market[code] \in Listings /\ [market[code] EXCEPT !.dia = d] \in Listings
        /\ [market[code] EXCEPT !.dia = d].locked = market[code].locked
    BY <1>2, <2>1 DEF Listings
  <2>3. /\ DOMAIN market' = DOMAIN market /\ market' = [c \in DOMAIN market' |-> market'[c]]
        /\ market'[code] = [market[code] EXCEPT !.dia = d]
        /\ \A c \in DOMAIN market \ {code} : market'[c] = market[c]
    BY <1>2, <2>1
  <2>4. \A c \in DOMAIN market' : market'[c] \in Listings
    BY <2>1, <2>2, <2>3
  <2>5. market' \in [DOMAIN market' -> Listings] /\ DOMAIN market' \subseteq Codes
    BY <2>1, <2>3, <2>4
  <2>6. Locked(market) \subseteq Locked(market')
    BY <2>2, <2>3 DEF Locked
  <2> QED
    BY <2>3, <2>5, <2>6, MarketIs
<1>4. Good(market', toNode, sessions, node, stop)
  BY <1>1, <1>3, GoodMarket
<1>5. Good(market', r, sessions, node, stop)
  <2>1. /\ Quote(code, TRUE) \in Fine(market') /\ ~Suspends(Quote(code, TRUE))
        /\ Quote(code, TRUE).kind \notin {"MassQuote", "Granted"}
    BY <1>2, <1>3, NewsFine
  <2> DEFINE x == Quote(code, TRUE)
             N == node
  <2>2. x \in Fine(market') /\ ~Suspends(x) /\ x.kind \notin {"MassQuote", "Granted"}
    BY <2>1
  <2>3. /\ r = [n \in Nodes |-> r[n]]
        /\ \A n \in Nodes : r[n] = toNode[n] \/ (r[n] = Append(toNode[n], x) /\ N[n].pc # "off")
    BY BroadcastIs
  <2> HIDE DEF x, r
  <2> QED
    BY <1>4, <2>2, <2>3, GoodBroadcast
<1>6. mode' = mode /\ node' = node
  BY <1>2, EventIs
<1> HIDE DEF r
<1>7. Rest'
  BY <1>1, <1>2, <1>6 DEF Rest
<1> QED
  BY <1>2, <1>5, <1>6, <1>7, ExchangeKeeps

LEMMA TickKeeps ==
    ASSUME SessionsInv, NEW code \in Codes, Tick(code)
    PROVE  SessionsInv'
<1>1. Rest /\ Good(market, toNode, sessions, node, stop)
  BY DEF SessionsInv
<1> DEFINE x == [kind |-> "Data", code |-> code, number |-> ticks'[code]]
<1>2. /\ Event /\ ticks' = [ticks EXCEPT ![code] = ticks[code] + 1] /\ bus' = Append(bus, x)
      /\ UNCHANGED <<exchange, feed, toNode>>
  BY DEF Tick
<1>3. UNCHANGED <<market, ready, stop, sessions, accounts, login>> /\ mode' = mode /\ node' = node
  BY <1>2, EventIs DEF exchange
<1>4. ticks' \in [Codes -> Nat] /\ ticks'[code] \in Nat
  BY <1>1, <1>2 DEF Rest
<1>5. x \in Records
  BY <1>4 DEF Records
<1> HIDE DEF x
<1>6. bus' \in Seq(Records)
  BY <1>1, <1>2, <1>5 DEF Rest
<1>7. Rest'
  BY <1>1, <1>2, <1>3, <1>4, <1>6 DEF Rest
<1> QED
  BY <1>1, <1>2, <1>3, <1>7, ExchangeKeeps

\* A suspension is news that everybody has yet to hear of the end of; the end
\* of one goes to everybody.
LEMMA StatusKeeps ==
    ASSUME SessionsInv, NEW running \in BOOLEAN, StatusOrder(running)
    PROVE  SessionsInv'
<1>1. Rest /\ Good(market, toNode, sessions, node, stop)
  BY DEF SessionsInv
<1> DEFINE x == [kind |-> "Status", suspend |-> ~running]
           r == Broadcast(Known, x)
<1>2. /\ Event /\ stop = running /\ stop' = ~running /\ toNode' = r
      /\ UNCHANGED <<market, ready, feed, bus, ticks, sessions, accounts, login>>
  BY DEF StatusOrder
<1>3. mode' = mode /\ node' = node
  BY <1>2, EventIs
<1>4. x \in Messages /\ x.kind = "Status" /\ x.suspend = ~running /\ x \in Fine(market)
  BY DEF Messages, Statuses, Fine
<1>5. ASSUME NEW n \in Nodes
      PROVE  /\ r[n] \in Seq(Fine(market)) /\ r[n] \in Seq(Messages)
             /\ Fit(n, market, r[n], sessions, node[n], ~running)
             /\ Claims(n, r[n], sessions, node[n]) = Claims(n, toNode[n], sessions, node[n])
  <2>1. Fit(n, market, toNode[n], sessions, node[n], stop) /\ toNode[n] \in Seq(Messages)
    BY <1>1 DEF Good, Queues
  <2>2. toNode[n] \in Seq(Fine(market)) /\ (node[n].pc # "off" => n \in Known)
    BY <2>1 DEF Fit, Shape, Known
  <2>3. CASE node[n].pc = "off"
    <3>1. r[n] = toNode[n]
      BY <2>3 DEF Broadcast, Online
    <3>2. toNode[n] = << >> /\ node[n].suspended = FALSE
      BY <2>1, <2>3 DEF Fit, Shape, Fresh
    <3>3. Told(r[n], node[n], ~running)
      <4>1. DOMAIN << >> = {}
        OBVIOUS
      <4> QED
        BY <3>1, <3>2, <4>1 DEF Told
    <3> HIDE DEF r
    <3> QED
      BY <2>1, <2>2, <3>1, <3>3 DEF Fit
  <2>4. CASE node[n].pc # "off"
    <3>1. r[n] = Append(toNode[n], x)
      BY <2>2, <2>4 DEF Broadcast, Online
    <3> HIDE DEF r, x
    <3>2. r[n] \in Seq(Fine(market)) /\ ToSet(r[n]) = ToSet(toNode[n]) \cup {x}
      BY <1>4, <2>2, <3>1, Grown
    <3>3. OffersIn(r[n]) = OffersIn(toNode[n])
      <4>1. toNode[n] \in Seq(Fine(market)) /\ x \in Fine(market)
        BY <1>4, <2>2
      <4>2. OffersIn(Append(toNode[n], x)) = OffersIn(toNode[n])
                \cup (IF x.kind = "MassQuote" THEN x.codes \ {0} ELSE {})
        BY <4>1, OffersGrown
      <4> QED
        BY <1>4, <3>1, <4>2
    <3>4. Claims(n, r[n], sessions, node[n]) = Claims(n, toNode[n], sessions, node[n])
      BY <3>3 DEF Claims
    <3>5. /\ Shape(n, market, r[n], sessions, node[n])
          /\ Served(n, r[n], sessions, node[n])
          /\ Backed(n, market, r[n], sessions, node[n])
      <4>1. Shape(n, market, r[n], sessions, node[n])
        BY <2>1, <2>4, <3>2 DEF Fit, Shape
      <4>2. Served(n, r[n], sessions, node[n])
        BY <1>4, <2>1, <3>2 DEF Fit, Served, Promised
      <4>3. Backed(n, market, r[n], sessions, node[n])
        BY <2>1, <3>4 DEF Fit, Backed
      <4> QED
        BY <4>1, <4>2, <4>3
    <3>6. Told(r[n], node[n], ~running)
      <4>1. CASE running
        <5>1. /\ DOMAIN r[n] = 1..Len(toNode[n]) + 1 /\ r[n][Len(toNode[n]) + 1] = x
              /\ Len(toNode[n]) \in Nat
          BY <2>2, <3>1
        <5>2. x = Runs
          BY <4>1 DEF x, Runs
        <5>3. ~Suspends(x)
          BY <5>2 DEF Suspends, Runs
        <5>4. Len(toNode[n]) + 1 \in DOMAIN r[n]
          BY <5>1
        <5>5. ASSUME NEW i \in DOMAIN r[n], Suspends(r[n][i])
              PROVE  \E j \in DOMAIN r[n] : i < j /\ r[n][j] = Runs
          <6>1. i # Len(toNode[n]) + 1
            BY <5>1, <5>3, <5>5
          <6>2. i < Len(toNode[n]) + 1
            BY <5>1, <6>1
          <6> QED
            BY <5>1, <5>2, <5>4, <6>2
        <5>6. \E i \in DOMAIN r[n] : r[n][i] = Runs
          BY <5>1, <5>2, <5>4
        <5> QED
          BY <5>5, <5>6 DEF Told
      <4>2. CASE ~running
        BY <4>2 DEF Told
      <4> QED
        BY <4>1, <4>2
    <3>7. r[n] \in Seq(Messages)
      BY <1>4, <2>1, <3>1
    <3> QED
      BY <3>2, <3>4, <3>5, <3>6, <3>7 DEF Fit
  <2> QED
    BY <2>3, <2>4
<1>6. r \in Queues
  <2>1. r = [n \in Nodes |-> r[n]]
    BY DEF Broadcast
  <2> HIDE DEF r
  <2> QED
    BY <1>5, <2>1 DEF Queues
<1> HIDE DEF r, x
<1>7. Apart(r, sessions, node)
  BY <1>1, <1>5 DEF Good, Apart
<1>8. Good(market, r, sessions, node, ~running)
  BY <1>1, <1>5, <1>6, <1>7 DEF Good
<1>9. Good(market', toNode', sessions', node', stop')
  BY <1>2, <1>3, <1>8
<1>10. Rest'
  BY <1>1, <1>2, <1>3 DEF Rest
<1>11. AccountIffSubscribed'
  BY <1>2 DEF SessionsInv, AccountIffSubscribed, Known
<1> QED
  BY <1>3, <1>9, <1>10, <1>11, GoodAfter

LEMMA ExitKeeps ==
    ASSUME SessionsInv, ExitOrder \/ AcceptorStop
    PROVE  SessionsInv'
<1>1. Rest /\ Good(market, toNode, sessions, node, stop)
  BY DEF SessionsInv
<1>2. /\ feed' \in {"exit", "stopped"}
      /\ UNCHANGED <<mode, market, ready, stop, sessions, accounts, login, bus, ticks,
                     node, toNode>>
  BY DEF ExitOrder, AcceptorStop, exchange
<1>3. Rest'
  BY <1>1, <1>2 DEF Rest
<1> QED
  BY <1>1, <1>2, <1>3, ExchangeKeeps

LEMMA CancelKeeps ==
    ASSUME SessionsInv, QuoteCancel
    PROVE  SessionsInv'
<1> DEFINE x == [kind |-> "Cancel"]
           r == Broadcast(Known, x)
<1>1. Rest /\ Good(market, toNode, sessions, node, stop)
  BY DEF SessionsInv
<1>2. /\ feed' = "end" /\ toNode' = r
      /\ UNCHANGED <<mode, market, ready, stop, sessions, accounts, login, bus, ticks, node>>
  BY DEF QuoteCancel, exchange
<1>3. x \in Fine(market) /\ ~Suspends(x) /\ x.kind \notin {"MassQuote", "Granted"}
  BY DEF Fine, Messages, Words, Suspends
<1> HIDE DEF x
<1>4. Good(market, r, sessions, node, stop)
  BY <1>1, <1>3, BroadcastIs, GoodBroadcast
<1> HIDE DEF r
<1>5. Rest'
  BY <1>1, <1>2 DEF Rest
<1> QED
  BY <1>2, <1>4, <1>5, ExchangeKeeps

LEMMA BeamKeeps ==
    ASSUME SessionsInv, FixBeam
    PROVE  SessionsInv'
<1> DEFINE x == Head(bus)
           r == Broadcast(Receivers(x), x)
<1>1. Rest /\ Good(market, toNode, sessions, node, stop)
  BY DEF SessionsInv
<1>2. /\ bus # << >> /\ bus' = Tail(bus) /\ toNode' = r
      /\ UNCHANGED <<mode, market, ready, stop, sessions, accounts, login, feed, ticks, node>>
  BY DEF FixBeam, exchange
<1>3. x \in Records /\ bus' \in Seq(Records)
  BY <1>1, <1>2, HeadTailProperties DEF Rest
<1> HIDE DEF x
<1>4. x \in Fine(market) /\ ~Suspends(x) /\ x.kind \notin {"MassQuote", "Granted"}
  BY <1>3 DEF Fine, Messages, Records, Suspends
<1>5. Good(market, r, sessions, node, stop)
  BY <1>1, <1>4, BroadcastIs, GoodBroadcast
<1> HIDE DEF r
<1>6. Rest'
  BY <1>1, <1>2, <1>3 DEF Rest
<1> QED
  BY <1>2, <1>5, <1>6, ExchangeKeeps

-----------------------------------------------------------------------------
(* A node's handlers. *)

Speaks(x) ==
    IF x.kind = "MassQuote" THEN x.codes
    ELSE IF x.kind = "Quote" THEN {x.code} ELSE {}

\* A node that has chosen reads all quotes; before, none.
Reads(x, v, w) ==
    /\ \A c \in Codes :
          w.last[c] = IF IsQuoteOf(x, c) /\ v.mine # {} THEN x.number ELSE v.last[c]
    /\ w.bus # v.bus => x.kind = "Cancel" \/ v.mine # {}

LEMMA ReadsNothing ==
    ASSUME NEW x, x.kind # "Data", NEW v, NEW w, w.last = v.last, w.bus = v.bus
    PROVE  Reads(x, v, w)
BY DEF Reads, IsQuoteOf

\* What a node that was v may be after message x.
After(x, v, w) ==
    /\ w \in NodeRecord /\ w.pc = v.pc
    /\ w.down \subseteq DOMAIN w.symbols
    /\ DOMAIN w.symbols \subseteq DOMAIN v.symbols \cup Speaks(x)
    /\ \/ w.mine = v.mine
       \/ v.mine = {} /\ x.kind = "MassQuote" /\ w.mine = x.codes \ {0}
    /\ w.applied => v.applied \/ x.kind = "Granted"
    /\ w.suspended => Suspends(x) \/ (v.suspended /\ x.kind # "Status")
    /\ Reads(x, v, w)

LEMMA MessageIs ==
    ASSUME NEW x \in Messages
    PROVE  /\ x.kind = "MassQuote" => x.codes \subseteq Codes
           /\ x.kind = "Quote" => x.code \in Codes /\ x.delisted \in BOOLEAN
           /\ x.kind = "Data" => x.code \in Codes /\ x.number \in Nat
           /\ x.kind = "Status" => x.suspend \in BOOLEAN
           /\ x.kind \in {"MassQuote", "Quote", "Data", "Status", "Cancel", "Granted"}
BY DEF Messages, Offered, News, Records, Statuses, Words

LEMMA PutBook ==
    ASSUME NEW b \in Books, NEW c \in Codes, NEW d \in {"LIST", "DELISTING"}
    PROVE  Put(b, c, d) \in Books /\ DOMAIN Put(b, c, d) = DOMAIN b \cup {c}
<1>1. DOMAIN b \subseteq Codes /\ b \in [DOMAIN b -> {"LIST", "DELISTING"}]
  BY BookIs
<1>2. DOMAIN Put(b, c, d) = DOMAIN b \cup {c}
  BY DEF Put
<1>3. Put(b, c, d) \in [DOMAIN b \cup {c} -> {"LIST", "DELISTING"}]
  BY <1>1 DEF Put
<1> QED
  BY <1>1, <1>2, <1>3, BookIs

LEMMA BusQuitIs ==
    ASSUME NEW v \in NodeRecord
    PROVE  /\ BusQuit(v) \in NodeRecord
           /\ BusQuit(v).pc = v.pc /\ BusQuit(v).down = v.down
           /\ BusQuit(v).symbols = v.symbols /\ BusQuit(v).mine = v.mine
           /\ BusQuit(v).applied = v.applied /\ BusQuit(v).suspended = v.suspended
           /\ BusQuit(v).last = v.last
<1>1. CASE v.pc = "on"
  BY <1>1 DEF BusQuit
<1>2. CASE v.pc # "on" /\ v.bus = "open"
  BY <1>2 DEF BusQuit, NodeRecord
<1>3. CASE v.pc # "on" /\ v.bus # "open"
  BY <1>3 DEF BusQuit, NodeRecord
<1> QED
  BY <1>1, <1>2, <1>3

LEMMA DataHandled ==
    ASSUME NEW v \in NodeRecord, v.down \subseteq DOMAIN v.symbols,
           NEW x \in Messages, x.kind = "Data"
    PROVE  After(x, v, OnData(v, x))
<1>0. x.code \in Codes /\ x.number \in Nat
  BY MessageIs
<1> DEFINE seen == [Deposit(v) EXCEPT !.last[x.code] = x.number]
<1>1. /\ Deposit(v) \in NodeRecord
      /\ Deposit(v).pc = v.pc /\ Deposit(v).down = v.down
      /\ Deposit(v).symbols = v.symbols /\ Deposit(v).mine = v.mine
      /\ Deposit(v).applied = v.applied /\ Deposit(v).suspended = v.suspended
      /\ Deposit(v).last = v.last
  BY DEF Deposit, NodeRecord
<1>2. /\ seen \in NodeRecord
      /\ seen.pc = v.pc /\ seen.down = v.down
      /\ seen.symbols = v.symbols /\ seen.mine = v.mine
      /\ seen.applied = v.applied /\ seen.suspended = v.suspended
      /\ seen.last = [v.last EXCEPT ![x.code] = x.number]
  BY <1>0, <1>1 DEF NodeRecord
<1> HIDE DEF seen
<1>3. ASSUME NEW w \in NodeRecord, w.pc = v.pc, w.down \subseteq v.down,
             w.symbols = v.symbols, w.mine = v.mine, w.applied = v.applied,
             w.suspended = v.suspended, Reads(x, v, w)
      PROVE  After(x, v, w)
  BY <1>3 DEF After
<1>b. ASSUME v.mine # {}, NEW w, w.last = seen.last PROVE Reads(x, v, w)
  <2>1. v.last \in [Codes -> Nat]
    BY DEF NodeRecord
  <2> QED
    BY <1>2, <1>b, <2>1 DEF Reads, IsQuoteOf
<1>4. v.mine = {} => After(x, v, v)
  <2>1. v.mine = {} => Reads(x, v, v)
    BY DEF Reads
  <2> QED
    BY <1>3, <2>1
<1>5. v.mine # {} => After(x, v, seen)
  BY <1>2, <1>3, <1>b
<1>6. v.mine # {} => After(x, v, Delisting(seen, x.code))
  <2> SUFFICES ASSUME v.mine # {} PROVE After(x, v, Delisting(seen, x.code))
    OBVIOUS
  <2> DEFINE less == [seen EXCEPT !.down = seen.down \ {x.code}]
  <2>1. /\ less \in NodeRecord
        /\ less.pc = v.pc /\ less.down \subseteq v.down
        /\ less.symbols = v.symbols /\ less.mine = v.mine
        /\ less.applied = v.applied /\ less.suspended = v.suspended
        /\ less.last = seen.last
    BY <1>2 DEF NodeRecord
  <2>2. Delisting(seen, x.code) = seen \/ Delisting(seen, x.code) = BusQuit(less)
    BY DEF Delisting
  <2> HIDE DEF less
  <2>3. After(x, v, BusQuit(less))
    BY <1>3, <1>b, <2>1, BusQuitIs
  <2> QED
    BY <1>5, <2>2, <2>3
<1>7. OnData(v, x) = IF v.mine = {} THEN v
                     ELSE IF x.code \notin DOMAIN v.symbols THEN seen
                     ELSE Delisting(seen, x.code)
  BY DEF OnData, seen
<1> QED
  BY <1>4, <1>5, <1>6, <1>7

LEMMA QuoteHandled ==
    ASSUME NEW v \in NodeRecord, v.down \subseteq DOMAIN v.symbols,
           NEW x \in Messages, x.kind = "Quote"
    PROVE  After(x, v, OnQuote(v, x))
<1>0. x.code \in Codes /\ v.symbols \in Books
  BY MessageIs DEF NodeRecord
<1>1. ASSUME NEW b \in Books, DOMAIN b = DOMAIN v.symbols \cup {x.code},
             NEW w, w = [v EXCEPT !.symbols = b, !.down = v.down \cup {x.code}]
      PROVE  After(x, v, w)
  <2>1. w \in NodeRecord
    BY <1>0, <1>1 DEF NodeRecord
  <2>2. /\ w.pc = v.pc /\ w.down = v.down \cup {x.code} /\ w.symbols = b
        /\ w.mine = v.mine /\ w.applied = v.applied /\ w.suspended = v.suspended
        /\ w.last = v.last /\ w.bus = v.bus
    BY <1>1 DEF NodeRecord
  <2>3. Speaks(x) = {x.code}
    BY DEF Speaks
  <2> QED
    BY <1>1, <2>1, <2>2, <2>3, ReadsNothing DEF After
<1>2. CASE ~x.delisted /\ ~(x.code \in DOMAIN v.symbols)
  <2> DEFINE b == Put(v.symbols, x.code, "LIST")
  <2>1. b \in Books /\ DOMAIN b = DOMAIN v.symbols \cup {x.code}
    BY <1>0, PutBook
  <2>2. OnQuote(v, x) = [v EXCEPT !.symbols = b, !.down = v.down \cup {x.code}]
    BY <1>2 DEF OnQuote
  <2> HIDE DEF b
  <2> QED
    BY <1>1, <2>1, <2>2
<1>3. CASE x.delisted /\ x.code \in DOMAIN v.symbols
  <2> DEFINE b == [v.symbols EXCEPT ![x.code] = "DELISTING"]
  <2>1. b \in Books /\ DOMAIN b = DOMAIN v.symbols \cup {x.code}
    BY <1>0, <1>3, BookIs
  <2>2. OnQuote(v, x) = [v EXCEPT !.symbols = b, !.down = v.down \cup {x.code}]
    BY <1>3 DEF OnQuote
  <2> HIDE DEF b
  <2> QED
    BY <1>1, <2>1, <2>2
<1>4. CASE ~(~x.delisted /\ ~(x.code \in DOMAIN v.symbols))
           /\ ~(x.delisted /\ x.code \in DOMAIN v.symbols)
  <2>1. OnQuote(v, x) = v
    BY <1>4 DEF OnQuote
  <2>2. After(x, v, v)
    BY ReadsNothing DEF After
  <2> QED
    BY <2>1, <2>2
<1> QED
  BY <1>2, <1>3, <1>4

LEMMA OfferHandled ==
    ASSUME NEW n \in Nodes, NEW v \in NodeRecord, v.down \subseteq DOMAIN v.symbols,
           NEW x \in Messages, x.kind = "MassQuote"
    PROVE  /\ After(x, v, OnMassQuote(n, v, x).node)
           /\ \/ OnMassQuote(n, v, x).sends.kind = "None"
              \/ /\ v.mine = {} /\ OnMassQuote(n, v, x).node.mine = x.codes \ {0}
                 /\ OnMassQuote(n, v, x).sends = Request(n, x.codes \ {0}, FALSE)
<1>0. x.codes \subseteq Codes /\ v.symbols \in Books
  BY MessageIs DEF NodeRecord
<1> DEFINE b == [c \in DOMAIN v.symbols \cup x.codes |->
                    IF c \in DOMAIN v.symbols THEN v.symbols[c] ELSE "LIST"]
           r == OnMassQuote(n, v, x)
<1>1. b \in Books /\ DOMAIN b = DOMAIN v.symbols \cup x.codes
  <2>1. DOMAIN v.symbols \subseteq Codes
        /\ v.symbols \in [DOMAIN v.symbols -> {"LIST", "DELISTING"}]
    BY <1>0, BookIs
  <2>2. DOMAIN b = DOMAIN v.symbols \cup x.codes
    OBVIOUS
  <2>3. b \in [DOMAIN v.symbols \cup x.codes -> {"LIST", "DELISTING"}]
    BY <2>1
  <2> QED
    BY <1>0, <2>1, <2>2, <2>3, BookIs
<1>2. /\ v.mine # {} => r = Silent([v EXCEPT !.symbols = b])
      /\ v.mine = {} => r = [node |-> [v EXCEPT !.symbols = b, !.mine = x.codes \ {0}],
                             sends |-> Request(n, x.codes \ {0}, FALSE)]
  BY DEF OnMassQuote
<1>3. Speaks(x) = x.codes
  BY DEF Speaks
<1> HIDE DEF b, r
<1>4. CASE v.mine # {}
  <2> DEFINE w == [v EXCEPT !.symbols = b]
  <2>1. r.node = w /\ r.sends.kind = "None"
    BY <1>2, <1>4 DEF Silent
  <2>2. w \in NodeRecord
    BY <1>1 DEF NodeRecord
  <2>3. /\ w.pc = v.pc /\ w.down = v.down /\ w.symbols = b
        /\ w.mine = v.mine /\ w.applied = v.applied /\ w.suspended = v.suspended
        /\ w.last = v.last /\ w.bus = v.bus
    BY DEF NodeRecord
  <2> HIDE DEF w
  <2>4. After(x, v, w)
    BY <1>1, <1>3, <2>2, <2>3, ReadsNothing DEF After
  <2> QED
    BY <2>1, <2>4 DEF r
<1>5. CASE v.mine = {}
  <2> DEFINE w == [v EXCEPT !.symbols = b, !.mine = x.codes \ {0}]
  <2>1. r.node = w /\ r.sends = Request(n, x.codes \ {0}, FALSE)
    <3>1. r = [node |-> w, sends |-> Request(n, x.codes \ {0}, FALSE)]
      BY <1>2, <1>5
    <3> HIDE DEF w
    <3> QED
      BY <3>1
  <2>2. w \in NodeRecord
    BY <1>0, <1>1 DEF NodeRecord
  <2>3. /\ w.pc = v.pc /\ w.down = v.down /\ w.symbols = b
        /\ w.mine = x.codes \ {0} /\ w.applied = v.applied /\ w.suspended = v.suspended
        /\ w.last = v.last /\ w.bus = v.bus
    BY DEF NodeRecord
  <2> HIDE DEF w
  <2>4. After(x, v, w)
    BY <1>1, <1>3, <1>5, <2>2, <2>3, ReadsNothing DEF After
  <2> QED
    BY <1>5, <2>1, <2>3, <2>4 DEF r
<1> QED
  BY <1>4, <1>5

\* A node that may take any symbol asks for what it is offered.
Answers(n, v, x) ==
    LET r == Handled(n, v, x)
    IN  /\ After(x, v, r.node)
        /\ \/ r.sends.kind = "None"
           \/ /\ v.mine = {} /\ x.kind = "MassQuote" /\ r.node.mine = x.codes \ {0}
              /\ r.sends = Request(n, r.node.mine, FALSE)

LEMMA MessageHandled ==
    ASSUME NEW n \in Nodes, NEW v \in NodeRecord, v.down \subseteq DOMAIN v.symbols,
           NEW x \in Messages
    PROVE  Answers(n, v, x)
<1>1. x.kind \in {"MassQuote", "Quote", "Data", "Status", "Cancel", "Granted"}
  BY MessageIs
<1>2. CASE x.kind = "MassQuote"
  <2>1. Handled(n, v, x) = OnMassQuote(n, v, x)
    BY <1>2 DEF Handled
  <2>2. /\ After(x, v, OnMassQuote(n, v, x).node)
        /\ \/ OnMassQuote(n, v, x).sends.kind = "None"
           \/ /\ v.mine = {} /\ OnMassQuote(n, v, x).node.mine = x.codes \ {0}
              /\ OnMassQuote(n, v, x).sends = Request(n, x.codes \ {0}, FALSE)
    BY <1>2, OfferHandled
  <2> QED
    BY <1>2, <2>1, <2>2 DEF Answers
<1>3. ASSUME NEW w, Handled(n, v, x) = Silent(w), After(x, v, w)
      PROVE  Answers(n, v, x)
  <2>1. Handled(n, v, x).node = w /\ Handled(n, v, x).sends.kind = "None"
    BY <1>3 DEF Silent
  <2>2. After(x, v, Handled(n, v, x).node)
    BY <1>3, <2>1
  <2> QED
    BY <2>1, <2>2 DEF Answers
<1>4. CASE x.kind = "Quote"
  <2>1. Handled(n, v, x) = Silent(OnQuote(v, x)) /\ After(x, v, OnQuote(v, x))
    BY <1>4, QuoteHandled DEF Handled
  <2> QED
    BY <1>3, <2>1
<1>5. CASE x.kind = "Data"
  <2>1. Handled(n, v, x) = Silent(OnData(v, x)) /\ After(x, v, OnData(v, x))
    BY <1>5, DataHandled DEF Handled
  <2> QED
    BY <1>3, <2>1
<1>6. CASE x.kind = "Status"
  <2> DEFINE w == [v EXCEPT !.suspended = x.suspend]
  <2>1. Handled(n, v, x) = Silent(w)
    BY <1>6 DEF Handled
  <2>2. x.suspend \in BOOLEAN
    BY <1>6, MessageIs
  <2>3. w \in NodeRecord
    BY <2>2 DEF NodeRecord
  <2>4. /\ w.pc = v.pc /\ w.down = v.down /\ w.symbols = v.symbols
        /\ w.mine = v.mine /\ w.applied = v.applied /\ w.suspended = x.suspend
        /\ w.last = v.last /\ w.bus = v.bus
    BY DEF NodeRecord
  <2> HIDE DEF w
  <2>5. After(x, v, w)
    BY <1>6, <2>3, <2>4, ReadsNothing DEF After, Suspends
  <2> QED
    BY <1>3, <2>1, <2>5
<1>7. CASE x.kind = "Cancel"
  <2>1. Handled(n, v, x) = Silent(BusQuit(v))
    BY <1>7 DEF Handled
  <2>2. After(x, v, BusQuit(v))
    BY <1>7, BusQuitIs DEF After, Reads, IsQuoteOf
  <2> QED
    BY <1>3, <2>1, <2>2
<1>8. CASE x.kind = "Granted"
  <2> DEFINE w == [v EXCEPT !.applied = TRUE]
  <2>1. Handled(n, v, x) = Silent(w)
    BY <1>8 DEF Handled
  <2>3. w \in NodeRecord
    BY DEF NodeRecord
  <2>4. /\ w.pc = v.pc /\ w.down = v.down /\ w.symbols = v.symbols
        /\ w.mine = v.mine /\ w.suspended = v.suspended
        /\ w.last = v.last /\ w.bus = v.bus
    BY DEF NodeRecord
  <2> HIDE DEF w
  <2>5. After(x, v, w)
    BY <1>8, <2>3, <2>4, ReadsNothing DEF After
  <2> QED
    BY <1>3, <2>1, <2>5
<1> QED
  BY <1>1, <1>2, <1>4, <1>5, <1>6, <1>7, <1>8

\* A node that has handled the first of its messages fits in as before.
LEMMA FitShrunk ==
    ASSUME NEW n \in Nodes, NEW m, NEW q, NEW S, NEW v, NEW halted,
           Fit(n, m, q, S, v, halted), v.pc # "off", q # << >>,
           NEW w, After(Head(q), v, w)
    PROVE  /\ Fit(n, m, Tail(q), S, w, halted)
           /\ Claims(n, Tail(q), S, w) \subseteq Claims(n, q, S, v)
<1> DEFINE x == Head(q)
<1>0. q \in Seq(Fine(m))
  BY DEF Fit, Shape
<1>1. /\ Tail(q) \in Seq(Fine(m)) /\ x \in Fine(m)
      /\ ToSet(Tail(q)) \subseteq ToSet(q) /\ x \in ToSet(q)
  BY <1>0, Shrunk
<1>2. Told(Tail(q), w, halted)
  <2>1. w.suspended => Suspends(Head(q)) \/ (v.suspended /\ Head(q).kind # "Status")
    BY DEF After
  <2>2. Told(q, v, halted)
    BY DEF Fit
  <2> QED
    BY <1>0, <2>1, <2>2, ToldShrunk
<1>3. Speaks(x) \subseteq DOMAIN m
  BY <1>1 DEF Fine, Speaks
<1>a. x = Head(q)
  OBVIOUS
<1> HIDE DEF x
<1>4. After(x, v, w)
  BY <1>a
<1>5. Shape(n, m, Tail(q), S, w)
  BY <1>1, <1>3, <1>4 DEF Fit, Shape, After
<1>6. OffersIn(Tail(q)) \subseteq OffersIn(q)
      /\ (x.kind = "MassQuote" => x.codes \ {0} \subseteq OffersIn(q))
  BY <1>1 DEF OffersIn
<1>7. Claims(n, Tail(q), S, w) \subseteq Claims(n, q, S, v)
  BY <1>4, <1>6 DEF Claims, After
<1>8. Served(n, Tail(q), S, w)
  <2> SUFFICES ASSUME Promised(Tail(q), w)
               PROVE  w.mine # {} /\ (w.pc # "left" => n \in DOMAIN S /\ S[n] = w.mine)
    BY DEF Served
  <2>1. Promised(q, v)
    BY <1>1, <1>4 DEF Promised, After
  <2>2. v.mine # {} /\ (v.pc # "left" => n \in DOMAIN S /\ S[n] = v.mine)
    BY <2>1 DEF Fit, Served
  <2> QED
    BY <1>4, <2>2 DEF After
<1>9. Backed(n, m, Tail(q), S, w)
  BY <1>7 DEF Fit, Backed
<1> QED
  BY <1>2, <1>5, <1>7, <1>8, <1>9 DEF Fit

-----------------------------------------------------------------------------
(* The acceptor. *)

LEMMA PutSubscription ==
    ASSUME NEW S \in Subscriptions, NEW n \in Nodes, NEW w \in Wishes
    PROVE  /\ Put(S, n, w) \in Subscriptions /\ SameButFor(n, S, Put(S, n, w))
           /\ DOMAIN Put(S, n, w) = DOMAIN S \cup {n} /\ Put(S, n, w)[n] = w
           /\ \A k \in DOMAIN S \ {n} : Put(S, n, w)[k] = S[k]
<1>1. DOMAIN S \subseteq Nodes /\ S \in [DOMAIN S -> Wishes]
  BY SubscriptionIs
<1> DEFINE Z == Put(S, n, w)
<1>2. /\ DOMAIN Z = DOMAIN S \cup {n} /\ Z = [k \in DOMAIN Z |-> Z[k]] /\ Z[n] = w
      /\ \A k \in DOMAIN S \ {n} : Z[k] = S[k]
  BY DEF Put
<1> HIDE DEF Z
<1>3. \A k \in DOMAIN Z : Z[k] \in Wishes
  BY <1>1, <1>2
<1>4. DOMAIN Z \subseteq Nodes /\ Z \in [DOMAIN Z -> Wishes]
  BY <1>1, <1>2, <1>3
<1>5. Z \in Subscriptions
  BY <1>4, SubscriptionIs
<1>6. SameButFor(n, S, Z)
  BY <1>2 DEF SameButFor
<1> QED
  BY <1>2, <1>5, <1>6 DEF Z

\* The subscription of a node becomes what it works on.
LEMMA GoodSubscribed ==
    ASSUME NEW m, NEW q, NEW S, NEW N, NEW halted, Good(m, q, S, N, halted),
           NEW n \in Nodes, N[n].pc # "off"
    PROVE  Good(m, q, Put(S, n, N[n].mine), N, halted)
<1> DEFINE v == N[n]
           w == q[n]
           Z == Put(S, n, v.mine)
<1>1. /\ q \in Queues /\ N \in AllNodes /\ S \in Subscriptions /\ m \in Markets
      /\ Fit(n, m, w, S, v, halted)
  BY DEF Good
<1>2. w \in Seq(Messages) /\ v \in NodeRecord /\ v.mine \in Wishes
  BY <1>1 DEF Queues, AllNodes, NodeRecord, Wishes
<1>3. /\ Z \in Subscriptions /\ SameButFor(n, S, Z)
      /\ n \in DOMAIN Z /\ Z[n] = v.mine
  <2> DEFINE mine == v.mine
  <2>1. S \in Subscriptions /\ mine \in Wishes
    BY <1>1, <1>2
  <2> HIDE DEF mine, v
  <2>2. /\ Put(S, n, mine) \in Subscriptions /\ SameButFor(n, S, Put(S, n, mine))
        /\ DOMAIN Put(S, n, mine) = DOMAIN S \cup {n} /\ Put(S, n, mine)[n] = mine
    BY <2>1, PutSubscription
  <2> QED
    BY <2>2 DEF mine
<1>4. [q EXCEPT ![n] = w] = q /\ [N EXCEPT ![n] = v] = N
  BY <1>1 DEF Queues, AllNodes
<1> HIDE DEF Z, v, w
<1>5. Claims(n, w, Z, v) \subseteq Claims(n, w, S, v)
  BY <1>3 DEF Claims
<1>6. Fit(n, m, w, Z, v, halted)
  <2>1. Shape(n, m, w, Z, v)
    BY <1>1, <1>3 DEF Fit, Shape
  <2>2. Served(n, w, Z, v)
    BY <1>1, <1>3 DEF Fit, Served
  <2>3. Backed(n, m, w, Z, v)
    BY <1>1, <1>5 DEF Fit, Backed
  <2> QED
    BY <1>1, <2>1, <2>2, <2>3 DEF Fit
<1>7. /\ mode.lock => {} \cap Locked(m) = {}
      /\ mode.lock => Claims(n, w, Z, v) \subseteq Claims(n, q[n], S, N[n]) \cup {}
  BY <1>5 DEF v, w
<1>8. Good(m, [q EXCEPT ![n] = w], Z, [N EXCEPT ![n] = v], halted)
  BY <1>1, <1>2, <1>3, <1>6, <1>7, GoodOne
<1> QED
  BY <1>4, <1>8 DEF Z, v

\* The cash goes to a node that is subscribed to what it works on.
LEMMA GoodGranted ==
    ASSUME NEW m, NEW q, NEW S, NEW N, NEW halted, Good(m, q, S, N, halted),
           NEW n \in Nodes, N[n].pc # "off", N[n].mine # {}, n \in DOMAIN S,
           S[n] = N[n].mine
    PROVE  Good(m, [q EXCEPT ![n] = Append(q[n], [kind |-> "Granted"])], S, N, halted)
<1> DEFINE x == [kind |-> "Granted"]
           v == N[n]
           w == Append(q[n], x)
<1>1. /\ q \in Queues /\ N \in AllNodes /\ S \in Subscriptions /\ m \in Markets
      /\ Fit(n, m, q[n], S, v, halted)
  BY DEF Good
<1>2. q[n] \in Seq(Messages) /\ v \in NodeRecord /\ [N EXCEPT ![n] = v] = N
  BY <1>1 DEF Queues, AllNodes
<1>3. x \in Fine(m) /\ ~Suspends(x) /\ x.kind # "MassQuote"
  BY DEF Fine, Messages, Words, Suspends
<1>4. Fit(n, m, w, S, v, halted) /\ Claims(n, w, S, v) = Claims(n, q[n], S, v)
  BY <1>1, <1>3, FitGrown
<1>5. w \in Seq(Messages)
  BY <1>2, <1>3 DEF Fine
<1>6. /\ mode.lock => {} \cap Locked(m) = {}
      /\ mode.lock => Claims(n, w, S, v) \subseteq Claims(n, q[n], S, N[n]) \cup {}
      /\ SameButFor(n, S, S)
  BY <1>4 DEF SameButFor
<1> HIDE DEF w, v, x
<1>7. Good(m, [q EXCEPT ![n] = w], S, [N EXCEPT ![n] = v], halted)
  BY <1>1, <1>2, <1>4, <1>5, <1>6, GoodOne
<1> QED
  BY <1>2, <1>7 DEF w, x

\* What a handler leaves alone.
HandlerRest ==
    UNCHANGED <<mode, ready, stop, feed, bus, ticks>>

LEMMA RequestKeeps ==
    ASSUME SessionsInv, HandlerRest, NEW n \in Nodes, Online(n),
           NEW rest, NEW v, v.pc # "off", node' = [node EXCEPT ![n] = v],
           Good(market, [toNode EXCEPT ![n] = rest], sessions, node', stop),
           NEW ret \in BOOLEAN, NEW x, x = Request(n, v.mine, ret),
           node[n].applied /\ v.mine # {} => n \in accounts,
           QuoteRequest(n, x, rest)
    PROVE  SessionsInv'
<1> DEFINE q == [toNode EXCEPT ![n] = rest]
           before == [market |-> market, toNode |-> q, login |-> login]
           after == IF x.ret THEN MassQuote(before, n) ELSE before
<1>1. /\ x.symbols = v.mine /\ x.ret = ret
      /\ x.cash <=> v.mine # {} /\ ~node[n].applied
  BY DEF Request
<1>2. /\ Rest /\ Good(market, toNode, sessions, node, stop)
      /\ accounts = {k \in DOMAIN sessions : sessions[k] # {}}
  BY DEF SessionsInv, AccountIffSubscribed, Known
<1>3. /\ market \in Markets /\ q \in Queues /\ sessions \in Subscriptions
      /\ node' \in AllNodes /\ login \subseteq Nodes
  BY <1>2 DEF Good, Rest
<1>4. node'[n] = v /\ \A k \in Nodes \ {n} : node'[k] = node[k]
  BY <1>2 DEF Good, AllNodes
<1>5. ASSUME NEW M, Good(M, toNode', sessions', node', stop), market' = M,
             login' \subseteq Nodes,
             accounts' = {k \in DOMAIN sessions' : sessions'[k] # {}}
      PROVE  SessionsInv'
  <2>1. Rest'
    BY <1>2, <1>5 DEF Rest, HandlerRest
  <2>2. AccountIffSubscribed'
    BY <1>5 DEF AccountIffSubscribed, Known
  <2>3. mode' = mode /\ stop' = stop
    BY DEF HandlerRest
  <2>4. Good(market', toNode', sessions', node', stop')
    BY <1>5, <2>3
  <2> QED
    BY <2>1, <2>2, <2>3, <2>4, GoodAfter
<1>a. before.market = market /\ before.toNode = q /\ before.login = login
  OBVIOUS
<1>6. CASE \A c \in DOMAIN market : market[c].locked
  <2>1. Becomes(before) /\ UNCHANGED <<sessions, accounts>>
    BY <1>6 DEF QuoteRequest
  <2>2. market' = market /\ toNode' = q /\ login' = login
    BY <2>1, <1>a DEF Becomes
  <2> QED
    BY <1>2, <1>3, <1>5, <2>1, <2>2
<1>7. CASE ~ \A c \in DOMAIN market : market[c].locked
  <2> DEFINE Z == IF x.symbols = {} THEN sessions ELSE Put(sessions, n, x.symbols)
  <2>1. /\ sessions' = Z
        /\ IF x.cash
           THEN /\ accounts' = accounts \cup {n}
                /\ Becomes([after EXCEPT !.toNode =
                               Sent(after.toNode, n, [kind |-> "Granted"])])
           ELSE UNCHANGED accounts /\ Becomes(after)
    BY <1>7 DEF QuoteRequest
  <2>2. Good(market, q, Z, node', stop)
    <3>1. CASE v.mine = {}
      BY <1>1, <3>1
    <3>2. CASE v.mine # {}
      <4>1. Z = Put(sessions, n, node'[n].mine) /\ node'[n].pc # "off"
        BY <1>1, <1>4, <3>2
      <4> HIDE DEF Z, q
      <4>2. Good(market, q, sessions, node', stop)
        BY DEF q
      <4>3. Good(market, q, Put(sessions, n, node'[n].mine), node', stop)
        BY <4>1, <4>2, GoodSubscribed
      <4> QED
        BY <4>1, <4>3
    <3> QED
      BY <3>1, <3>2
  <2>a. v.mine \in Wishes =>
          LET Y == Put(sessions, n, v.mine)
          IN  /\ DOMAIN Y = DOMAIN sessions \cup {n} /\ Y[n] = v.mine
              /\ \A k \in DOMAIN sessions \ {n} : Y[k] = sessions[k]
    <3> DEFINE mine == v.mine
    <3>1. sessions \in Subscriptions
      BY <1>3
    <3> HIDE DEF mine
    <3>2. mine \in Wishes =>
            /\ DOMAIN Put(sessions, n, mine) = DOMAIN sessions \cup {n}
            /\ Put(sessions, n, mine)[n] = mine
            /\ \A k \in DOMAIN sessions \ {n} : Put(sessions, n, mine)[k] = sessions[k]
      BY <3>1, PutSubscription
    <3> QED
      BY <3>2 DEF mine
  <2>3. v.mine # {} => n \in DOMAIN Z /\ Z[n] = v.mine
    <3>1. node'[n].mine \in Wishes
      BY <1>3 DEF AllNodes, NodeRecord, Wishes
    <3>2. v.mine \in Wishes
      BY <1>4, <3>1
    <3> QED
      BY <1>1, <2>a, <3>2
  <2>4. x.cash => {k \in DOMAIN Z : Z[k] # {}} = accounts \cup {n}
    <3> SUFFICES ASSUME x.cash PROVE {k \in DOMAIN Z : Z[k] # {}} = accounts \cup {n}
      OBVIOUS
    <3>1. v.mine # {} /\ v.mine \in Wishes /\ Z = Put(sessions, n, v.mine)
      BY <1>1, <1>3, <1>4 DEF AllNodes, NodeRecord, Wishes
    <3>2. /\ DOMAIN Z = DOMAIN sessions \cup {n} /\ Z[n] = v.mine
          /\ \A k \in DOMAIN sessions \ {n} : Z[k] = sessions[k]
      BY <2>a, <3>1
    <3> HIDE DEF Z
    <3> QED
      BY <1>2, <3>1, <3>2
  <2>5. ~x.cash => {k \in DOMAIN Z : Z[k] # {}} = accounts
    <3>1. CASE v.mine = {}
      BY <1>1, <1>2, <3>1
    <3>2. CASE v.mine # {}
      <4> SUFFICES ASSUME ~x.cash PROVE {k \in DOMAIN Z : Z[k] # {}} = accounts
        OBVIOUS
      <4>1. n \in accounts
        BY <1>1, <3>2
      <4>2. v.mine \in Wishes /\ Z = Put(sessions, n, v.mine)
        BY <1>1, <1>3, <1>4, <3>2 DEF AllNodes, NodeRecord, Wishes
      <4>3. /\ DOMAIN Z = DOMAIN sessions \cup {n} /\ Z[n] = v.mine
            /\ \A k \in DOMAIN sessions \ {n} : Z[k] = sessions[k]
        BY <2>a, <4>2
      <4> HIDE DEF Z
      <4> QED
        BY <1>2, <3>2, <4>1, <4>3
    <3> QED
      BY <3>1, <3>2
  <2> HIDE DEF Z
  <2>6. Sees(node')
    BY <1>4 DEF Sees, Online
  <2>7. Sound(after, market, q, Z, node', stop)
    <3>1. Sound(before, market, q, Z, node', stop)
      <4>1. before \in Exchanges
        BY <1>3 DEF Exchanges
      <4> HIDE DEF before, q
      <4>2. Good(before.market, before.toNode, Z, node', stop)
        BY <1>a, <2>2
      <4> QED
        BY <1>a, <4>1, <4>2, CalmSame DEF Sound
    <3> HIDE DEF before
    <3>2. Sound(MassQuote(before, n), market, q, Z, node', stop)
      BY <2>6, <3>1, MassQuoteKeeps
    <3> QED
      BY <3>1, <3>2
  <2> HIDE DEF after, before
  <2>8. /\ after.login \subseteq Nodes
        /\ Good(after.market, after.toNode, Z, node', stop)
        /\ after = [market |-> after.market, toNode |-> after.toNode, login |-> after.login]
    BY <2>7 DEF Sound, Exchanges
  <2>9. CASE x.cash
    <3> DEFINE r == [after.toNode EXCEPT ![n] = Append(after.toNode[n], [kind |-> "Granted"])]
    <3>1. Sent(after.toNode, n, [kind |-> "Granted"]) = r
      BY DEF Sent
    <3>2. Good(after.market, r, Z, node', stop)
      BY <1>1, <1>4, <2>3, <2>8, <2>9, GoodGranted
    <3> HIDE DEF r
    <3>3. market' = after.market /\ toNode' = r /\ login' = after.login
      BY <2>1, <2>8, <2>9, <3>1 DEF Becomes
    <3> QED
      BY <1>5, <2>1, <2>4, <2>8, <2>9, <3>2, <3>3
  <2>10. CASE ~x.cash
    <3>1. market' = after.market /\ toNode' = after.toNode /\ login' = after.login
      BY <2>1, <2>10 DEF Becomes
    <3> QED
      BY <1>5, <2>1, <2>5, <2>8, <2>10, <3>1
  <2> QED
    BY <2>9, <2>10
<1> QED
  BY <1>6, <1>7

\* A node that has left may lose its subscription, and its account with it.
LEMMA LeavingKeeps ==
    ASSUME SessionsInv, HandlerRest, NEW n \in Nodes,
           NEW v, v.pc = "left", node' = [node EXCEPT ![n] = v],
           Good(market, toNode, sessions, node', stop), Leaving(n)
    PROVE  SessionsInv'
<1>1. /\ Rest /\ Good(market, toNode, sessions, node, stop)
      /\ accounts = {k \in DOMAIN sessions : sessions[k] # {}}
  BY DEF SessionsInv, AccountIffSubscribed, Known
<1>2. UNCHANGED <<mode, ready, stop, feed, bus, ticks, market, toNode, login>>
  BY DEF Leaving, HandlerRest
<1>3. Rest'
  BY <1>1, <1>2 DEF Rest
<1>4. CASE sessions' = sessions /\ accounts' = accounts
  <2>1. AccountIffSubscribed'
    BY <1>1, <1>4 DEF AccountIffSubscribed, Known
  <2> QED
    BY <1>2, <1>3, <1>4, <2>1, GoodAfter
<1>5. CASE n \notin Known /\ sessions' = sessions /\ accounts' = accounts \ {n}
  <2>1. AccountIffSubscribed'
    BY <1>1, <1>5 DEF AccountIffSubscribed, Known
  <2> QED
    BY <1>2, <1>3, <1>5, <2>1, GoodAfter
<1>6. CASE n \in Known /\ sessions' = Put(sessions, n, {}) /\ accounts' = accounts \ {n}
  <2> DEFINE Z == Put(sessions, n, {})
             w == toNode[n]
  <2>1. /\ sessions \in Subscriptions /\ market \in Markets /\ toNode \in Queues
        /\ node' \in AllNodes /\ {} \in Wishes /\ node \in AllNodes
    BY <1>1 DEF Good, Wishes
  <2>2. /\ Z \in Subscriptions /\ SameButFor(n, sessions, Z)
        /\ DOMAIN Z = DOMAIN sessions \cup {n} /\ Z[n] = {}
        /\ \A k \in DOMAIN sessions \ {n} : Z[k] = sessions[k]
    BY <2>1, PutSubscription
  <2>3. /\ node'[n] = v /\ v \in NodeRecord /\ w \in Seq(Messages)
        /\ Fit(n, market, w, sessions, v, stop)
        /\ [toNode EXCEPT ![n] = w] = toNode /\ [node' EXCEPT ![n] = v] = node'
    <3>1. node'[n] = v
      BY <2>1 DEF AllNodes
    <3>2. Fit(n, market, w, sessions, node'[n], stop)
      BY DEF Good
    <3> QED
      BY <2>1, <3>1, <3>2 DEF AllNodes, Queues
  <2> HIDE DEF Z, w
  <2>4. Claims(n, w, Z, v) \subseteq Claims(n, w, sessions, v)
    BY <2>2 DEF Claims
  <2>5. Fit(n, market, w, Z, v, stop)
    <3>1. Shape(n, market, w, Z, v)
      BY <2>2, <2>3 DEF Fit, Shape
    <3>2. Served(n, w, Z, v)
      BY <2>3 DEF Fit, Served
    <3>3. Backed(n, market, w, Z, v)
      BY <2>3, <2>4 DEF Fit, Backed
    <3> QED
      BY <2>3, <3>1, <3>2, <3>3 DEF Fit
  <2>6. /\ mode.lock => {} \cap Locked(market) = {}
        /\ mode.lock => Claims(n, w, Z, v) \subseteq
                            Claims(n, toNode[n], sessions, node'[n]) \cup {}
    BY <2>3, <2>4 DEF w
  <2> DEFINE N == node'
  <2>a. Good(market, toNode, sessions, N, stop)
    OBVIOUS
  <2>b. /\ mode.lock => {} \cap Locked(market) = {}
        /\ mode.lock => Claims(n, w, Z, v) \subseteq
                            Claims(n, toNode[n], sessions, N[n]) \cup {}
    BY <2>6
  <2> HIDE DEF N
  <2>c. Good(market, [toNode EXCEPT ![n] = w], Z, [N EXCEPT ![n] = v], stop)
    BY <2>1, <2>2, <2>3, <2>5, <2>a, <2>b, GoodOne
  <2>7. Good(market, [toNode EXCEPT ![n] = w], Z, [node' EXCEPT ![n] = v], stop)
    BY <2>c DEF N
  <2>8. Good(market', toNode', sessions', node', stop')
    BY <1>2, <1>6, <2>3, <2>7 DEF Z
  <2>9. accounts' = {k \in DOMAIN Z : Z[k] # {}}
    BY <1>1, <1>6, <2>2
  <2>10. AccountIffSubscribed'
    BY <1>6, <2>9 DEF AccountIffSubscribed, Known, Z
  <2> QED
    BY <1>2, <1>3, <2>8, <2>10, GoodAfter
<1> QED
  BY <1>4, <1>5, <1>6 DEF Leaving, Unsubscribed

-----------------------------------------------------------------------------
(* The nodes. *)

LEMMA FreshIs ==
    ASSUME Rest, NEW n \in Nodes
    PROVE  /\ Fresh(n) \in NodeRecord /\ Fresh(n).pc = "off"
           /\ Fresh(n).symbols = << >> /\ Fresh(n).down = {} /\ ~Fresh(n).applied
           /\ ~Fresh(n).suspended /\ Fresh(n).mine = mode.chosen[n]
           /\ mode.lock => Fresh(n).mine = {}
<1>1. << >> \in Books
  <2>1. DOMAIN << >> = {} /\ << >> \in [{} -> {"LIST", "DELISTING"}]
    OBVIOUS
  <2> QED
    BY <2>1, BookIs
<1>2. mode.chosen[n] \in SUBSET (Codes \ {0}) /\ (mode.lock => mode.chosen[n] = {})
  BY DEF Rest, Wishes
<1>3. [c \in Codes |-> 0] \in [Codes -> Nat]
  OBVIOUS
<1> QED
  BY <1>1, <1>2, <1>3 DEF Fresh, NodeRecord

LEMMA EmptyQueue ==
    /\ ToSet(<< >>) = {} /\ OffersIn(<< >>) = {} /\ DOMAIN << >> = {}
    /\ \A T : << >> \in Seq(T)
<1>1. DOMAIN << >> = {}
  OBVIOUS
<1>2. ToSet(<< >>) = {}
  BY <1>1 DEF ToSet
<1> QED
  BY <1>1, <1>2 DEF OffersIn

LEMMA FreshFits ==
    ASSUME Rest, NEW n \in Nodes, NEW m, NEW S, NEW halted,
           mode.lock => (IF n \in DOMAIN S THEN S[n] ELSE {}) \subseteq Locked(m)
    PROVE  Fit(n, m, << >>, S, Fresh(n), halted)
<1>1. /\ Fresh(n) \in NodeRecord /\ Fresh(n).pc = "off"
      /\ Fresh(n).symbols = << >> /\ Fresh(n).down = {} /\ ~Fresh(n).applied
      /\ ~Fresh(n).suspended /\ Fresh(n).mine = mode.chosen[n]
      /\ mode.lock => Fresh(n).mine = {}
  BY FreshIs
<1>2. Shape(n, m, << >>, S, Fresh(n))
  BY <1>1, EmptyQueue DEF Shape
<1>3. Served(n, << >>, S, Fresh(n))
  BY <1>1, EmptyQueue DEF Served, Promised
<1>4. Told(<< >>, Fresh(n), halted)
  BY <1>1, EmptyQueue DEF Told
<1>5. Backed(n, m, << >>, S, Fresh(n))
  BY <1>1, EmptyQueue DEF Backed, Claims
<1> QED
  BY <1>2, <1>3, <1>4, <1>5 DEF Fit

LEMMA SessionStarts ==
    ASSUME Init
    PROVE  SessionsInv
<1>1. Rest
  <2>1. mode \in [lock : Locking, chosen : [Nodes -> Picks]]
        /\ (mode.lock => \A n \in Nodes : mode.chosen[n] = {})
    BY DEF Init
  <2>2. Picks \subseteq Wishes /\ Locking \subseteq BOOLEAN
    BY SessionAssumption DEF Wishes
  <2>3. mode \in [lock : BOOLEAN, chosen : [Nodes -> Wishes]]
    BY <2>1, <2>2
  <2>4. << >> \in Seq(Records) /\ [c \in Codes |-> 0] \in [Codes -> Nat]
    OBVIOUS
  <2> QED
    BY <2>1, <2>3, <2>4 DEF Init, Rest
<1>2. market = << >> /\ sessions = << >> /\ node = [n \in Nodes |-> Fresh(n)]
      /\ toNode = [n \in Nodes |-> << >>] /\ accounts = {}
  BY DEF Init
<1>3. market \in Markets /\ sessions \in Subscriptions
  <2>1. DOMAIN << >> = {} /\ << >> \in [{} -> Listings] /\ << >> \in [{} -> Wishes]
    OBVIOUS
  <2> QED
    BY <1>2, <2>1, MarketIs, SubscriptionIs
<1>4. toNode \in Queues /\ node \in AllNodes
  <2>1. \A n \in Nodes : Fresh(n) \in NodeRecord
    BY <1>1, FreshIs
  <2> QED
    BY <1>2, <2>1 DEF Queues, AllNodes
<1>5. \A n \in Nodes : Fit(n, market, toNode[n], sessions, node[n], stop)
  <2>1. ASSUME NEW n \in Nodes PROVE Fit(n, market, toNode[n], sessions, node[n], stop)
    <3>1. n \notin DOMAIN sessions
      BY <1>2, EmptyQueue
    <3>2. Fit(n, market, << >>, sessions, Fresh(n), stop)
      BY <1>1, <3>1, FreshFits
    <3> QED
      BY <1>2, <3>2
  <2> QED
    BY <2>1
<1>6. Apart(toNode, sessions, node)
  <2>1. ASSUME mode.lock, NEW n \in Nodes PROVE Claims(n, toNode[n], sessions, node[n]) = {}
    <3>1. n \notin DOMAIN sessions /\ OffersIn(toNode[n]) = {}
      BY <1>2, EmptyQueue
    <3>2. node[n].mine = {}
      BY <1>1, <1>2, <2>1, FreshIs
    <3> QED
      BY <3>1, <3>2 DEF Claims
  <2> QED
    BY <2>1 DEF Apart
<1>7. AccountIffSubscribed
  BY <1>2, EmptyQueue DEF AccountIffSubscribed, Known
<1> QED
  BY <1>1, <1>3, <1>4, <1>5, <1>6, <1>7 DEF SessionsInv, Good

\* A step of a node that tells the exchange nothing new.
LEMMA NodeKeeps ==
    ASSUME SessionsInv, NEW n \in Nodes, NEW w \in Seq(Messages), NEW v \in NodeRecord,
           UNCHANGED <<mode, market, ready, stop, accounts, login, feed, bus, ticks>>,
           node' = [node EXCEPT ![n] = v], toNode' = [toNode EXCEPT ![n] = w],
           sessions' \in Subscriptions, SameButFor(n, sessions, sessions'),
           n \in Known => n \in DOMAIN sessions' /\ sessions'[n] = sessions[n],
           n \notin Known => n \notin DOMAIN sessions' \/ sessions'[n] = {},
           Fit(n, market, w, sessions', v, stop),
           mode.lock => v.mine \subseteq node[n].mine,
           OffersIn(w) \subseteq OffersIn(toNode[n])
    PROVE  SessionsInv'
<1>1. /\ Rest /\ Good(market, toNode, sessions, node, stop)
      /\ accounts = {k \in DOMAIN sessions : sessions[k] # {}}
  BY DEF SessionsInv, AccountIffSubscribed, Known
<1>2. market \in Markets /\ sessions \in Subscriptions
  BY <1>1 DEF Good
<1> DEFINE Z == sessions'
<1>3. Z \in Subscriptions /\ SameButFor(n, sessions, Z) /\ Fit(n, market, w, Z, v, stop)
  OBVIOUS
<1>4. /\ n \in DOMAIN sessions => n \in DOMAIN Z /\ Z[n] = sessions[n]
      /\ n \notin DOMAIN sessions => n \notin DOMAIN Z \/ Z[n] = {}
  BY DEF Known
<1>5. \A k \in Nodes \ {n} : /\ k \in DOMAIN Z <=> k \in DOMAIN sessions
                             /\ k \in DOMAIN sessions => Z[k] = sessions[k]
  BY <1>3 DEF SameButFor
<1>6. DOMAIN Z \subseteq Nodes /\ DOMAIN sessions \subseteq Nodes
  BY <1>2, <1>3, SubscriptionIs
<1>z. Z = sessions'
  OBVIOUS
<1> HIDE DEF Z
<1>7. {k \in DOMAIN Z : Z[k] # {}} = {k \in DOMAIN sessions : sessions[k] # {}}
  BY <1>4, <1>5, <1>6
<1>8. AccountIffSubscribed'
  BY <1>1, <1>7, <1>z DEF AccountIffSubscribed, Known
<1>9. /\ mode.lock => {} \cap Locked(market) = {}
      /\ mode.lock => Claims(n, w, Z, v) \subseteq
                          Claims(n, toNode[n], sessions, node[n]) \cup {}
  BY <1>4 DEF Claims
<1>10. Good(market, [toNode EXCEPT ![n] = w], Z, [node EXCEPT ![n] = v], stop)
  BY <1>1, <1>2, <1>3, <1>9, GoodOne
<1>11. Good(market', toNode', sessions', node', stop')
  BY <1>10, <1>z
<1>12. Rest'
  BY <1>1 DEF Rest
<1> QED
  BY <1>8, <1>11, <1>12, GoodAfter

LEMMA LogonKeeps ==
    ASSUME SessionsInv, NEW n \in Nodes, Logon(n)
    PROVE  SessionsInv'
<1> DEFINE v == [Fresh(n) EXCEPT !.pc = "on"]
           Z == IF n \in Known THEN sessions ELSE Put(sessions, n, {})
<1>1. /\ ~Online(n) /\ node' = [node EXCEPT ![n] = v] /\ sessions' = Z
      /\ UNCHANGED <<mode, market, ready, stop, accounts, login, feed, bus, ticks, toNode>>
  BY DEF Logon
<1>2. Rest /\ Good(market, toNode, sessions, node, stop)
  BY DEF SessionsInv
<1>3. /\ Fit(n, market, toNode[n], sessions, node[n], stop) /\ sessions \in Subscriptions
      /\ toNode \in Queues
  BY <1>2 DEF Good
<1>4. toNode[n] = << >> /\ node[n] = Fresh(n)
  BY <1>1, <1>3 DEF Fit, Shape, Online
<1>5. /\ Fresh(n) \in NodeRecord
      /\ Fresh(n).symbols = << >> /\ Fresh(n).down = {} /\ ~Fresh(n).applied
      /\ ~Fresh(n).suspended
  BY <1>2, FreshIs
<1>6. /\ v \in NodeRecord /\ v.pc = "on" /\ v.symbols = << >> /\ v.down = {} /\ ~v.applied
      /\ ~v.suspended /\ v.mine = Fresh(n).mine
  <2> HIDE DEF v
  <2>1. v = [Fresh(n) EXCEPT !.pc = "on"]
    BY DEF v
  <2> QED
    BY <1>5, <2>1 DEF NodeRecord
<1> HIDE DEF v
<1>7. /\ Z \in Subscriptions /\ SameButFor(n, sessions, Z) /\ n \in DOMAIN Z
      /\ n \in Known => Z = sessions
      /\ n \notin Known => Z[n] = {}
  <2>1. CASE n \in Known
    BY <1>3, <2>1 DEF SameButFor, Known
  <2>2. CASE n \notin Known
    <3>1. {} \in Wishes /\ sessions \in Subscriptions
      BY <1>3 DEF Wishes
    <3> DEFINE none == {}
    <3>2. none \in Wishes /\ Z = Put(sessions, n, none) /\ none = {}
      BY <2>2, <3>1
    <3> HIDE DEF none, Z
    <3>4. sessions \in Subscriptions
      BY <3>1
    <3>5. none \in Wishes
      BY <3>2
    <3>3. /\ Put(sessions, n, none) \in Subscriptions
          /\ SameButFor(n, sessions, Put(sessions, n, none))
          /\ DOMAIN Put(sessions, n, none) = DOMAIN sessions \cup {n}
          /\ Put(sessions, n, none)[n] = none
      BY <3>4, <3>5, PutSubscription
    <3> QED
      BY <2>2, <3>2, <3>3
  <2> QED
    BY <2>1, <2>2
<1> HIDE DEF Z
<1>8. Fit(n, market, << >>, Z, v, stop)
  <2>1. Shape(n, market, << >>, Z, v)
    BY <1>6, <1>7, EmptyQueue DEF Shape
  <2>2. Served(n, << >>, Z, v)
    BY <1>6, EmptyQueue DEF Served, Promised
  <2>3. Told(<< >>, v, stop)
    BY <1>6, EmptyQueue DEF Told
  <2>4. Backed(n, market, << >>, Z, v)
    <3>1. Backed(n, market, << >>, sessions, Fresh(n))
      BY <1>3, <1>4 DEF Fit
    <3>2. Claims(n, << >>, Z, v) \subseteq Claims(n, << >>, sessions, Fresh(n))
      BY <1>6, <1>7 DEF Claims, Known
    <3> QED
      BY <3>1, <3>2 DEF Backed
  <2> QED
    BY <2>1, <2>2, <2>3, <2>4 DEF Fit
<1>9. toNode' = [toNode EXCEPT ![n] = << >>] /\ << >> \in Seq(Messages)
  BY <1>1, <1>3, <1>4 DEF Queues
<1>10. /\ sessions' \in Subscriptions /\ SameButFor(n, sessions, sessions')
       /\ n \in Known => n \in DOMAIN sessions' /\ sessions'[n] = sessions[n]
       /\ n \notin Known => n \notin DOMAIN sessions' \/ sessions'[n] = {}
       /\ Fit(n, market, << >>, sessions', v, stop)
  BY <1>1, <1>7, <1>8
<1>11. /\ mode.lock => v.mine \subseteq node[n].mine
       /\ OffersIn(<< >>) \subseteq OffersIn(toNode[n])
  BY <1>4, <1>6
<1> QED
  BY <1>1, <1>6, <1>9, <1>10, <1>11, NodeKeeps

\* A node that ends or dies is as new; its subscription may stay.
LEMMA EndKeeps ==
    ASSUME SessionsInv, NEW n \in Nodes, Crash(n) \/ InitiatorStop(n)
    PROVE  SessionsInv'
<1>1. /\ node' = [node EXCEPT ![n] = Fresh(n)] /\ toNode' = [toNode EXCEPT ![n] = << >>]
      /\ UNCHANGED <<mode, market, ready, stop, sessions, accounts, login, feed, bus, ticks>>
  BY DEF Crash, InitiatorStop, exchange
<1>2. Rest /\ Good(market, toNode, sessions, node, stop)
  BY DEF SessionsInv
<1>3. Fit(n, market, toNode[n], sessions, node[n], stop) /\ sessions \in Subscriptions
  BY <1>2 DEF Good
<1>4. Fresh(n) \in NodeRecord /\ (mode.lock => Fresh(n).mine = {}) /\ << >> \in Seq(Messages)
  BY <1>2, FreshIs
<1>5. Fit(n, market, << >>, sessions, Fresh(n), stop)
  <2>1. mode.lock => (IF n \in DOMAIN sessions THEN sessions[n] ELSE {}) \subseteq Locked(market)
    BY <1>3 DEF Fit, Backed, Claims
  <2> QED
    BY <1>2, <2>1, FreshFits
<1>6. /\ sessions' \in Subscriptions /\ SameButFor(n, sessions, sessions')
      /\ n \in Known => n \in DOMAIN sessions' /\ sessions'[n] = sessions[n]
      /\ n \notin Known => n \notin DOMAIN sessions' \/ sessions'[n] = {}
      /\ Fit(n, market, << >>, sessions', Fresh(n), stop)
  BY <1>1, <1>3, <1>5 DEF SameButFor, Known
<1>7. /\ mode.lock => Fresh(n).mine \subseteq node[n].mine
      /\ OffersIn(<< >>) \subseteq OffersIn(toNode[n])
  BY <1>4, EmptyQueue
<1> QED
  BY <1>1, <1>4, <1>6, <1>7, NodeKeeps

LEMMA TradeKeeps ==
    ASSUME SessionsInv, NEW n \in Nodes, Trade(n)
    PROVE  SessionsInv'
<1> DEFINE v == [node[n] EXCEPT !.holds = ~node[n].holds]
<1>1. /\ node[n].pc = "run" /\ node' = [node EXCEPT ![n] = v]
      /\ UNCHANGED <<mode, market, ready, stop, sessions, accounts, login, feed, bus, ticks,
                     toNode>>
  BY DEF Trade, exchange
<1>2. Rest /\ Good(market, toNode, sessions, node, stop)
  BY DEF SessionsInv
<1>3. /\ Fit(n, market, toNode[n], sessions, node[n], stop) /\ sessions \in Subscriptions
      /\ toNode \in Queues /\ node[n] \in NodeRecord
  BY <1>2 DEF Good, AllNodes
<1>4. /\ v \in NodeRecord /\ v.pc = node[n].pc /\ v.symbols = node[n].symbols
      /\ v.down = node[n].down /\ v.applied = node[n].applied
      /\ v.suspended = node[n].suspended /\ v.mine = node[n].mine
  BY <1>3 DEF NodeRecord
<1> HIDE DEF v
<1>5. Fit(n, market, toNode[n], sessions, v, stop)
  <2>1. Shape(n, market, toNode[n], sessions, v)
    BY <1>1, <1>3, <1>4 DEF Fit, Shape
  <2>2. Served(n, toNode[n], sessions, v)
    BY <1>3, <1>4 DEF Fit, Served, Promised
  <2>3. Told(toNode[n], v, stop)
    BY <1>3, <1>4 DEF Fit, Told
  <2>4. Backed(n, market, toNode[n], sessions, v)
    BY <1>3, <1>4 DEF Fit, Backed, Claims
  <2> QED
    BY <2>1, <2>2, <2>3, <2>4 DEF Fit
<1>6. /\ sessions' \in Subscriptions /\ SameButFor(n, sessions, sessions')
      /\ n \in Known => n \in DOMAIN sessions' /\ sessions'[n] = sessions[n]
      /\ n \notin Known => n \notin DOMAIN sessions' \/ sessions'[n] = {}
      /\ Fit(n, market, toNode[n], sessions', v, stop)
  BY <1>1, <1>3, <1>5 DEF SameButFor, Known
<1>7. /\ mode.lock => v.mine \subseteq node[n].mine
      /\ toNode[n] \in Seq(Messages) /\ toNode' = [toNode EXCEPT ![n] = toNode[n]]
  BY <1>1, <1>3, <1>4 DEF Queues
<1>8. OffersIn(toNode[n]) \subseteq OffersIn(toNode[n])
  OBVIOUS
<1> QED
  BY <1>1, <1>4, <1>6, <1>7, <1>8, NodeKeeps

\* What a node has become before the exchange handles what it sends.
LEMMA GoodNode ==
    ASSUME SessionsInv, NEW n \in Nodes, NEW w \in Seq(Messages), NEW v \in NodeRecord,
           Fit(n, market, w, sessions, v, stop),
           Claims(n, w, sessions, v) \subseteq Claims(n, toNode[n], sessions, node[n])
    PROVE  Good(market, [toNode EXCEPT ![n] = w], sessions, [node EXCEPT ![n] = v], stop)
<1>1. Good(market, toNode, sessions, node, stop)
  BY DEF SessionsInv
<1>2. /\ market \in Markets /\ sessions \in Subscriptions
      /\ SameButFor(n, sessions, sessions)
  BY <1>1 DEF Good, SameButFor
<1>3. /\ mode.lock => {} \cap Locked(market) = {}
      /\ mode.lock => Claims(n, w, sessions, v) \subseteq
                          Claims(n, toNode[n], sessions, node[n]) \cup {}
  OBVIOUS
<1> QED
  BY <1>1, <1>2, <1>3, GoodOne

LEMMA HandlesIs ==
    ASSUME NEW n, NEW x, NEW v, NEW rest, Handles(n, x, v, rest)
    PROVE  /\ node' = [node EXCEPT ![n] = v] /\ HandlerRest
           /\ \/ /\ feed = "stopped" \/ x.kind = "None"
                 /\ toNode' = [toNode EXCEPT ![n] = rest]
                 /\ UNCHANGED <<market, sessions, accounts, login>>
              \/ x.kind = "Request" /\ QuoteRequest(n, x, rest)
              \/ x.kind = "Leaving" /\ Leaving(n)
BY DEF Handles, HandlerRest

\* Nobody is told: the message is lost, or there is none.
LEMMA SilentKeeps ==
    ASSUME SessionsInv, HandlerRest, NEW n \in Nodes, NEW rest, NEW v,
           node' = [node EXCEPT ![n] = v],
           Good(market, [toNode EXCEPT ![n] = rest], sessions, [node EXCEPT ![n] = v], stop),
           toNode' = [toNode EXCEPT ![n] = rest],
           UNCHANGED <<market, sessions, accounts, login>>
    PROVE  SessionsInv'
<1>1. Rest'
  BY DEF SessionsInv, Rest, HandlerRest
<1>2. AccountIffSubscribed'
  BY DEF SessionsInv, AccountIffSubscribed, Known
<1>3. mode' = mode /\ stop' = stop
  BY DEF HandlerRest
<1>4. Good(market', toNode', sessions', node', stop')
  BY <1>3
<1> QED
  BY <1>1, <1>2, <1>3, <1>4, GoodAfter

\* A node whose cash is granted has an account while it runs.
LEMMA GrantedHasAccount ==
    ASSUME SessionsInv, NEW n \in Nodes, node[n].applied, node[n].pc # "left"
    PROVE  n \in accounts /\ node[n].mine # {}
<1>1. Fit(n, market, toNode[n], sessions, node[n], stop)
  BY DEF SessionsInv, Good
<1>2. Promised(toNode[n], node[n])
  BY DEF Promised
<1>3. node[n].mine # {} /\ n \in DOMAIN sessions /\ sessions[n] = node[n].mine
  BY <1>1, <1>2 DEF Fit, Served
<1> QED
  BY <1>3 DEF SessionsInv, AccountIffSubscribed, Known

LEMMA CtrlKeeps ==
    ASSUME SessionsInv, NEW n \in Nodes, Ctrl(n)
    PROVE  SessionsInv'
<1> DEFINE v == [node[n] EXCEPT !.pc = "run"]
           w == toNode[n]
           x == Request(n, node[n].mine, TRUE)
<1>1. node[n].pc = "on" /\ Handles(n, x, v, w)
  BY DEF Ctrl
<1>2. /\ node[n] \in NodeRecord /\ w \in Seq(Messages)
      /\ Fit(n, market, w, sessions, node[n], stop)
  BY DEF SessionsInv, Good, AllNodes, Queues
<1>3. /\ v \in NodeRecord /\ v.pc = "run" /\ v.symbols = node[n].symbols
      /\ v.down = node[n].down /\ v.applied = node[n].applied
      /\ v.suspended = node[n].suspended /\ v.mine = node[n].mine
  BY <1>2 DEF NodeRecord
<1>4. x = Request(n, v.mine, TRUE) /\ x.kind = "Request"
  BY <1>3 DEF Request
<1> HIDE DEF v, x, w
<1>5. Claims(n, w, sessions, v) \subseteq Claims(n, toNode[n], sessions, node[n])
  BY <1>3 DEF Claims, w
<1>6. Fit(n, market, w, sessions, v, stop)
  <2>1. Shape(n, market, w, sessions, v)
    BY <1>1, <1>2, <1>3 DEF Fit, Shape
  <2>2. Served(n, w, sessions, v)
    BY <1>1, <1>2, <1>3 DEF Fit, Served, Promised
  <2>3. Told(w, v, stop)
    BY <1>2, <1>3 DEF Fit, Told
  <2>4. Backed(n, market, w, sessions, v)
    BY <1>2, <1>3 DEF Fit, Backed, Claims
  <2> QED
    BY <2>1, <2>2, <2>3, <2>4 DEF Fit
<1>7. Good(market, [toNode EXCEPT ![n] = w], sessions, [node EXCEPT ![n] = v], stop)
  BY <1>2, <1>3, <1>5, <1>6, GoodNode
<1>8. /\ node' = [node EXCEPT ![n] = v] /\ HandlerRest
      /\ \/ /\ toNode' = [toNode EXCEPT ![n] = w]
            /\ UNCHANGED <<market, sessions, accounts, login>>
         \/ QuoteRequest(n, x, w)
  <2>1. x.kind # "Leaving"
    BY <1>4
  <2> QED
    BY <1>1, <2>1, HandlesIs
<1>9. CASE /\ toNode' = [toNode EXCEPT ![n] = w]
           /\ UNCHANGED <<market, sessions, accounts, login>>
  BY <1>7, <1>8, <1>9, SilentKeeps
<1>10. CASE QuoteRequest(n, x, w)
  <2>1. Good(market, [toNode EXCEPT ![n] = w], sessions, node', stop)
    BY <1>7, <1>8
  <2>2. node[n].applied /\ v.mine # {} => n \in accounts
    BY <1>1, GrantedHasAccount
  <2>3. Online(n) /\ v.pc # "off" /\ TRUE \in BOOLEAN
    BY <1>1, <1>3 DEF Online
  <2> QED
    BY <1>4, <1>8, <1>10, <2>1, <2>2, <2>3, RequestKeeps
<1> QED
  BY <1>8, <1>9, <1>10

LEMMA ScriptEndsKeeps ==
    ASSUME SessionsInv, NEW n \in Nodes, ScriptEnds(n)
    PROVE  SessionsInv'
<1> DEFINE u == node[n]
           w == toNode[n]
<1>1. PICK late \in BOOLEAN :
        Handles(n, QuoteStatusReport,
                [node[n] EXCEPT !.pc = "left", !.bus = "gone",
                                !.unread = u.unread /\ ~late,
                                !.blocked = u.blocked /\ ~late,
                                !.down = {c \in u.down : node[n].symbols[c] # "DELISTING"}],
                toNode[n])
  BY DEF ScriptEnds
<1>2. node[n].pc = "run"
  BY DEF ScriptEnds
<1> DEFINE less == {c \in u.down : node[n].symbols[c] # "DELISTING"}
           v == [node[n] EXCEPT !.pc = "left", !.bus = "gone",
                                !.unread = u.unread /\ ~late,
                                !.blocked = u.blocked /\ ~late, !.down = less]
<1>3. Handles(n, QuoteStatusReport, v, w)
  BY <1>1
<1>4. /\ node[n] \in NodeRecord /\ w \in Seq(Messages) /\ toNode \in Queues
      /\ Fit(n, market, w, sessions, node[n], stop)
  BY DEF SessionsInv, Good, AllNodes, Queues
<1>5. less \subseteq u.down
  OBVIOUS
<1> HIDE DEF less
<1>6. /\ v \in NodeRecord /\ v.pc = "left" /\ v.symbols = node[n].symbols
      /\ v.down \subseteq node[n].down /\ v.applied = node[n].applied
      /\ v.suspended = node[n].suspended /\ v.mine = node[n].mine
  BY <1>4, <1>5 DEF NodeRecord
<1> HIDE DEF v, w, u
<1>7. Claims(n, w, sessions, v) \subseteq Claims(n, toNode[n], sessions, node[n])
  BY <1>6 DEF Claims, w
<1>8. Fit(n, market, w, sessions, v, stop)
  <2>1. Shape(n, market, w, sessions, v)
    BY <1>2, <1>4, <1>6 DEF Fit, Shape
  <2>2. Served(n, w, sessions, v)
    BY <1>2, <1>4, <1>6 DEF Fit, Served, Promised
  <2>3. Told(w, v, stop)
    BY <1>4, <1>6 DEF Fit, Told
  <2>4. Backed(n, market, w, sessions, v)
    BY <1>4, <1>6 DEF Fit, Backed, Claims
  <2> QED
    BY <2>1, <2>2, <2>3, <2>4 DEF Fit
<1>9. Good(market, [toNode EXCEPT ![n] = w], sessions, [node EXCEPT ![n] = v], stop)
  BY <1>4, <1>6, <1>7, <1>8, GoodNode
<1>10. QuoteStatusReport.kind = "Leaving"
  BY DEF QuoteStatusReport
<1>11. /\ node' = [node EXCEPT ![n] = v] /\ HandlerRest
       /\ \/ /\ toNode' = [toNode EXCEPT ![n] = w]
             /\ UNCHANGED <<market, sessions, accounts, login>>
          \/ Leaving(n)
  <2>1. QuoteStatusReport.kind # "Request"
    BY <1>10
  <2> QED
    BY <1>3, <2>1, HandlesIs
<1>12. CASE /\ toNode' = [toNode EXCEPT ![n] = w]
            /\ UNCHANGED <<market, sessions, accounts, login>>
  BY <1>9, <1>11, <1>12, SilentKeeps
<1>13. CASE Leaving(n)
  <2>1. [toNode EXCEPT ![n] = w] = toNode
    BY <1>4 DEF Queues, w
  <2>2. Good(market, toNode, sessions, node', stop)
    BY <1>9, <1>11, <2>1
  <2> QED
    BY <1>6, <1>11, <1>13, <2>2, LeavingKeeps
<1> QED
  BY <1>11, <1>12, <1>13

LEMMA FromAppKeeps ==
    ASSUME SessionsInv, NEW n \in Nodes, FromApp(n)
    PROVE  SessionsInv'
<1> DEFINE y == Head(toNode[n])
           w == Tail(toNode[n])
           r == Handled(n, node[n], y)
           v == r.node
           x == r.sends
<1>1. toNode[n] # << >> /\ Handles(n, x, v, w)
  BY DEF FromApp
<1>2. /\ node[n] \in NodeRecord /\ toNode[n] \in Seq(Messages)
      /\ Fit(n, market, toNode[n], sessions, node[n], stop)
  BY DEF SessionsInv, Good, AllNodes, Queues
<1>3. y \in Messages /\ w \in Seq(Messages)
  BY <1>1, <1>2, HeadTailProperties
<1>4. node[n].pc # "off" /\ node[n].down \subseteq DOMAIN node[n].symbols
  BY <1>1, <1>2 DEF Fit, Shape
<1>5. /\ After(y, node[n], v)
      /\ \/ x.kind = "None"
         \/ /\ node[n].mine = {} /\ y.kind = "MassQuote" /\ v.mine = y.codes \ {0}
            /\ x = Request(n, v.mine, FALSE)
  <2> DEFINE u == node[n]
  <2>1. u \in NodeRecord
    BY <1>2
  <2>2. u.down \subseteq DOMAIN u.symbols
    BY <1>4
  <2>3. y \in Messages
    BY <1>3
  <2> HIDE DEF u, y
  <2>4. Answers(n, u, y)
    BY <2>1, <2>2, <2>3, MessageHandled
  <2> QED
    BY <2>4 DEF u, Answers
<1> HIDE DEF x, v, r
<1>6. Fit(n, market, w, sessions, v, stop)
      /\ Claims(n, w, sessions, v) \subseteq Claims(n, toNode[n], sessions, node[n])
  <2>1. After(Head(toNode[n]), node[n], v)
    BY <1>5
  <2> QED
    BY <1>1, <1>2, <1>4, <2>1, FitShrunk
<1> HIDE DEF w, y
<1>7. v \in NodeRecord /\ v.pc = node[n].pc
  BY <1>5 DEF After
<1>8. Good(market, [toNode EXCEPT ![n] = w], sessions, [node EXCEPT ![n] = v], stop)
  BY <1>3, <1>6, <1>7, GoodNode
<1>9. /\ node' = [node EXCEPT ![n] = v] /\ HandlerRest
      /\ \/ /\ toNode' = [toNode EXCEPT ![n] = w]
            /\ UNCHANGED <<market, sessions, accounts, login>>
         \/ x.kind = "Request" /\ QuoteRequest(n, x, w)
  <2>1. Request(n, v.mine, FALSE).kind = "Request"
    BY DEF Request
  <2>2. x.kind # "Leaving"
    BY <1>5, <2>1
  <2> QED
    BY <1>1, <2>2, HandlesIs
<1>10. CASE /\ toNode' = [toNode EXCEPT ![n] = w]
            /\ UNCHANGED <<market, sessions, accounts, login>>
  BY <1>8, <1>9, <1>10, SilentKeeps
<1>11. CASE x.kind = "Request" /\ QuoteRequest(n, x, w)
  <2>1. Good(market, [toNode EXCEPT ![n] = w], sessions, node', stop)
    BY <1>8, <1>9
  <2>2. node[n].mine = {} /\ x = Request(n, v.mine, FALSE)
    BY <1>5, <1>11
  <2>3. ~node[n].applied
    <3>1. ASSUME node[n].applied PROVE FALSE
      <4>1. Promised(toNode[n], node[n])
        BY <3>1 DEF Promised
      <4> QED
        BY <1>2, <2>2, <4>1 DEF Fit, Served
    <3> QED
      BY <3>1
  <2>4. Online(n) /\ v.pc # "off" /\ FALSE \in BOOLEAN
    BY <1>4, <1>7 DEF Online
  <2>5. node[n].applied /\ v.mine # {} => n \in accounts
    BY <2>3
  <2> QED
    BY <1>9, <1>11, <2>1, <2>2, <2>4, <2>5, RequestKeeps
<1> QED
  BY <1>9, <1>10, <1>11

-----------------------------------------------------------------------------
(* The system. *)

LEMMA SessionsInductive ==
    SessionsInv /\ [Next]_vars => SessionsInv'
<1> SUFFICES ASSUME SessionsInv, [Next]_vars PROVE SessionsInv'
  OBVIOUS
<1>1. CASE \E c \in Opening : SymbolInit(c)
  BY <1>1, SessionAssumption, InitKeeps
<1>2. CASE \E c \in Codes : MarketList(c)
  BY <1>2, ListKeeps
<1>3. CASE \E c \in Codes : MarketDelist(c)
  BY <1>3, DelistKeeps
<1>4. CASE \E c \in Codes : Tick(c)
  BY <1>4, TickKeeps
<1>5. CASE \E running \in BOOLEAN : StatusOrder(running)
  BY <1>5, StatusKeeps
<1>6. CASE ExitOrder \/ AcceptorStop
  BY <1>6, ExitKeeps
<1>7. CASE QuoteCancel
  BY <1>7, CancelKeeps
<1>8. CASE FixBeam
  BY <1>8, BeamKeeps
<1>9. ASSUME NEW n \in Nodes, NodeNext(n) PROVE SessionsInv'
  BY <1>9, LogonKeeps, CtrlKeeps, TradeKeeps, ScriptEndsKeeps, EndKeeps, FromAppKeeps
     DEF NodeNext
<1>10. CASE UNCHANGED vars
  <2>1. /\ UNCHANGED <<mode, ready, stop, feed, bus, ticks, login, market, toNode, sessions,
                       node, accounts>>
    BY <1>10 DEF vars, exchange
  <2>2. Rest' /\ AccountIffSubscribed'
    BY <2>1 DEF SessionsInv, Rest, AccountIffSubscribed, Known
  <2>3. Good(market', toNode', sessions', node', stop')
    BY <2>1 DEF SessionsInv
  <2> QED
    BY <2>1, <2>2, <2>3, GoodAfter
<1> QED
  BY <1>1, <1>2, <1>3, <1>4, <1>5, <1>6, <1>7, <1>8, <1>9, <1>10 DEF Next, FeedNext

LEMMA SessionsHold == Spec => []SessionsInv
<1>1. Init => SessionsInv
  BY SessionStarts
<1> QED
  BY <1>1, SessionsInductive, PTL DEF Spec

LEMMA SessionsTyped == SessionsInv => TypeOK
<1> SUFFICES ASSUME SessionsInv PROVE TypeOK
  OBVIOUS
<1>1. Rest /\ Good(market, toNode, sessions, node, stop) /\ AccountIffSubscribed
  BY DEF SessionsInv
<1>2. DOMAIN market \subseteq Codes /\ market \in [DOMAIN market -> Listings]
  BY <1>1, MarketIs DEF Good
<1>3. Known \subseteq Nodes /\ sessions \in [Known -> Wishes]
  BY <1>1, SubscriptionIs DEF Good, Known
<1>4. ASSUME NEW n \in Nodes
      PROVE  /\ node[n] \in NodeRecord
             /\ node[n].down \subseteq DOMAIN node[n].symbols
             /\ DOMAIN node[n].symbols \subseteq DOMAIN market
  BY <1>1 DEF Good, Fit, Shape
<1>5. \A c \in DOMAIN market :
         market[c] \in [dia : {"LIST", "DELISTING", "THROWOUT"}, locked : BOOLEAN]
  BY <1>2 DEF Listings
<1>6. accounts \subseteq Known /\ \A n \in Known : sessions[n] \subseteq Codes
  BY <1>1, <1>3 DEF AccountIffSubscribed, Wishes
<1> QED
  BY <1>1, <1>2, <1>3, <1>4, <1>5, <1>6 DEF Rest, TypeOK, Wishes

LEMMA SessionsServed == SessionsInv => OneOwner /\ ServedAsAsked /\ NeverStuckSuspended
<1> SUFFICES ASSUME SessionsInv PROVE OneOwner /\ ServedAsAsked /\ NeverStuckSuspended
  OBVIOUS
<1>1. Rest /\ Good(market, toNode, sessions, node, stop)
  BY DEF SessionsInv
<1>2. \A n \in Nodes : Fit(n, market, toNode[n], sessions, node[n], stop)
  BY <1>1 DEF Good
<1>3. OneOwner
  <2>1. Known \subseteq Nodes
    BY <1>1, SubscriptionIs DEF Good, Known
  <2>2. ASSUME mode.lock, NEW m \in Known, NEW n \in Known, m # n
        PROVE  sessions[m] \cap sessions[n] = {}
    <3>1. /\ sessions[m] \subseteq Claims(m, toNode[m], sessions, node[m])
          /\ sessions[n] \subseteq Claims(n, toNode[n], sessions, node[n])
      BY DEF Claims, Known
    <3>2. m \in Nodes /\ n \in Nodes \ {m}
      BY <2>1, <2>2
    <3>3. Claims(m, toNode[m], sessions, node[m]) \cap Claims(n, toNode[n], sessions, node[n]) = {}
      BY <1>1, <2>2, <3>2 DEF Good, Apart
    <3> QED
      BY <3>1, <3>3
  <2> QED
    BY <2>2 DEF OneOwner
<1>4. ServedAsAsked
  <2> SUFFICES ASSUME NEW n \in Nodes, node[n].pc = "run", node[n].applied
               PROVE  sessions[n] = node[n].mine
    BY DEF ServedAsAsked
  <2>1. Promised(toNode[n], node[n])
    BY DEF Promised
  <2> QED
    BY <1>2, <2>1 DEF Fit, Served
<1>5. NeverStuckSuspended
  BY <1>2 DEF NeverStuckSuspended, Fit, Told, Runs
<1> QED
  BY <1>3, <1>4, <1>5

\* Symbols have one owner where the exchange locks them, subscribers and nobody
\* else an account, nodes the symbols they work on, and nobody waits for a trade
\* that goes on: FixApplication's offers, subscriptions and logouts and the nodes'
\* answers, for any number of nodes and symbols and any order of messages.
THEOREM SessionsAreServed == Spec => []SessionInv
<1>1. SessionsInv => SessionInv
  BY SessionsTyped, SessionsServed DEF SessionInv, SessionsInv
<1> QED
  BY <1>1, SessionsHold, PTL

\* The types of all of a session's state, at both ends.
THEOREM TypeCorrect == Spec => []TypeOK
  BY SessionsTyped, SessionsHold, PTL

-----------------------------------------------------------------------------
(* No quote is skipped.  The bus has the last quotes of each code; what      *)
(* FixBeam has taken from it is on its way to the subscribers, behind what   *)
(* they have read.                                                          *)

Alive == feed \in {"run", "exit"}

Subscribed(n, S) == IF n \in DOMAIN S THEN S[n] ELSE {}

\* The index goes to everybody who is subscribed to anything.
Gets(c, T) == IF c = 0 THEN T # {} ELSE c \in T

\* A node that may yet be subscribed to c.
Wants(v, c) == v.mine = {} \/ (v.pc = "on" /\ Gets(c, v.mine))

\* The quotes of c on their way to a node go on from what it has read, and to e
\* if it is subscribed; before, there are none.
Flow(q, v, T, live, c, e) ==
    /\ v.mine = {} => v.last[c] = 0
    /\ \E a \in Nat : \E b \in Nat :
          /\ Steady(q, c, a, b)
          /\ v.last[c] > 0 => a = v.last[c]
          /\ live /\ Gets(c, T) => b = e
    /\ live /\ Wants(v, c) /\ ~Gets(c, T) =>
          v.last[c] = 0 /\ \A a \in Nat : Steady(q, c, a, a)

Streams(q, v, T, live, d) == v.pc # "off" => \A c \in Codes : Flow(q, v, T, live, c, d[c])

\* A node's bus is open until it has chosen, and nobody is told to leave while
\* the stream goes on.
Stays(q, v, live) == live => (v.mine = {} => v.bus = "open") /\ NoCancel(q)

Piped ==
    /\ ~Alive => bus = << >>
    /\ \A x \in ToSet(bus) : x.code \in DOMAIN market
    /\ \A n \in Nodes : Stays(toNode[n], node[n], Alive)
    /\ \E d \in [Codes -> Nat] :
          /\ \A c \in Codes : Steady(bus, c, d[c], ticks[c])
          /\ \A n \in Nodes :
                Streams(toNode[n], node[n], Subscribed(n, sessions), Alive, d)

\* A node that has read its quotes up to now reads on from there.
Reader(v, w) ==
    \A c \in Codes :
        v.last[c] > 0 /\ w.pc # "off" /\ w.last[c] # v.last[c] =>
            w.last[c] = v.last[c] + 1

\* A node that was v, with the queue q and the subscriptions T, and is w now.
Passes(q, v, T, live, r, w, U, alive) ==
    /\ Stays(q, v, live) => Stays(r, w, alive)
    /\ \A d \in [Codes -> Nat] :
          Streams(q, v, T, live, d) => Streams(r, w, U, alive, d) /\ Reader(v, w)

LEMMA FlowSubscribes ==
    ASSUME NEW q, NEW v, NEW T, NEW live, NEW c \in Codes, NEW e \in Nat,
           Flow(q, v, T, live, c, e),
           NEW r, Alike(q, r), NEW w, w.last[c] = v.last[c], w.mine = {} => v.mine = {},
           NEW U, NEW alive, alive => live,
           alive /\ Gets(c, U) => Gets(c, T) \/ Wants(v, c),
           alive /\ Wants(w, c) /\ ~Gets(c, U) => Wants(v, c) /\ ~Gets(c, T)
    PROVE  Flow(r, w, U, alive, c, e)
<1>1. \A a \in Nat : \A b \in Nat : Steady(q, c, a, b) => Steady(r, c, a, b)
  BY DEF Alike
<1>2. w.mine = {} => w.last[c] = 0
  BY DEF Flow
<1>3. \E a \in Nat : \E b \in Nat :
        Steady(r, c, a, b) /\ (w.last[c] > 0 => a = w.last[c]) /\ (alive /\ Gets(c, U) => b = e)
  <2>1. CASE alive /\ Gets(c, U) /\ ~Gets(c, T)
    <3>1. v.last[c] = 0 /\ Steady(q, c, e, e)
      BY <2>1 DEF Flow
    <3>2. w.last[c] = 0 /\ Steady(r, c, e, e) /\ ~(0 > 0)
      BY <1>1, <3>1
    <3> QED
      BY <3>2
  <2>2. CASE ~(alive /\ Gets(c, U) /\ ~Gets(c, T))
    <3>1. PICK a \in Nat : \E b \in Nat :
            /\ Steady(q, c, a, b)
            /\ v.last[c] > 0 => a = v.last[c]
            /\ live /\ Gets(c, T) => b = e
      BY DEF Flow
    <3>2. PICK b \in Nat : /\ Steady(q, c, a, b)
                           /\ v.last[c] > 0 => a = v.last[c]
                           /\ live /\ Gets(c, T) => b = e
      BY <3>1
    <3>3. alive /\ Gets(c, U) => b = e
      BY <2>2, <3>2
    <3>4. Steady(r, c, a, b) /\ (w.last[c] > 0 => a = w.last[c])
      BY <1>1, <3>2
    <3> QED
      BY <3>3, <3>4
  <2> QED
    BY <2>1, <2>2
<1>4. alive /\ Wants(w, c) /\ ~Gets(c, U) =>
          w.last[c] = 0 /\ \A a \in Nat : Steady(r, c, a, a)
  <2> SUFFICES ASSUME alive, Wants(w, c), ~Gets(c, U)
               PROVE  w.last[c] = 0 /\ \A a \in Nat : Steady(r, c, a, a)
    OBVIOUS
  <2>1. v.last[c] = 0 /\ \A a \in Nat : Steady(q, c, a, a)
    BY DEF Flow
  <2> QED
    BY <1>1, <2>1
<1> QED
  BY <1>2, <1>3, <1>4 DEF Flow

\* The node reads the first of the quotes on their way.
LEMMA FlowReads ==
    ASSUME NEW q \in Seq(Messages), q # << >>, NEW v \in NodeRecord, NEW T, NEW live,
           NEW c \in Codes, NEW e \in Nat, Flow(q, v, T, live, c, e), IsQuoteOf(Head(q), c),
           NEW w, w.mine = v.mine, w.pc = v.pc,
           w.last[c] = IF v.mine # {} THEN Head(q).number ELSE v.last[c]
    PROVE  /\ Flow(Tail(q), w, T, live, c, e)
           /\ v.last[c] > 0 => w.last[c] = v.last[c] + 1
<1>1. PICK a \in Nat : \E b \in Nat :
        /\ Steady(q, c, a, b)
        /\ v.last[c] > 0 => a = v.last[c]
        /\ live /\ Gets(c, T) => b = e
  BY DEF Flow
<1>2. PICK b \in Nat : /\ Steady(q, c, a, b)
                       /\ v.last[c] > 0 => a = v.last[c]
                       /\ live /\ Gets(c, T) => b = e
  BY <1>1
<1>3. Head(q).number = a + 1 /\ Steady(Tail(q), c, a + 1, b)
  BY <1>2, SteadyLess
<1>4. v.mine = {} => v.last[c] = 0
  BY DEF Flow
<1>5. v.last[c] > 0 => w.last[c] = v.last[c] + 1
  <2>1. v.last[c] \in Nat
    BY DEF NodeRecord
  <2> QED
    BY <1>2, <1>3, <1>4, <2>1
<1>6. w.last[c] > 0 => a + 1 = w.last[c]
  BY <1>3, <1>4
<1>7. ~(live /\ Wants(w, c) /\ ~Gets(c, T))
  <2> SUFFICES ASSUME live, Wants(w, c), ~Gets(c, T) PROVE FALSE
    OBVIOUS
  <2>1. \A k \in Nat : Steady(q, c, k, k)
    BY DEF Flow, Wants
  <2>2. Steady(q, c, 0, 0) /\ Steady(q, c, 1, 1)
    BY <2>1
  <2>3. Head(q).number = 0 + 1 /\ Head(q).number = 1 + 1
    BY <2>2, SteadyLess
  <2> QED
    BY <2>3
<1>8. w.mine = {} => w.last[c] = 0
  BY <1>4
<1>9. a + 1 \in Nat
  OBVIOUS
<1> QED
  BY <1>2, <1>3, <1>5, <1>6, <1>7, <1>8, <1>9 DEF Flow

\* A node that stays as it is, or that is as it was where the stream is concerned.
LEMMA PassesOn ==
    ASSUME NEW q, NEW v, NEW T, NEW live, NEW r, NEW w, NEW U, NEW alive,
           Alike(q, r), alive => live /\ (NoCancel(q) => NoCancel(r)),
           w.pc # "off" => v.pc # "off", w.last = v.last, w.mine = {} => v.mine = {},
           alive => (w.bus # v.bus => w.mine # {}),
           \A c \in Codes : alive /\ Gets(c, U) => Gets(c, T) \/ Wants(v, c),
           \A c \in Codes : alive /\ Wants(w, c) /\ ~Gets(c, U) => Wants(v, c) /\ ~Gets(c, T)
    PROVE  Passes(q, v, T, live, r, w, U, alive)
<1>1. Stays(q, v, live) => Stays(r, w, alive)
  BY DEF Stays
<1>2. ASSUME NEW d \in [Codes -> Nat], Streams(q, v, T, live, d)
      PROVE  Streams(r, w, U, alive, d)
  <2>1. ASSUME w.pc # "off", NEW c \in Codes PROVE Flow(r, w, U, alive, c, d[c])
    <3>1. Flow(q, v, T, live, c, d[c]) /\ d[c] \in Nat
      BY <1>2, <2>1 DEF Streams
    <3> DEFINE e == d[c]
    <3>2. e \in Nat /\ Flow(q, v, T, live, c, e)
      BY <3>1
    <3> HIDE DEF e
    <3>3. /\ w.last[c] = v.last[c] /\ (alive => live)
          /\ alive /\ Gets(c, U) => Gets(c, T) \/ Wants(v, c)
          /\ alive /\ Wants(w, c) /\ ~Gets(c, U) => Wants(v, c) /\ ~Gets(c, T)
      OBVIOUS
    <3>4. w.mine = {} => v.mine = {}
      OBVIOUS
    <3>5. Flow(r, w, U, alive, c, e)
      BY ONLY Alike(q, r), <3>2, <3>3, <3>4, FlowSubscribes
    <3> QED
      BY <3>5 DEF e
  <2> QED
    BY <2>1 DEF Streams
<1>3. Reader(v, w)
  BY DEF Reader
<1> QED
  BY <1>1, <1>2, <1>3 DEF Passes

\* A node that is not there.
LEMMA PassesOff ==
    ASSUME NEW q, NEW v, NEW T, NEW live, NEW w, NEW U, NEW alive,
           w.pc = "off", w.bus = "open"
    PROVE  Passes(q, v, T, live, << >>, w, U, alive)
<1>1. NoCancel(<< >>)
  BY EmptyQueue DEF NoCancel
<1> QED
  BY <1>1 DEF Passes, Stays, Streams, Reader

\* A node that comes.
LEMMA PassesIn ==
    ASSUME NEW q, NEW v, NEW T, NEW live, NEW w, NEW U, NEW alive,
           w.bus = "open", \A c \in Codes : w.last[c] = 0 /\ v.last[c] = 0
    PROVE  Passes(q, v, T, live, << >>, w, U, alive)
<1>1. NoCancel(<< >>)
  BY EmptyQueue DEF NoCancel
<1>2. ASSUME NEW d \in [Codes -> Nat] PROVE Streams(<< >>, w, U, alive, d)
  <2>1. ASSUME NEW c \in Codes PROVE Flow(<< >>, w, U, alive, c, d[c])
    <3>1. \A a \in Nat : Steady(<< >>, c, a, a)
      BY SteadyEmpty
    <3>2. d[c] \in Nat /\ w.last[c] = 0 /\ ~(0 > 0)
      OBVIOUS
    <3> QED
      BY <3>1, <3>2 DEF Flow
  <2> QED
    BY <2>1 DEF Streams
<1>3. Reader(v, w)
  BY DEF Reader
<1> QED
  BY <1>1, <1>2, <1>3 DEF Passes, Stays

LEMMA PassesAlive ==
    ASSUME NEW q, NEW v, NEW T, NEW live, NEW r, NEW w, NEW U, NEW alive,
           Passes(q, v, T, live, r, w, U, live), alive <=> live
    PROVE  Passes(q, v, T, live, r, w, U, alive)
<1>1. Stays(r, w, live) => Stays(r, w, alive)
  BY DEF Stays
<1>2. ASSUME NEW d, Streams(r, w, U, live, d) PROVE Streams(r, w, U, alive, d)
  <2>1. ASSUME NEW c, Flow(r, w, U, live, c, d[c]) PROVE Flow(r, w, U, alive, c, d[c])
    BY <2>1 DEF Flow
  <2> QED
    BY <1>2, <2>1 DEF Streams
<1> QED
  BY <1>1, <1>2 DEF Passes

NoneSkips == \A n \in Nodes : Reader(node[n], node'[n])

Going(n) == Subscribed(n, sessions)

PassesOne(n) ==
    Passes(toNode[n], node[n], Going(n), Alive, toNode'[n], node'[n], Going(n)', Alive')

\* The invariant after a step, spelt out.
LEMMA PipedAfter ==
    ASSUME ~Alive' => bus' = << >>,
           \A x \in ToSet(bus') : x.code \in DOMAIN market',
           \A n \in Nodes : Stays(toNode'[n], node'[n], Alive'),
           NEW d \in [Codes -> Nat], \A c \in Codes : Steady(bus', c, d[c], ticks'[c]),
           \A n \in Nodes : Streams(toNode'[n], node'[n], Going(n)', Alive', d)
    PROVE  Piped'
<1>1. \A n \in Nodes :
         Streams(toNode'[n], node'[n], (Subscribed(n, sessions))', Alive', d)
  BY DEF Going
<1>2. (\A n \in Nodes : Stays(toNode[n], node[n], Alive))'
  OBVIOUS
<1>3. (\A n \in Nodes : Streams(toNode[n], node[n], Subscribed(n, sessions), Alive, d))'
  BY <1>1
<1>4. (\A x \in ToSet(bus) : x.code \in DOMAIN market)'
  OBVIOUS
<1>5. (\A c \in Codes : Steady(bus, c, d[c], ticks[c]))'
  OBVIOUS
<1>6. (~Alive => bus = << >>)'
  OBVIOUS
<1> QED
  BY <1>2, <1>3, <1>4, <1>5, <1>6 DEF Piped

\* The bus is as it was: it is for the nodes to stay in the stream.
LEMMA PipedOn ==
    ASSUME Piped, bus' = bus, ticks' = ticks, DOMAIN market \subseteq DOMAIN market',
           ~Alive' => bus = << >>, \A n \in Nodes : PassesOne(n)
    PROVE  Piped' /\ NoneSkips
<1>1. PICK d \in [Codes -> Nat] :
        /\ \A c \in Codes : Steady(bus, c, d[c], ticks[c])
        /\ \A n \in Nodes : Streams(toNode[n], node[n], Going(n), Alive, d)
  BY DEF Piped, Going
<1>2. ASSUME NEW n \in Nodes
      PROVE  /\ Stays(toNode'[n], node'[n], Alive')
             /\ Streams(toNode'[n], node'[n], Going(n)', Alive', d)
             /\ Reader(node[n], node'[n])
  <2>1. Stays(toNode[n], node[n], Alive)
    BY DEF Piped
  <2>2. Streams(toNode[n], node[n], Going(n), Alive, d)
    BY <1>1
  <2> QED
    BY <2>1, <2>2 DEF PassesOne, Passes
<1>3. \A x \in ToSet(bus') : x.code \in DOMAIN market'
  BY DEF Piped
<1>4. \A c \in Codes : Steady(bus', c, d[c], ticks'[c])
  BY <1>1
<1>5. ~Alive' => bus' = << >>
  OBVIOUS
<1>6. Piped'
  BY <1>2, <1>3, <1>4, <1>5, PipedAfter
<1> QED
  BY <1>2, <1>6 DEF NoneSkips

\* A step of the exchange that sends nodes what is not a quote.
LEMMA ExchangePasses ==
    ASSUME Piped, node' = node, sessions' = sessions, bus' = bus, ticks' = ticks,
           DOMAIN market \subseteq DOMAIN market', Alive' => Alive, ~Alive' => bus = << >>,
           \A n \in Nodes : Alike(toNode[n], toNode'[n]),
           Alive' => \A n \in Nodes : Calm(toNode[n], toNode'[n])
    PROVE  Piped' /\ NoneSkips
<1>1. ASSUME NEW n \in Nodes PROVE PassesOne(n)
  <2> DEFINE q == toNode[n]
             r == toNode'[n]
             v == node[n]
             T == Going(n)
             live == Alive
             alive == Alive'
  <2>1. Alike(q, r) /\ (alive => live /\ (NoCancel(q) => NoCancel(r)))
    BY DEF Calm
  <2>2. toNode'[n] = r /\ node'[n] = v /\ Going(n)' = T
    BY DEF Going, Subscribed
  <2> HIDE DEF q, r, v, T, live, alive
  <2>3. /\ \A c \in Codes : alive /\ Gets(c, T) => Gets(c, T) \/ Wants(v, c)
        /\ \A c \in Codes : alive /\ Wants(v, c) /\ ~Gets(c, T) => Wants(v, c) /\ ~Gets(c, T)
    OBVIOUS
  <2>4. Passes(q, v, T, live, r, v, T, alive)
    BY <2>1, <2>3, PassesOn
  <2> QED
    BY <2>2, <2>4 DEF PassesOne, q, r, v, T, live, alive
<1> QED
  BY <1>1, PipedOn

LEMMA InitPasses ==
    ASSUME SessionsInv, Piped, NEW code \in Codes, SymbolInit(code)
    PROVE  Piped' /\ NoneSkips
<1> DEFINE known == IF code \in DOMAIN market THEN market ELSE Put(market, code, Listed)
<1>1. Rest /\ Good(market, toNode, sessions, node, stop)
  BY DEF SessionsInv
<1>2. Good(known, toNode, sessions, node, stop) /\ DOMAIN market \subseteq DOMAIN known
  <2>1. CASE code \in DOMAIN market
    BY <1>1, <2>1
  <2>2. CASE code \notin DOMAIN market
    <3>1. market \in Markets
      BY <1>1 DEF Good
    <3>2. /\ Good(Put(market, code, Listed), toNode, sessions, node, stop)
          /\ DOMAIN market \subseteq DOMAIN Put(market, code, Listed)
      BY <1>1, <2>2, <3>1, PutMarket, GoodMarket
    <3> QED
      BY <2>2, <3>2
  <2> QED
    BY <2>1, <2>2
<1>3. /\ UNCHANGED <<feed, bus, ticks, sessions, node>> /\ feed = "run"
      /\ \/ Becomes(MassQuotes(known, Known))
         \/ market' = known /\ UNCHANGED toNode
  BY DEF SymbolInit, counters
<1> HIDE DEF known
<1>4. DOMAIN market \subseteq DOMAIN market' /\ \A n \in Nodes : Calm(toNode[n], toNode'[n])
  <2>1. CASE market' = known /\ UNCHANGED toNode
    BY <1>2, <2>1, CalmSame
  <2>2. CASE Becomes(MassQuotes(known, Known))
    <3> DEFINE s == MassQuotes(known, Known)
    <3>1. Known \subseteq Nodes /\ login \subseteq Nodes
      BY <1>1, SubscriptionIs DEF Good, Rest, Known
    <3>2. Sound(s, known, toNode, sessions, node, stop)
      BY <1>2, <3>1, MassQuotesKeep
    <3>3. market' = s.market /\ toNode' = s.toNode
      BY <2>2 DEF Becomes
    <3> HIDE DEF s
    <3>4. DOMAIN s.market = DOMAIN known /\ \A n \in Nodes : Calm(toNode[n], s.toNode[n])
      BY <3>2, SoundIs
    <3> QED
      BY <1>2, <3>3, <3>4
  <2> QED
    BY <1>3, <2>1, <2>2
<1>5. Alive /\ Alive' /\ \A n \in Nodes : Alike(toNode[n], toNode'[n])
  BY <1>3, <1>4 DEF Alive, Calm
<1> QED
  BY <1>3, <1>4, <1>5, ExchangePasses

LEMMA ListPasses ==
    ASSUME SessionsInv, Piped, NEW code \in Codes, MarketList(code)
    PROVE  Piped' /\ NoneSkips
<1> DEFINE known == Put(market, code, Listed)
           others == {n \in Known : sessions[n] = {}}
           s == MassQuotes(known, others)
           news == Quote(code, FALSE)
           r == [n \in Nodes |-> IF n \in Known /\ sessions[n] # {}
                                 THEN Sent(s.toNode, n, news)[n] ELSE s.toNode[n]]
<1>1. Rest /\ Good(market, toNode, sessions, node, stop)
  BY DEF SessionsInv
<1>2. /\ Event /\ code \notin DOMAIN market
      /\ Becomes([s EXCEPT !.toNode = r])
      /\ UNCHANGED <<feed, bus, ticks, sessions>>
  BY DEF MarketList
<1>3. /\ Good(known, toNode, sessions, node, stop) /\ code \in DOMAIN known
      /\ DOMAIN market \subseteq DOMAIN known
  <2>1. market \in Markets
    BY <1>1 DEF Good
  <2> QED
    BY <1>1, <1>2, <2>1, PutMarket, GoodMarket
<1>4. others \subseteq Nodes /\ login \subseteq Nodes
  BY <1>1, SubscriptionIs DEF Good, Rest, Known
<1> HIDE DEF known, others
<1>5. Sound(s, known, toNode, sessions, node, stop)
  BY <1>3, <1>4, MassQuotesKeep
<1> HIDE DEF s
<1>6. /\ s.toNode \in Queues /\ DOMAIN s.market = DOMAIN known
      /\ \A n \in Nodes : Calm(toNode[n], s.toNode[n])
  BY <1>5, SoundIs
<1>7. news \in Messages /\ news.kind = "Quote"
  BY DEF Quote, Messages, News
<1> HIDE DEF news
<1>8. ASSUME NEW n \in Nodes PROVE Calm(toNode[n], r[n])
  <2>1. r[n] = s.toNode[n] \/ r[n] = Append(s.toNode[n], news)
    BY <1>6 DEF Sent, Queues
  <2>2. s.toNode[n] \in Seq(Messages)
    BY <1>6 DEF Queues
  <2> DEFINE old == toNode[n]
             q == s.toNode[n]
             more == Append(q, news)
  <2>3. q \in Seq(Messages) /\ Calm(old, q) /\ (r[n] = q \/ r[n] = more)
    BY <1>6, <2>1, <2>2
  <2> HIDE DEF q, r
  <2>4. Calm(q, more)
    BY <1>7, <2>3, CalmMore
  <2> HIDE DEF old, more
  <2>5. Calm(old, q) /\ Calm(old, more)
    BY <2>3, <2>4, CalmOn
  <2> QED
    BY <2>3, <2>5 DEF old
<1> HIDE DEF r
<1>9. market' = s.market /\ toNode' = r
  <2>1. s = [market |-> s.market, toNode |-> s.toNode, login |-> s.login]
    BY <1>5 DEF Sound, Exchanges
  <2> QED
    BY <1>2, <2>1 DEF Becomes
<1>10. node' = node /\ feed = "run"
  BY <1>2, EventIs
<1>11. Alive /\ Alive' /\ \A n \in Nodes : Alike(toNode[n], toNode'[n])
  BY <1>2, <1>8, <1>9, <1>10 DEF Alive, Calm
<1> QED
  BY <1>2, <1>3, <1>6, <1>8, <1>9, <1>10, <1>11, ExchangePasses

\* A message to some of the sessions is not a quote.
LEMMA BroadcastCalm ==
    ASSUME SessionsInv, NEW targets, NEW x \in Messages, x.kind # "Data", NEW n \in Nodes
    PROVE  /\ Alike(toNode[n], Broadcast(targets, x)[n])
           /\ x.kind # "Cancel" => Calm(toNode[n], Broadcast(targets, x)[n])
<1>1. toNode[n] \in Seq(Messages)
  BY DEF SessionsInv, Good, Queues
<1>2. Alike(toNode[n], toNode[n]) /\ Calm(toNode[n], toNode[n])
  BY CalmSame DEF Calm
<1>3. /\ Alike(toNode[n], Append(toNode[n], x))
      /\ x.kind # "Cancel" => Calm(toNode[n], Append(toNode[n], x))
  BY <1>1, CalmMore
<1> QED
  BY <1>2, <1>3, BroadcastIs

LEMMA DelistPasses ==
    ASSUME SessionsInv, Piped, NEW code \in Codes, MarketDelist(code)
    PROVE  Piped' /\ NoneSkips
<1> DEFINE x == Quote(code, TRUE)
           told == {n \in Known : code \in sessions[n]}
           r == Broadcast(told, x)
<1>1. PICK d \in {"DELISTING", "THROWOUT"} :
        /\ Event /\ market' = [market EXCEPT ![code].dia = d] /\ toNode' = r
        /\ UNCHANGED <<feed, bus, ticks, sessions>>
  BY DEF MarketDelist
<1>2. DOMAIN market' = DOMAIN market
  BY <1>1
<1>3. x \in Messages /\ x.kind = "Quote"
  BY DEF Quote, Messages, News
<1> HIDE DEF x, told
<1>4. \A n \in Nodes : Calm(toNode[n], r[n])
  BY <1>3, BroadcastCalm
<1> HIDE DEF r
<1>5. node' = node /\ feed = "run"
  BY <1>1, EventIs
<1>6. Alive /\ Alive' /\ \A n \in Nodes : Alike(toNode[n], toNode'[n])
  BY <1>1, <1>4, <1>5 DEF Alive, Calm
<1> QED
  BY <1>1, <1>2, <1>4, <1>5, <1>6, ExchangePasses

LEMMA StatusPasses ==
    ASSUME SessionsInv, Piped, NEW running \in BOOLEAN, StatusOrder(running)
    PROVE  Piped' /\ NoneSkips
<1> DEFINE x == [kind |-> "Status", suspend |-> ~running]
           r == Broadcast(Known, x)
<1>1. Event /\ toNode' = r /\ UNCHANGED <<market, feed, bus, ticks, sessions>>
  BY DEF StatusOrder
<1>2. x \in Messages /\ x.kind = "Status"
  BY DEF Messages, Statuses
<1> HIDE DEF x
<1>3. \A n \in Nodes : Calm(toNode[n], r[n])
  BY <1>2, BroadcastCalm
<1> HIDE DEF r
<1>4. node' = node /\ feed = "run"
  BY <1>1, EventIs
<1>5. Alive /\ Alive' /\ \A n \in Nodes : Alike(toNode[n], toNode'[n])
  BY <1>1, <1>3, <1>4 DEF Alive, Calm
<1> QED
  BY <1>1, <1>3, <1>4, <1>5, ExchangePasses

\* At the end the bus is empty, and nobody is owed anything.
LEMMA EndPasses ==
    ASSUME SessionsInv, Piped, ExitOrder \/ QuoteCancel \/ AcceptorStop
    PROVE  Piped' /\ NoneSkips
<1> DEFINE x == [kind |-> "Cancel"]
           r == Broadcast(Known, x)
<1>1. /\ UNCHANGED <<market, sessions, bus, ticks, node>>
      /\ toNode' = toNode \/ (toNode' = r /\ ~Alive')
      /\ Alive' => Alive
      /\ ~Alive' => bus = << >> \/ ~Alive
  BY DEF ExitOrder, QuoteCancel, AcceptorStop, exchange, Alive
<1>2. x \in Messages /\ x.kind = "Cancel"
  BY DEF Messages, Words
<1> HIDE DEF x
<1>3. \A n \in Nodes : Alike(toNode[n], r[n])
  BY <1>2, BroadcastCalm
<1> HIDE DEF r
<1>4. \A n \in Nodes : Alike(toNode[n], toNode'[n])
  BY <1>1, <1>3, CalmSame DEF Calm
<1>5. Alive' => \A n \in Nodes : Calm(toNode[n], toNode'[n])
  BY <1>1, CalmSame
<1>6. ~Alive' => bus = << >>
  BY <1>1 DEF Piped
<1> QED
  BY <1>1, <1>4, <1>5, <1>6, ExchangePasses

\* What the bus takes on is the next of its code.
LEMMA TickPasses ==
    ASSUME SessionsInv, Piped, NEW code \in Codes, Tick(code)
    PROVE  Piped' /\ NoneSkips
<1>1. Rest
  BY DEF SessionsInv
<1> DEFINE x == [kind |-> "Data", code |-> code, number |-> ticks'[code]]
<1>2. /\ Event /\ ticks' = [ticks EXCEPT ![code] = ticks[code] + 1] /\ bus' = Append(bus, x)
      /\ UNCHANGED <<exchange, feed, toNode>> /\ code \in DOMAIN market
  BY DEF Tick
<1>3. UNCHANGED <<market, sessions>> /\ node' = node /\ feed = "run"
  BY <1>2, EventIs DEF exchange
<1>4. ticks \in [Codes -> Nat] /\ ticks'[code] = ticks[code] + 1 /\ bus \in Seq(Records)
      /\ \A c \in Codes \ {code} : ticks'[c] = ticks[c]
  BY <1>1, <1>2 DEF Rest
<1>5. x \in Records /\ x.kind = "Data" /\ x.code = code /\ x.number = ticks[code] + 1
  BY <1>4 DEF Records
<1> HIDE DEF x
<1>6. PICK d \in [Codes -> Nat] :
        /\ \A c \in Codes : Steady(bus, c, d[c], ticks[c])
        /\ \A n \in Nodes : Streams(toNode[n], node[n], Going(n), Alive, d)
  BY DEF Piped, Going
<1>7. \A c \in Codes : Steady(bus', c, d[c], ticks'[c])
  <2>1. ASSUME NEW c \in Codes PROVE Steady(bus', c, d[c], ticks'[c])
    <3> DEFINE a == d[c]
               b == ticks[c]
    <3>1. Steady(bus, c, a, b)
      BY <1>6
    <3>2. b = ticks[c] /\ a = d[c]
      OBVIOUS
    <3> HIDE DEF a, b
    <3>3. /\ ~IsQuoteOf(x, c) => Steady(Append(bus, x), c, a, b)
          /\ IsQuoteOf(x, c) /\ x.number = b + 1 => Steady(Append(bus, x), c, a, b + 1)
      BY <1>4, <1>5, <3>1, SteadyMore
    <3>4. CASE c = code
      <4>1. IsQuoteOf(x, c) /\ x.number = b + 1 /\ ticks'[c] = b + 1
        BY <1>4, <1>5, <3>2, <3>4 DEF IsQuoteOf
      <4> QED
        BY <1>2, <3>2, <3>3, <4>1
    <3>5. CASE c # code
      <4>1. ~IsQuoteOf(x, c) /\ ticks'[c] = b
        BY <1>4, <1>5, <3>2, <3>5 DEF IsQuoteOf
      <4> QED
        BY <1>2, <3>2, <3>3, <4>1
    <3> QED
      BY <3>4, <3>5
  <2> QED
    BY <2>1
<1>8. \A y \in ToSet(bus') : y.code \in DOMAIN market'
  <2>1. ToSet(bus') = ToSet(bus) \cup {x}
    BY <1>2, <1>4, <1>5, Grown
  <2> QED
    BY <1>2, <1>3, <1>5, <2>1 DEF Piped
<1>9. Alive /\ Alive'
  BY <1>2, <1>3 DEF Alive
<1>10. \A n \in Nodes : Stays(toNode'[n], node'[n], Alive')
  <2>1. toNode' = toNode
    BY <1>2
  <2> QED
    BY <1>3, <1>9, <2>1 DEF Piped, Stays
<1>11. \A n \in Nodes : Streams(toNode'[n], node'[n], Going(n)', Alive', d)
  <2>1. toNode' = toNode /\ (Alive' <=> Alive) /\ \A n \in Nodes : Going(n)' = Going(n)
    BY <1>2, <1>3, <1>9 DEF Going, Subscribed
  <2> QED
    BY <1>3, <1>6, <2>1 DEF Streams, Flow
<1>12. Piped'
  BY <1>7, <1>8, <1>9, <1>10, <1>11, PipedAfter
<1>13. NoneSkips
  BY <1>3 DEF NoneSkips, Reader
<1> QED
  BY <1>12, <1>13

\* A quote of another code, and one of c for those who are subscribed to it.
LEMMA FlowPast ==
    ASSUME NEW q \in Seq(Messages), NEW v, NEW T, NEW live, NEW c \in Codes, NEW e \in Nat,
           Flow(q, v, T, live, c, e), NEW x \in Messages, ~IsQuoteOf(x, c)
    PROVE  Flow(Append(q, x), v, T, live, c, e)
<1>1. \A a \in Nat : \A b \in Nat : Steady(q, c, a, b) => Steady(Append(q, x), c, a, b)
  BY SteadyMore
<1> QED
  BY <1>1 DEF Flow

LEMMA FlowGets ==
    ASSUME NEW q \in Seq(Messages), NEW v, NEW T, NEW live, live, NEW c \in Codes,
           NEW e \in Nat, Flow(q, v, T, live, c, e), Gets(c, T),
           NEW x \in Messages, IsQuoteOf(x, c), x.number = e + 1
    PROVE  Flow(Append(q, x), v, T, live, c, e + 1)
<1>1. PICK a \in Nat : \E b \in Nat :
        /\ Steady(q, c, a, b)
        /\ v.last[c] > 0 => a = v.last[c]
        /\ live /\ Gets(c, T) => b = e
  BY DEF Flow
<1>2. Steady(q, c, a, e) /\ (v.last[c] > 0 => a = v.last[c])
  BY <1>1
<1>3. Steady(Append(q, x), c, a, e + 1)
  BY <1>2, SteadyMore
<1>4. v.mine = {} => v.last[c] = 0
  BY DEF Flow
<1>5. e + 1 \in Nat
  OBVIOUS
<1> QED
  BY <1>2, <1>3, <1>4, <1>5 DEF Flow

\* The bus slave takes one quote off the bus, for all who are subscribed.
LEMMA BeamPasses ==
    ASSUME SessionsInv, Piped, FixBeam
    PROVE  Piped' /\ NoneSkips
<1> DEFINE x == Head(bus)
           c0 == x.code
           R == Receivers(x)
           r == Broadcast(R, x)
<1>1. Rest /\ toNode \in Queues
  BY DEF SessionsInv, Good
<1>2. /\ bus # << >> /\ bus' = Tail(bus) /\ toNode' = r
      /\ UNCHANGED <<market, sessions, feed, ticks, node>>
  BY DEF FixBeam, exchange
<1>3. bus \in Seq(Records) /\ ToSet(Tail(bus)) \subseteq ToSet(bus) /\ x \in ToSet(bus)
      /\ x \in Records
  BY <1>1, <1>2, Shrunk DEF Rest
<1>4. Alive /\ Alive'
  BY <1>2 DEF Piped, Alive
<1>5. x.kind = "Data" /\ c0 \in Codes /\ x \in Messages /\ c0 \in DOMAIN market
  BY <1>3 DEF Piped, Records, Messages
<1>6. \A n \in Nodes : n \in R <=> Gets(c0, Going(n))
  BY <1>5 DEF Receivers, Gets, Going, Subscribed, Known
<1>7. ASSUME NEW n \in Nodes
      PROVE  r[n] = IF Gets(c0, Going(n)) /\ node[n].pc # "off" THEN Append(toNode[n], x)
                    ELSE toNode[n]
  BY <1>6, <1>7 DEF Broadcast, Online
<1>8. PICK d \in [Codes -> Nat] :
        /\ \A c \in Codes : Steady(bus, c, d[c], ticks[c])
        /\ \A n \in Nodes : Streams(toNode[n], node[n], Going(n), Alive, d)
  BY DEF Piped, Going
<1> DEFINE e == [d EXCEPT ![c0] = d[c0] + 1]
<1>9. e \in [Codes -> Nat] /\ e[c0] = d[c0] + 1 /\ \A c \in Codes \ {c0} : e[c] = d[c]
  BY <1>5
<1> HIDE DEF x, r, R, e
<1>10. x.number = d[c0] + 1 /\ \A c \in Codes : Steady(bus', c, e[c], ticks'[c])
  <2>1. ASSUME NEW c \in Codes
        PROVE  (c = c0 => x.number = d[c0] + 1) /\ Steady(bus', c, e[c], ticks'[c])
    <3> DEFINE a == d[c]
               b == ticks[c]
    <3>1. Steady(bus, c, a, b)
      BY <1>8
    <3>2. b = ticks[c] /\ a = d[c]
      OBVIOUS
    <3> HIDE DEF a, b
    <3>3. /\ ~IsQuoteOf(x, c) => Steady(Tail(bus), c, a, b)
          /\ IsQuoteOf(x, c) => x.number = a + 1 /\ Steady(Tail(bus), c, a + 1, b)
      BY <1>2, <1>3, <3>1, SteadyLess DEF x
    <3>4. IsQuoteOf(x, c) <=> c = c0
      BY <1>5 DEF IsQuoteOf
    <3> QED
      BY <1>2, <1>5, <1>9, <3>2, <3>3, <3>4
  <2> QED
    BY <1>5, <2>1
<1>11. ASSUME NEW n \in Nodes
       PROVE  Streams(toNode'[n], node'[n], Going(n)', Alive', e)
  <2> DEFINE q == toNode[n]
             v == node[n]
             T == Going(n)
  <2>1. node'[n] = v /\ Going(n)' = T /\ toNode'[n] = r[n]
    BY <1>2 DEF Going, Subscribed
  <2>2. q \in Seq(Messages)
    BY <1>1 DEF Queues
  <2>3. Streams(q, v, T, TRUE, d)
    BY <1>4, <1>8 DEF Streams, Flow
  <2>4. r[n] = IF Gets(c0, T) /\ v.pc # "off" THEN Append(q, x) ELSE q
    BY <1>7
  <2> HIDE DEF q, v, T
  <2>5. ASSUME v.pc # "off", NEW c \in Codes PROVE Flow(r[n], v, T, TRUE, c, e[c])
    <3> DEFINE k == d[c]
               l == e[c]
    <3>1. Flow(q, v, T, TRUE, c, k) /\ k \in Nat
      BY <2>3, <2>5 DEF Streams
    <3>2. l = IF c = c0 THEN k + 1 ELSE k
      BY <1>5, <1>9
    <3>3. c = c0 => x.number = k + 1
      BY <1>10
    <3>4. IsQuoteOf(x, c) <=> c = c0
      BY <1>5 DEF IsQuoteOf
    <3> HIDE DEF k, l
    <3>5. CASE Gets(c0, T) /\ c = c0
      <4>1. Flow(Append(q, x), v, T, TRUE, c, k + 1)
        BY <1>5, <2>2, <3>1, <3>3, <3>4, <3>5, FlowGets
      <4> QED
        BY <2>4, <2>5, <3>2, <3>5, <4>1 DEF l
    <3>6. CASE Gets(c0, T) /\ c # c0
      <4>1. Flow(Append(q, x), v, T, TRUE, c, k)
        BY <1>5, <2>2, <3>1, <3>4, <3>6, FlowPast
      <4> QED
        BY <2>4, <2>5, <3>2, <3>6, <4>1 DEF l
    <3>7. CASE ~Gets(c0, T)
      <4>1. Flow(q, v, T, TRUE, c, l)
        BY <3>1, <3>2, <3>7 DEF Flow
      <4> QED
        BY <2>4, <3>7, <4>1 DEF l
    <3> QED
      BY <3>5, <3>6, <3>7
  <2>6. Streams(r[n], v, T, TRUE, e)
    BY <2>5 DEF Streams
  <2> QED
    BY <1>4, <2>1, <2>6 DEF Streams, Flow
<1>12. ASSUME NEW n \in Nodes PROVE Stays(toNode'[n], node'[n], Alive')
  <2> DEFINE q == toNode[n]
  <2>1. Stays(q, node[n], Alive) /\ q \in Seq(Messages)
    BY <1>1 DEF Piped, Queues
  <2>2. toNode'[n] = q \/ toNode'[n] = Append(q, x)
    BY <1>2, <1>7
  <2> HIDE DEF q
  <2>3. ToSet(Append(q, x)) = ToSet(q) \cup {x}
    BY <1>5, <2>1, Grown
  <2>4. NoCancel(q) => NoCancel(toNode'[n])
    BY <1>5, <2>2, <2>3 DEF NoCancel
  <2> QED
    BY <1>2, <1>4, <2>1, <2>4 DEF Stays
<1>13. \A y \in ToSet(bus') : y.code \in DOMAIN market'
  BY <1>2, <1>3 DEF Piped
<1>14. Piped'
  BY <1>4, <1>9, <1>10, <1>11, <1>12, <1>13, PipedAfter
<1>15. NoneSkips
  BY <1>2 DEF NoneSkips, Reader
<1> QED
  BY <1>14, <1>15

-----------------------------------------------------------------------------
(* The steps of the nodes. *)

LEMMA NodePasses ==
    ASSUME Piped, NEW n \in Nodes, NEW v, node' = [node EXCEPT ![n] = v],
           UNCHANGED <<feed, bus, ticks>>, DOMAIN market \subseteq DOMAIN market',
           \A k \in Nodes \ {n} : Going(k)' = Going(k) /\ Calm(toNode[k], toNode'[k]),
           node \in AllNodes, PassesOne(n)
    PROVE  Piped' /\ NoneSkips
<1>1. ASSUME NEW k \in Nodes \ {n} PROVE PassesOne(k)
  <2> DEFINE q == toNode[k]
             r == toNode'[k]
             u == node[k]
             T == Going(k)
             live == Alive
  <2>1. Alike(q, r) /\ (NoCancel(q) => NoCancel(r))
    BY DEF Calm
  <2>2. node'[k] = u /\ Going(k)' = T /\ (Alive' <=> live)
    BY DEF Going, Subscribed, Alive, AllNodes
  <2> HIDE DEF q, r, u, T, live
  <2>3. Passes(q, u, T, live, r, u, T, live)
    BY <2>1, PassesOn
  <2>4. Passes(q, u, T, live, r, u, T, Alive')
    BY <2>2, <2>3, PassesAlive
  <2> QED
    BY <2>2, <2>4 DEF PassesOne, q, r, u, T, live
<1>2. ~Alive' => bus = << >>
  BY DEF Piped, Alive
<1> QED
  BY <1>1, <1>2, PipedOn

LEMMA LogonPasses ==
    ASSUME SessionsInv, Piped, NEW n \in Nodes, Logon(n)
    PROVE  Piped' /\ NoneSkips
<1> DEFINE v == [Fresh(n) EXCEPT !.pc = "on"]
<1>1. /\ ~Online(n) /\ node' = [node EXCEPT ![n] = v]
      /\ sessions' = IF n \in Known THEN sessions ELSE Put(sessions, n, {})
      /\ UNCHANGED <<market, feed, bus, ticks, toNode>>
  BY DEF Logon
<1>2. Rest /\ Good(market, toNode, sessions, node, stop)
  BY DEF SessionsInv
<1>3. node \in AllNodes /\ Fit(n, market, toNode[n], sessions, node[n], stop)
  BY <1>2 DEF Good
<1>4. toNode[n] = << >> /\ node[n] = Fresh(n)
  BY <1>1, <1>3 DEF Fit, Shape, Online
<1>5. v.bus = "open" /\ \A c \in Codes : v.last[c] = 0 /\ Fresh(n).last[c] = 0
  BY DEF Fresh
<1>6. node'[n] = v
  BY <1>1, <1>3 DEF AllNodes
<1> HIDE DEF v
<1>7. PassesOne(n)
  <2> DEFINE T == Going(n)
             U == Going(n)'
             live == Alive
             alive == Alive'
             q == toNode[n]
             u == node[n]
  <2>1. \A c \in Codes : v.last[c] = 0 /\ u.last[c] = 0
    BY <1>4, <1>5
  <2> HIDE DEF T, U, live, alive, q, u
  <2>2. Passes(q, u, T, live, << >>, v, U, alive)
    BY <1>5, <2>1, PassesIn
  <2>3. toNode'[n] = << >> /\ node'[n] = v
    BY <1>1, <1>4, <1>6
  <2> QED
    BY <2>2, <2>3 DEF PassesOne, T, U, live, alive, q, u
<1>8. \A k \in Nodes \ {n} : Going(k)' = Going(k) /\ Calm(toNode[k], toNode'[k])
  BY <1>1, CalmSame DEF Going, Subscribed, Put
<1>9. UNCHANGED <<feed, bus, ticks>> /\ DOMAIN market \subseteq DOMAIN market'
  BY <1>1
<1> QED
  BY <1>1, <1>3, <1>7, <1>8, <1>9, NodePasses

LEMMA LeavePasses ==
    ASSUME SessionsInv, Piped, NEW n \in Nodes, Crash(n) \/ InitiatorStop(n)
    PROVE  Piped' /\ NoneSkips
<1>1. /\ node' = [node EXCEPT ![n] = Fresh(n)] /\ toNode' = [toNode EXCEPT ![n] = << >>]
      /\ UNCHANGED <<market, sessions, feed, bus, ticks>>
  BY DEF Crash, InitiatorStop, exchange
<1>2. node \in AllNodes /\ toNode \in Queues
  BY DEF SessionsInv, Good
<1>3. Fresh(n).pc = "off" /\ Fresh(n).bus = "open"
  BY DEF Fresh
<1>4. PassesOne(n)
  <2> DEFINE T == Going(n)
             U == Going(n)'
             live == Alive
             alive == Alive'
             q == toNode[n]
             u == node[n]
             v == Fresh(n)
  <2>1. v.pc = "off" /\ v.bus = "open"
    BY <1>3
  <2>2. toNode'[n] = << >> /\ node'[n] = v
    BY <1>1, <1>2 DEF AllNodes, Queues
  <2> HIDE DEF T, U, live, alive, q, u, v
  <2>3. Passes(q, u, T, live, << >>, v, U, alive)
    BY <2>1, PassesOff
  <2> QED
    BY <2>2, <2>3 DEF PassesOne, T, U, live, alive, q, u
<1>5. \A k \in Nodes \ {n} : Going(k)' = Going(k) /\ Calm(toNode[k], toNode'[k])
  BY <1>1, <1>2, CalmSame DEF Going, Subscribed, Queues
<1>6. UNCHANGED <<feed, bus, ticks>> /\ DOMAIN market \subseteq DOMAIN market'
  BY <1>1
<1> QED
  BY <1>1, <1>2, <1>4, <1>5, <1>6, NodePasses

\* What a step of n does to what it reads; the feed goes on as it did.
LEMMA PassesStep ==
    ASSUME SessionsInv, Piped, NEW n \in Nodes, NEW w, w \in NodeRecord,
           node' = [node EXCEPT ![n] = w],
           UNCHANGED <<feed, bus, ticks>>, DOMAIN market \subseteq DOMAIN market',
           \A k \in Nodes \ {n} : Going(k)' = Going(k) /\ Calm(toNode[k], toNode'[k]),
           Alike(toNode[n], toNode'[n]),
           Alive => (NoCancel(toNode[n]) => NoCancel(toNode'[n])),
           w.pc # "off" => node[n].pc # "off", w.last = node[n].last,
           w.mine = {} => node[n].mine = {},
           Alive => (w.bus # node[n].bus => w.mine # {}),
           NEW U, U = Going(n)',
           \A c \in Codes : Alive /\ Gets(c, U) => Gets(c, Going(n)) \/ Wants(node[n], c),
           \A c \in Codes : Alive /\ Wants(w, c) /\ ~Gets(c, U) =>
                                Wants(node[n], c) /\ ~Gets(c, Going(n))
    PROVE  Piped' /\ NoneSkips
<1>1. node \in AllNodes /\ node'[n] = w
  BY DEF SessionsInv, Good, AllNodes
<1>2. PassesOne(n)
  <2> DEFINE T == Going(n)
             live == Alive
             q == toNode[n]
             r == toNode'[n]
             v == node[n]
  <2>1. /\ Alike(q, r) /\ (live => (NoCancel(q) => NoCancel(r)))
        /\ w.pc # "off" => v.pc # "off"
        /\ w.last = v.last /\ (w.mine = {} => v.mine = {})
        /\ live => (w.bus # v.bus => w.mine # {})
        /\ \A c \in Codes : live /\ Gets(c, U) => Gets(c, T) \/ Wants(v, c)
        /\ \A c \in Codes : live /\ Wants(w, c) /\ ~Gets(c, U) => Wants(v, c) /\ ~Gets(c, T)
    OBVIOUS
  <2>2. Alive' <=> live
    BY DEF Alive
  <2> HIDE DEF T, live, q, r, v
  <2>3. Passes(q, v, T, live, r, w, U, live)
    BY <2>1, PassesOn
  <2>4. Passes(q, v, T, live, r, w, U, Alive')
    BY <2>2, <2>3, PassesAlive
  <2> QED
    BY <1>1, <2>4 DEF PassesOne, T, live, q, r, v
<1> QED
  BY <1>1, <1>2, NodePasses

LEMMA TradePasses ==
    ASSUME SessionsInv, Piped, NEW n \in Nodes, Trade(n)
    PROVE  Piped' /\ NoneSkips
<1> DEFINE w == [node[n] EXCEPT !.holds = ~node[n].holds]
<1>1. /\ node' = [node EXCEPT ![n] = w]
      /\ UNCHANGED <<market, sessions, feed, bus, ticks, toNode>>
  BY DEF Trade, exchange
<1>2. node[n] \in NodeRecord
  BY DEF SessionsInv, Good, AllNodes
<1>3. /\ w \in NodeRecord /\ w.pc = node[n].pc /\ w.mine = node[n].mine
      /\ w.last = node[n].last /\ w.bus = node[n].bus
  BY <1>2 DEF NodeRecord
<1> HIDE DEF w
<1>4. \A k \in Nodes : Going(k)' = Going(k) /\ Calm(toNode[k], toNode'[k])
  BY <1>1, CalmSame DEF Going, Subscribed
<1>5. Alike(toNode[n], toNode'[n]) /\ (NoCancel(toNode[n]) => NoCancel(toNode'[n]))
  BY <1>4 DEF Calm
<1>6. \A c \in Codes : Wants(w, c) => Wants(node[n], c)
  BY <1>3 DEF Wants
<1>7. Going(n)' = Going(n) /\ DOMAIN market \subseteq DOMAIN market'
  BY <1>1, <1>4
<1> QED
  BY <1>1, <1>3, <1>4, <1>5, <1>6, <1>7, PassesStep

\* What a request changes for who gets quotes.
LEMMA RequestCalm ==
    ASSUME SessionsInv, NEW n \in Nodes, NEW rest \in Seq(Messages), NEW x, NEW v,
           NEW ret \in BOOLEAN, x = Request(n, v, ret), QuoteRequest(n, x, rest)
    PROVE  /\ \A k \in Nodes : Calm(IF k = n THEN rest ELSE toNode[k], toNode'[k])
           /\ DOMAIN market' = DOMAIN market
           /\ sessions' = sessions \/ (v # {} /\ sessions' = Put(sessions, n, v))
<1> DEFINE q == [toNode EXCEPT ![n] = rest]
           before == [market |-> market, toNode |-> q, login |-> login]
           after == IF x.ret THEN MassQuote(before, n) ELSE before
           granted == [kind |-> "Granted"]
<1>1. x.symbols = v
  BY DEF Request
<1>2. market \in Markets /\ toNode \in Queues /\ login \in SUBSET Nodes
  BY DEF SessionsInv, Good, Rest
<1>3. /\ q \in Queues /\ \A k \in Nodes : q[k] = IF k = n THEN rest ELSE toNode[k]
  BY <1>2 DEF Queues
<1>4. before \in Exchanges /\ before.market = market /\ before.toNode = q
  BY <1>2, <1>3 DEF Exchanges
<1>5. \/ Becomes(before) /\ sessions' = sessions
      \/ /\ sessions' = IF x.symbols = {} THEN sessions ELSE Put(sessions, n, x.symbols)
         /\ \/ Becomes([after EXCEPT !.toNode = Sent(after.toNode, n, granted)])
            \/ Becomes(after)
  BY DEF QuoteRequest
<1>6. granted \in Messages /\ granted.kind = "Granted"
  BY DEF Messages, Words
<1> HIDE DEF q, before, granted
<1>7. /\ after \in Exchanges /\ DOMAIN after.market = DOMAIN market
      /\ \A k \in Nodes : Calm(q[k], after.toNode[k])
  <2>1. CASE ~x.ret
    BY <1>4, <2>1, CalmSame
  <2>2. CASE x.ret
    <3>1. after = MassQuote(before, n)
      BY <2>2
    <3>2. \A k \in Nodes : Calm(before.toNode[k], MassQuote(before, n).toNode[k])
      BY <1>4, MassQuoteCalm
    <3>3. /\ MassQuote(before, n) \in Exchanges
          /\ DOMAIN MassQuote(before, n).market = DOMAIN before.market
      BY <1>4, MassQuoteTyped
    <3> QED
      BY <1>4, <3>1, <3>2, <3>3
  <2> QED
    BY <2>1, <2>2
<1> HIDE DEF after
<1>8. after = [market |-> after.market, toNode |-> after.toNode, login |-> after.login]
      /\ after.toNode \in Queues
  BY <1>7 DEF Exchanges
<1>9. /\ DOMAIN market' = DOMAIN market
      /\ \/ toNode' = q \/ toNode' = after.toNode
         \/ toNode' = Sent(after.toNode, n, granted)
  BY <1>4, <1>5, <1>7, <1>8 DEF Becomes
<1>10. ASSUME NEW k \in Nodes PROVE Calm(q[k], toNode'[k])
  <2> DEFINE old == q[k]
             mid == after.toNode[k]
             more == Append(mid, granted)
             new == toNode'[k]
  <2>1. mid \in Seq(Messages) /\ Calm(old, mid) /\ (new = old \/ new = mid \/ new = more)
    BY <1>7, <1>8, <1>9 DEF Sent, Queues
  <2> HIDE DEF old, mid, new
  <2>2. Calm(mid, more)
    BY <1>6, <2>1, CalmMore
  <2> HIDE DEF more
  <2>3. Calm(old, old) /\ Calm(old, more)
    BY <2>1, <2>2, CalmOn, CalmSame
  <2>4. Calm(old, new)
    BY <2>1, <2>3
  <2> QED
    BY <2>4 DEF old, new
<1>11. sessions' = sessions \/ (v # {} /\ sessions' = Put(sessions, n, v))
  BY <1>1, <1>5
<1> QED
  BY <1>3, <1>9, <1>10, <1>11

LEMMA GoingAfter ==
    ASSUME NEW n \in Nodes, NEW T, sessions' = Put(sessions, n, T)
    PROVE  Going(n)' = T /\ \A k \in Nodes \ {n} : Going(k)' = Going(k)
BY DEF Put, Going, Subscribed

\* ctrl() asks for what the script has chosen.
LEMMA CtrlPasses ==
    ASSUME SessionsInv, Piped, NEW n \in Nodes, Ctrl(n)
    PROVE  Piped' /\ NoneSkips
<1> DEFINE w == [node[n] EXCEPT !.pc = "run"]
           rest == toNode[n]
           mine == node[n].mine
           x == Request(n, mine, TRUE)
<1>1. node[n].pc = "on" /\ Handles(n, x, w, rest)
  BY DEF Ctrl
<1>2. node[n] \in NodeRecord /\ rest \in Seq(Messages) /\ toNode \in Queues
  BY DEF SessionsInv, Good, AllNodes, Queues
<1>3. /\ w \in NodeRecord /\ w.pc = "run" /\ w.mine = mine
      /\ w.last = node[n].last /\ w.bus = node[n].bus
  BY <1>2 DEF NodeRecord
<1>4. x.kind = "Request"
  BY DEF Request
<1> HIDE DEF w, x
<1>5. /\ node' = [node EXCEPT ![n] = w] /\ HandlerRest
      /\ \/ /\ toNode' = [toNode EXCEPT ![n] = rest]
            /\ UNCHANGED <<market, sessions>>
         \/ QuoteRequest(n, x, rest)
  <2>1. x.kind # "Leaving"
    BY <1>4
  <2> QED
    BY <1>1, <2>1, HandlesIs
<1>6. /\ \A k \in Nodes : Calm(toNode[k], toNode'[k])
      /\ DOMAIN market' = DOMAIN market
      /\ sessions' = sessions \/ (mine # {} /\ sessions' = Put(sessions, n, mine))
  <2>1. CASE /\ toNode' = [toNode EXCEPT ![n] = rest]
             /\ UNCHANGED <<market, sessions>>
    BY <1>2, <2>1, CalmSame DEF Queues
  <2>2. CASE QuoteRequest(n, x, rest)
    <3> HIDE DEF mine, rest
    <3>1. x = Request(n, mine, TRUE) /\ TRUE \in BOOLEAN /\ rest \in Seq(Messages)
      BY <1>2 DEF x
    <3>2. /\ \A k \in Nodes : Calm(IF k = n THEN rest ELSE toNode[k], toNode'[k])
          /\ DOMAIN market' = DOMAIN market
          /\ sessions' = sessions \/ (mine # {} /\ sessions' = Put(sessions, n, mine))
      BY <2>2, <3>1, RequestCalm
    <3> QED
      BY <3>2 DEF rest
  <2> QED
    BY <1>5, <2>1, <2>2
<1>7. /\ Going(n)' = Going(n) \/ (mine # {} /\ Going(n)' = mine)
      /\ \A k \in Nodes \ {n} : Going(k)' = Going(k)
  <2>1. CASE sessions' = sessions
    BY <2>1 DEF Going, Subscribed
  <2>2. CASE mine # {} /\ sessions' = Put(sessions, n, mine)
    <3> HIDE DEF mine
    <3> QED
      BY <2>2, GoingAfter
  <2> QED
    BY <1>6, <2>1, <2>2
<1> DEFINE U == Going(n)'
           T == Going(n)
<1>8. (U = T \/ (mine # {} /\ U = mine)) /\ U = Going(n)' /\ T = Going(n)
  BY <1>7
<1> HIDE DEF U, T
<1>9. \A c \in Codes : Gets(c, U) => Gets(c, T) \/ Wants(node[n], c)
  BY <1>1, <1>8 DEF Wants
<1>10. \A c \in Codes : Wants(w, c) /\ ~Gets(c, U) => Wants(node[n], c) /\ ~Gets(c, T)
  BY <1>3, <1>8 DEF Wants
<1>11. /\ \A c \in Codes : Alive /\ Gets(c, U) => Gets(c, Going(n)) \/ Wants(node[n], c)
       /\ \A c \in Codes : Alive /\ Wants(w, c) /\ ~Gets(c, U) =>
                               Wants(node[n], c) /\ ~Gets(c, Going(n))
  BY <1>8, <1>9, <1>10
<1>12. Alike(toNode[n], toNode'[n]) /\ (NoCancel(toNode[n]) => NoCancel(toNode'[n]))
  BY <1>6 DEF Calm
<1>13. UNCHANGED <<feed, bus, ticks>>
  BY <1>5 DEF HandlerRest
<1> QED
  BY <1>1, <1>3, <1>5, <1>6, <1>7, <1>8, <1>11, <1>12, <1>13, PassesStep

\* A script ends after its bus was told to; while the stream goes on, only a
\* node that has chosen is.
LEMMA ScriptEndsPasses ==
    ASSUME SessionsInv, Piped, NEW n \in Nodes, ScriptEnds(n)
    PROVE  Piped' /\ NoneSkips
<1> DEFINE u == node[n]
           rest == toNode[n]
<1> DEFINE less == {c \in u.down : node[n].symbols[c] # "DELISTING"}
<1>1. PICK unread \in BOOLEAN, blocked \in BOOLEAN :
        Handles(n, QuoteStatusReport,
                [node[n] EXCEPT !.pc = "left", !.bus = "gone", !.unread = unread,
                                !.blocked = blocked, !.down = less], rest)
  <2>1. u \in NodeRecord
    BY DEF SessionsInv, Good, AllNodes
  <2>2. PICK late \in BOOLEAN :
          Handles(n, QuoteStatusReport,
                  [node[n] EXCEPT !.pc = "left", !.bus = "gone",
                                  !.unread = u.unread /\ ~late,
                                  !.blocked = u.blocked /\ ~late, !.down = less], rest)
    BY DEF ScriptEnds
  <2>3. (u.unread /\ ~late) \in BOOLEAN /\ (u.blocked /\ ~late) \in BOOLEAN
    OBVIOUS
  <2> QED
    BY <2>2, <2>3
<1> DEFINE w == [node[n] EXCEPT !.pc = "left", !.bus = "gone", !.unread = unread,
                                !.blocked = blocked, !.down = less]
<1>2. node[n].pc = "run" /\ node[n].bus = "quit" /\ Handles(n, QuoteStatusReport, w, rest)
  BY <1>1 DEF ScriptEnds
<1>3. node[n] \in NodeRecord /\ toNode \in Queues
  BY DEF SessionsInv, Good, AllNodes
<1>4. less \subseteq u.down
  OBVIOUS
<1> HIDE DEF less
<1>5. /\ w \in NodeRecord /\ w.pc = "left" /\ w.mine = node[n].mine
      /\ w.last = node[n].last
  BY <1>3, <1>4 DEF NodeRecord
<1> HIDE DEF w, u
<1>6. QuoteStatusReport.kind = "Leaving"
  BY DEF QuoteStatusReport
<1>7. /\ node' = [node EXCEPT ![n] = w] /\ HandlerRest
      /\ \/ /\ toNode' = [toNode EXCEPT ![n] = rest]
            /\ UNCHANGED <<market, sessions>>
         \/ Leaving(n)
  <2>1. QuoteStatusReport.kind # "Request"
    BY <1>6
  <2> QED
    BY <1>2, <2>1, HandlesIs
<1>8. toNode' = toNode /\ market' = market
  BY <1>3, <1>7 DEF Leaving, Queues
<1>9. sessions' = sessions \/ sessions' = Put(sessions, n, {})
  BY <1>7 DEF Leaving, Unsubscribed
<1>10. /\ Going(n)' = Going(n) \/ Going(n)' = {}
       /\ \A k \in Nodes \ {n} : Going(k)' = Going(k)
  <2>1. CASE sessions' = sessions
    BY <2>1 DEF Going, Subscribed
  <2>2. CASE sessions' = Put(sessions, n, {})
    BY <2>2, GoingAfter
  <2> QED
    BY <1>9, <2>1, <2>2
<1>11. Alive => node[n].mine # {}
  BY <1>2 DEF Piped, Stays
<1> DEFINE U == Going(n)'
           T == Going(n)
<1>12. (U = T \/ U = {}) /\ U = Going(n)' /\ T = Going(n)
  BY <1>10
<1> HIDE DEF U, T
<1>13. /\ \A c \in Codes : Gets(c, U) => Gets(c, T)
       /\ \A c \in Codes : Alive => ~Wants(w, c)
  BY <1>5, <1>11, <1>12 DEF Gets, Wants
<1>14. /\ \A c \in Codes : Alive /\ Gets(c, U) => Gets(c, Going(n)) \/ Wants(node[n], c)
       /\ \A c \in Codes : Alive /\ Wants(w, c) /\ ~Gets(c, U) =>
                               Wants(node[n], c) /\ ~Gets(c, Going(n))
  BY <1>12, <1>13
<1>15. /\ \A k \in Nodes : Calm(toNode[k], toNode'[k])
       /\ Alike(toNode[n], toNode'[n]) /\ (NoCancel(toNode[n]) => NoCancel(toNode'[n]))
  BY <1>8, CalmSame DEF Calm
<1>16. UNCHANGED <<feed, bus, ticks>> /\ DOMAIN market \subseteq DOMAIN market'
  BY <1>7, <1>8 DEF HandlerRest
<1> QED
  BY <1>2, <1>5, <1>7, <1>10, <1>11, <1>12, <1>14, <1>15, <1>16, PassesStep

\* A quote of another code is read.
LEMMA FlowSkips ==
    ASSUME NEW q \in Seq(Messages), q # << >>, NEW v, NEW T, NEW live,
           NEW c \in Codes, NEW e \in Nat, Flow(q, v, T, live, c, e), ~IsQuoteOf(Head(q), c),
           NEW w, w.mine = v.mine, w.pc = v.pc, w.last[c] = v.last[c]
    PROVE  Flow(Tail(q), w, T, live, c, e)
<1>1. \A a \in Nat : \A b \in Nat : Steady(q, c, a, b) => Steady(Tail(q), c, a, b)
  BY SteadyLess
<1> QED
  BY <1>1 DEF Flow, Wants

LEMMA PassesQuote ==
    ASSUME NEW q \in Seq(Messages), q # << >>, NEW v \in NodeRecord, NEW T, NEW live,
           NEW w, w.mine = v.mine, w.pc = v.pc, Reads(Head(q), v, w), Head(q).kind = "Data"
    PROVE  Passes(q, v, T, live, Tail(q), w, T, live)
<1> DEFINE x == Head(q)
<1>1. /\ \A c \in Codes :
            w.last[c] = IF IsQuoteOf(x, c) /\ v.mine # {} THEN x.number ELSE v.last[c]
      /\ w.bus # v.bus => v.mine # {}
  BY DEF Reads
<1>2. Stays(q, v, live) => Stays(Tail(q), w, live)
  <2>1. ToSet(Tail(q)) \subseteq ToSet(q)
    BY Shrunk
  <2> QED
    BY <1>1, <2>1 DEF Stays, NoCancel
<1>3. ASSUME NEW d \in [Codes -> Nat], Streams(q, v, T, live, d)
      PROVE  Streams(Tail(q), w, T, live, d) /\ Reader(v, w)
  <2>1. ASSUME w.pc # "off", NEW c \in Codes
        PROVE  /\ Flow(Tail(q), w, T, live, c, d[c])
               /\ v.last[c] > 0 /\ w.last[c] # v.last[c] => w.last[c] = v.last[c] + 1
    <3> DEFINE e == d[c]
    <3>1. Flow(q, v, T, live, c, e) /\ e \in Nat
      BY <1>3, <2>1 DEF Streams
    <3>2. w.last[c] = IF IsQuoteOf(x, c) /\ v.mine # {} THEN x.number ELSE v.last[c]
      BY <1>1
    <3> HIDE DEF e
    <3>3. CASE IsQuoteOf(x, c)
      <4>1. w.last[c] = IF v.mine # {} THEN Head(q).number ELSE v.last[c]
        BY <3>2, <3>3
      <4>2. /\ Flow(Tail(q), w, T, live, c, e)
            /\ v.last[c] > 0 => w.last[c] = v.last[c] + 1
        BY <3>1, <3>3, <4>1, FlowReads
      <4> QED
        BY <4>2 DEF e
    <3>4. CASE ~IsQuoteOf(x, c)
      <4>1. w.last[c] = v.last[c]
        BY <3>2, <3>4
      <4>2. Flow(Tail(q), w, T, live, c, e)
        BY <3>1, <3>4, <4>1, FlowSkips
      <4> QED
        BY <4>1, <4>2 DEF e
    <3> QED
      BY <3>3, <3>4
  <2> QED
    BY <2>1 DEF Streams, Reader
<1> QED
  BY <1>2, <1>3 DEF Passes

\* The FIX thread handles the first of its messages.
LEMMA FromAppPasses ==
    ASSUME SessionsInv, Piped, NEW n \in Nodes, FromApp(n)
    PROVE  Piped' /\ NoneSkips
<1> DEFINE q == toNode[n]
           v == node[n]
           y == Head(q)
           rest == Tail(q)
           r == Handled(n, v, y)
           w == r.node
           x == r.sends
           mine == w.mine
<1>1. q # << >> /\ Handles(n, x, w, rest)
  BY DEF FromApp
<1>2. /\ v \in NodeRecord /\ q \in Seq(Messages) /\ toNode \in Queues /\ node \in AllNodes
      /\ Fit(n, market, q, sessions, v, stop)
  BY DEF SessionsInv, Good, AllNodes, Queues
<1>3. y \in Messages /\ rest \in Seq(Messages)
  BY <1>1, <1>2, HeadTailProperties
<1>4. v.down \subseteq DOMAIN v.symbols
  BY <1>2 DEF Fit, Shape
<1>a. v = node[n] /\ q = toNode[n]
  OBVIOUS
<1> HIDE DEF v, q
<1>5. /\ After(y, v, w)
      /\ \/ x.kind = "None"
         \/ /\ v.mine = {} /\ y.kind = "MassQuote"
            /\ x = Request(n, mine, FALSE)
  <2> HIDE DEF y
  <2>1. Answers(n, v, y)
    BY <1>2, <1>3, <1>4, MessageHandled
  <2> QED
    BY <2>1 DEF Answers
<1> HIDE DEF x, w, r
<1>6. /\ w \in NodeRecord /\ w.pc = v.pc /\ Reads(y, v, w)
      /\ w.mine = v.mine \/ (v.mine = {} /\ y.kind = "MassQuote")
  BY <1>5 DEF After
<1>7. x.kind # "Leaving"
  <2>1. Request(n, mine, FALSE).kind = "Request"
    BY DEF Request
  <2> QED
    BY <1>5, <2>1
<1>8. /\ node' = [node EXCEPT ![n] = w] /\ HandlerRest
      /\ \/ /\ toNode' = [toNode EXCEPT ![n] = rest]
            /\ UNCHANGED <<market, sessions>>
         \/ x.kind = "Request" /\ QuoteRequest(n, x, rest)
  BY <1>1, <1>7, HandlesIs
<1>9. UNCHANGED <<feed, bus, ticks>>
  BY <1>8 DEF HandlerRest
<1>10. CASE y.kind = "Data"
  <2>1. x.kind # "Request" /\ w.mine = v.mine
    BY <1>5, <1>6, <1>10 DEF Request
  <2>2. toNode' = [toNode EXCEPT ![n] = rest] /\ UNCHANGED <<market, sessions>>
    BY <1>8, <2>1
  <2>3. \A k \in Nodes \ {n} : Going(k)' = Going(k) /\ Calm(toNode[k], toNode'[k])
    BY <1>2, <2>2, CalmSame DEF Going, Subscribed, Queues
  <2>4. PassesOne(n)
    <3> DEFINE T == Going(n)
               live == Alive
    <3>1. /\ Going(n)' = T /\ (Alive' <=> live) /\ node'[n] = w /\ toNode'[n] = rest
      BY <1>2, <1>8, <1>9, <2>2 DEF Going, Subscribed, Alive, AllNodes, Queues
    <3> HIDE DEF T, live
    <3>2. Passes(q, v, T, live, Tail(q), w, T, live)
      BY <1>1, <1>2, <1>6, <1>10, <2>1, PassesQuote
    <3> HIDE DEF rest
    <3>a. Passes(q, v, T, live, rest, w, T, live)
      BY <3>2 DEF rest
    <3>3. Passes(q, v, T, live, rest, w, T, Alive')
      BY <3>1, <3>a, PassesAlive
    <3> QED
      BY <1>a, <3>1, <3>3 DEF PassesOne, T, live
  <2> QED
    BY <1>2, <1>8, <1>9, <2>2, <2>3, <2>4, NodePasses
<1>11. CASE y.kind # "Data"
  <2>1. w.last = v.last
    <3>1. \A c \in Codes : w.last[c] = v.last[c]
      BY <1>6, <1>11 DEF Reads, IsQuoteOf
    <3>2. w.last \in [Codes -> Nat] /\ v.last \in [Codes -> Nat]
      BY <1>2, <1>6 DEF NodeRecord
    <3> QED
      BY <3>1, <3>2
  <2>2. Alive => y.kind # "Cancel"
    <3>1. y \in ToSet(q)
      BY <1>1, <1>2, Shrunk
    <3>2. Alive => NoCancel(q)
      BY <1>a DEF Piped, Stays
    <3> QED
      BY <3>1, <3>2 DEF NoCancel
  <2>3. Alive => (w.bus # v.bus => w.mine # {})
    BY <1>6, <2>2 DEF Reads
  <2>4. Alike(q, rest) /\ (NoCancel(q) => NoCancel(rest))
    <3>1. ToSet(rest) \subseteq ToSet(q)
      BY <1>1, <1>2, Shrunk
    <3> QED
      BY <1>1, <1>2, <1>11, <3>1, AlikeLess DEF NoCancel
  <2>5. /\ \A k \in Nodes : Calm(IF k = n THEN rest ELSE toNode[k], toNode'[k])
        /\ DOMAIN market' = DOMAIN market
        /\ \/ sessions' = sessions
           \/ v.mine = {} /\ mine # {} /\ sessions' = Put(sessions, n, mine)
    <3>1. CASE /\ toNode' = [toNode EXCEPT ![n] = rest]
               /\ UNCHANGED <<market, sessions>>
      BY <1>2, <3>1, CalmSame DEF Queues
    <3>2. CASE x.kind = "Request" /\ QuoteRequest(n, x, rest)
      <4>1. v.mine = {} /\ x = Request(n, mine, FALSE) /\ FALSE \in BOOLEAN
        BY <1>5, <3>2
      <4> HIDE DEF mine, rest
      <4>2. /\ \A k \in Nodes : Calm(IF k = n THEN rest ELSE toNode[k], toNode'[k])
            /\ DOMAIN market' = DOMAIN market
            /\ sessions' = sessions \/ (mine # {} /\ sessions' = Put(sessions, n, mine))
        BY <1>3, <3>2, <4>1, RequestCalm
      <4> QED
        BY <4>1, <4>2
    <3> QED
      BY <1>8, <3>1, <3>2
  <2>6. /\ Going(n)' = Going(n) \/ (v.mine = {} /\ mine # {} /\ Going(n)' = mine)
        /\ \A k \in Nodes \ {n} : Going(k)' = Going(k)
    <3>1. CASE sessions' = sessions
      BY <3>1 DEF Going, Subscribed
    <3>2. CASE v.mine = {} /\ mine # {} /\ sessions' = Put(sessions, n, mine)
      <4> HIDE DEF mine
      <4> QED
        BY <3>2, GoingAfter
    <3> QED
      BY <2>5, <3>1, <3>2
  <2> DEFINE U == Going(n)'
             T == Going(n)
  <2>7. /\ U = T \/ (v.mine = {} /\ mine # {} /\ U = mine)
        /\ U = Going(n)' /\ T = Going(n)
    BY <2>6
  <2> HIDE DEF U, T
  <2>8. \A c \in Codes : Alive /\ Gets(c, U) => Gets(c, Going(n)) \/ Wants(node[n], c)
    BY <1>a, <2>7 DEF Wants
  <2>9. \A c \in Codes : Alive /\ Wants(w, c) /\ ~Gets(c, U) =>
                             Wants(node[n], c) /\ ~Gets(c, Going(n))
    BY <1>a, <1>6, <2>7 DEF Wants
  <2>10. /\ Alike(toNode[n], toNode'[n])
         /\ NoCancel(toNode[n]) => NoCancel(toNode'[n])
         /\ \A k \in Nodes \ {n} : Calm(toNode[k], toNode'[k])
    <3>1. Calm(rest, toNode'[n])
      BY <2>5
    <3>2. Alike(q, toNode'[n]) /\ (NoCancel(q) => NoCancel(toNode'[n]))
      BY <2>4, <3>1 DEF Calm, Alike
    <3>3. \A k \in Nodes \ {n} : Calm(toNode[k], toNode'[k])
      BY <2>5
    <3> QED
      BY <1>a, <3>2, <3>3
  <2>11. /\ w.pc # "off" => node[n].pc # "off"
         /\ w.last = node[n].last /\ (w.mine = {} => node[n].mine = {})
         /\ Alive => (w.bus # node[n].bus => w.mine # {})
    BY <1>a, <1>6, <2>1, <2>3
  <2> QED
    BY <1>6, <1>8, <1>9, <2>5, <2>6, <2>7, <2>8, <2>9, <2>10, <2>11, PassesStep
<1> QED
  BY <1>10, <1>11

-----------------------------------------------------------------------------
(* The system. *)

LEMMA PipedStarts ==
    ASSUME Init
    PROVE  Piped
<1>1. /\ bus = << >> /\ feed = "run" /\ ticks = [c \in Codes |-> 0]
      /\ node = [n \in Nodes |-> Fresh(n)] /\ toNode = [n \in Nodes |-> << >>]
  BY DEF Init
<1>2. \A n \in Nodes : node[n].pc = "off" /\ node[n].bus = "open" /\ toNode[n] = << >>
  BY <1>1 DEF Fresh
<1>3. \A n \in Nodes : Stays(toNode[n], node[n], Alive)
  BY <1>2, EmptyQueue DEF Stays, NoCancel
<1>4. ToSet(bus) = {} /\ Alive
  BY <1>1, EmptyQueue DEF Alive
<1> DEFINE d == [c \in Codes |-> 0]
<1>5. d \in [Codes -> Nat] /\ \A c \in Codes : d[c] = 0 /\ ticks[c] = 0
  BY <1>1
<1> HIDE DEF d
<1>6. \A c \in Codes : Steady(bus, c, d[c], ticks[c])
  BY <1>1, <1>5, SteadyEmpty
<1>7. \A n \in Nodes : Streams(toNode[n], node[n], Subscribed(n, sessions), Alive, d)
  BY <1>2 DEF Streams
<1> QED
  BY <1>3, <1>4, <1>5, <1>6, <1>7 DEF Piped

LEMMA PipedKeeps ==
    SessionsInv /\ Piped /\ [Next]_vars => Piped' /\ NoneSkips
<1> SUFFICES ASSUME SessionsInv, Piped, [Next]_vars PROVE Piped' /\ NoneSkips
  OBVIOUS
<1>1. CASE \E c \in Opening : SymbolInit(c)
  BY <1>1, SessionAssumption, InitPasses
<1>2. CASE \E c \in Codes : MarketList(c)
  BY <1>2, ListPasses
<1>3. CASE \E c \in Codes : MarketDelist(c)
  BY <1>3, DelistPasses
<1>4. CASE \E c \in Codes : Tick(c)
  BY <1>4, TickPasses
<1>5. CASE \E running \in BOOLEAN : StatusOrder(running)
  BY <1>5, StatusPasses
<1>6. CASE ExitOrder \/ QuoteCancel \/ AcceptorStop
  BY <1>6, EndPasses
<1>7. CASE FixBeam
  BY <1>7, BeamPasses
<1>8. ASSUME NEW n \in Nodes, NodeNext(n) PROVE Piped' /\ NoneSkips
  BY <1>8, LogonPasses, CtrlPasses, TradePasses, ScriptEndsPasses, LeavePasses,
     FromAppPasses DEF NodeNext
<1>9. CASE UNCHANGED vars
  <2>1. UNCHANGED <<feed, bus, ticks, market, toNode, sessions, node>>
    BY <1>9 DEF vars, exchange
  <2>2. (Alive' => Alive) /\ (~Alive' => bus = << >>)
    BY <2>1 DEF Piped, Alive
  <2>3. \A n \in Nodes : Alike(toNode[n], toNode'[n]) /\ Calm(toNode[n], toNode'[n])
    BY <2>1, CalmSame DEF Calm
  <2>4. Alive' => \A n \in Nodes : Calm(toNode[n], toNode'[n])
    BY <2>3
  <2> QED
    BY <2>1, <2>2, <2>3, <2>4, ExchangePasses
<1> QED
  BY <1>1, <1>2, <1>3, <1>4, <1>5, <1>6, <1>7, <1>8, <1>9 DEF Next, FeedNext

LEMMA NoneSkipsIs ==
    NoneSkips => \A n \in Nodes, c \in Codes :
        node[n].last[c] > 0 /\ Online(n)' /\ node'[n].last[c] # node[n].last[c]
        => node'[n].last[c] = node[n].last[c] + 1
<1> SUFFICES ASSUME NoneSkips, NEW n \in Nodes, NEW c \in Codes, node[n].last[c] > 0,
                    Online(n)', node'[n].last[c] # node[n].last[c]
             PROVE  node'[n].last[c] = node[n].last[c] + 1
  OBVIOUS
<1>1. node'[n].pc # "off"
  BY DEF Online
<1> QED
  BY <1>1 DEF NoneSkips, Reader

\* From its first quote of a symbol on, a node gets every quote of it, once and in
\* order, through the bus, FixBeam and its session, whatever else is on its way,
\* whoever subscribes, leaves, dies or comes back: for any nodes and symbols.
THEOREM EveryQuoteIsRead == Spec => NoQuoteSkipped
<1>1. Init => SessionsInv /\ Piped
  BY SessionStarts, PipedStarts
<1>2. SessionsInv /\ Piped /\ [Next]_vars => SessionsInv' /\ Piped'
  BY SessionsInductive, PipedKeeps
<1>3. SessionsInv /\ Piped /\ [Next]_vars =>
          [\A n \in Nodes, c \in Codes :
             node[n].last[c] > 0 /\ Online(n)' /\ node'[n].last[c] # node[n].last[c]
             => node'[n].last[c] = node[n].last[c] + 1]_vars
  BY PipedKeeps, NoneSkipsIs
<1> QED
  BY <1>1, <1>2, <1>3, PTL DEF Spec, NoQuoteSkipped

==============================================================================
