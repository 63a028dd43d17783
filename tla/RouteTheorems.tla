---------------------------- MODULE RouteTheorems ---------------------------
(***************************************************************************)
(* What the analysis of the routes computes, for every map, every set of   *)
(* routes and every published state.                                       *)
(***************************************************************************)
EXTENDS PoolProperties, WellFoundedInduction, FiniteSetTheorems, SequenceTheorems, TLAPS

----------------------------------------------------------------------------
(***************************************************************************)
(* Induction, about a set of numbers: the order of Nat is well founded.    *)
(***************************************************************************)
LEMMA LeastNumber ==
    ASSUME NEW T \in SUBSET Nat, T # {}
    PROVE  \E m \in T : \A k \in T : m <= k
<1> DEFINE R == OpToRel(<, Nat)
<1>1. IsWellFoundedOn(R, Nat)
  BY NatLessThanWellFounded
<1>2. \A x, y \in Nat : <<y, x>> \in R <=> y < x
  BY DEF OpToRel
<1> HIDE DEF R
<1>3. PICK x \in T : \A y \in T : ~ (<<y, x>> \in R)
  BY <1>1, WFMin
<1>4. ASSUME NEW k \in T PROVE x <= k
  <2>1. x \in Nat /\ k \in Nat
    OBVIOUS
  <2>2. <<k, x>> \notin R
    BY <1>3
  <2>3. ~ (k < x)
    BY <1>2, <2>1, <2>2
  <2> QED
    BY <2>1, <2>3
<1> QED
  BY <1>4

LEMMA Induct ==
    ASSUME NEW S \in SUBSET Nat, 0 \in S, \A n \in S : n + 1 \in S
    PROVE  S = Nat
<1>1. SUFFICES ASSUME S # Nat PROVE FALSE
  OBVIOUS
<1>2. Nat \ S # {} /\ Nat \ S \in SUBSET Nat
  BY <1>1
<1>3. PICK m \in Nat \ S : \A k \in Nat \ S : m <= k
  BY <1>2, LeastNumber
<1>4. m # 0 /\ m - 1 \in Nat
  BY <1>3
<1>5. m - 1 \in S
  BY <1>3, <1>4
<1> QED
  BY <1>5, <1>3, <1>4

\* between two numbers
LEMMA Climb ==
    ASSUME NEW lo \in Nat, NEW hi \in Nat, NEW S, lo \in S,
           \A k \in lo..hi : k \in S /\ k < hi => k + 1 \in S
    PROVE  \A k \in lo..hi : k \in S
<1> DEFINE T == {n \in Nat : lo + n <= hi => lo + n \in S}
<1>1. 0 \in T
  OBVIOUS
<1>2. ASSUME NEW n \in T PROVE n + 1 \in T
  <2>1. n \in Nat /\ n + 1 \in Nat
    OBVIOUS
  <2>2. ASSUME lo + (n + 1) <= hi PROVE lo + (n + 1) \in S
    <3>1. lo + n \in lo..hi /\ lo + n < hi /\ (lo + n) + 1 = lo + (n + 1)
      BY <2>1, <2>2
    <3>2. lo + n \in S
      BY <3>1
    <3> QED
      BY <3>1, <3>2
  <2> QED
    BY <2>1, <2>2
<1>3. T = Nat
  <2>1. T \in SUBSET Nat
    OBVIOUS
  <2> HIDE DEF T
  <2> QED
    BY <1>1, <1>2, <2>1, Induct
<1> SUFFICES ASSUME NEW k \in lo..hi PROVE k \in S
  OBVIOUS
<1>4. k - lo \in Nat /\ lo + (k - lo) = k /\ k <= hi
  OBVIOUS
<1>5. k - lo \in T
  BY <1>3, <1>4
<1> QED
  BY <1>4, <1>5

(***************************************************************************)
(* A loop from lo to hi, each round of which computes Op of its number and *)
(* of what the round before it left, has a result.                         *)
(***************************************************************************)
IsLoop(f, lo, hi, S, base, Op) ==
    /\ f \in [lo..hi -> S]
    /\ \A k \in lo..hi : f[k] = IF k = lo THEN base ELSE Op[k][f[k - 1]]

LEMMA LoopExists ==
    ASSUME NEW lo \in Nat, NEW hi \in Nat, lo <= hi, NEW S, NEW base \in S,
           NEW Op \in [lo..hi -> [S -> S]]
    PROVE  \E f : IsLoop(f, lo, hi, S, base, Op)
<1> USE DEF IsLoop
<1> DEFINE Upto(h) ==
             \E f \in [lo..h -> S] :
               \A k \in lo..h : f[k] = IF k = lo THEN base ELSE Op[k][f[k - 1]]
           T == {h \in lo..hi : Upto(h)}
<1>1. lo \in T
  <2> DEFINE f == [k \in lo..lo |-> base]
  <2>1. f \in [lo..lo -> S] /\ \A k \in lo..lo : f[k] = base /\ k = lo
    OBVIOUS
  <2> HIDE DEF f
  <2>2. Upto(lo)
    BY <2>1
  <2>3. lo \in lo..hi
    OBVIOUS
  <2> QED
    BY <2>2, <2>3
<1>2. ASSUME NEW h \in lo..hi, h \in T, h < hi PROVE h + 1 \in T
  <2>1. PICK f \in [lo..h -> S] :
          \A k \in lo..h : f[k] = IF k = lo THEN base ELSE Op[k][f[k - 1]]
    BY <1>2
  <2> DEFINE g == [k \in lo..(h + 1) |-> IF k = h + 1 THEN Op[h + 1][f[h]] ELSE f[k]]
  <2>2. h + 1 \in lo..hi /\ h \in lo..h /\ h + 1 # lo
    BY <1>2
  <2>3. Op[h + 1][f[h]] \in S
    BY <2>2
  <2>4. g \in [lo..(h + 1) -> S]
    BY <2>3
  <2>5. ASSUME NEW k \in lo..(h + 1)
        PROVE  g[k] = IF k = lo THEN base ELSE Op[k][g[k - 1]]
    <3>1. CASE k = h + 1
      <4>1. k - 1 = h /\ g[k - 1] = f[h]
        BY <2>2, <3>1
      <4> QED
        BY <2>2, <3>1, <4>1
    <3>2. CASE k # h + 1
      <4>1. k \in lo..h /\ g[k] = f[k]
        BY <3>2
      <4>2. k # lo => k - 1 \in lo..(h + 1) /\ k - 1 # h + 1 /\ g[k - 1] = f[k - 1]
        BY <4>1
      <4> QED
        BY <2>1, <4>1, <4>2
    <3> QED
      BY <3>1, <3>2
  <2> HIDE DEF g
  <2> QED
    BY <2>2, <2>4, <2>5
<1> HIDE DEF T
<1>3. \A k \in lo..hi : k \in T
  BY <1>1, <1>2, Climb
<1>4. hi \in T
  BY <1>3
<1> QED
  BY <1>4 DEF T
(***************************************************************************)
(* A sum over a finite set is a number, and over none it is 0.             *)
(***************************************************************************)
LEMMA SumIsInt ==
    ASSUME NEW D, IsFiniteSet(D), NEW f \in [D -> Int]
    PROVE  SumFunction(f) \in Int /\ (D = {} => SumFunction(f) = 0)
<1> DEFINE pick(s) == CHOOSE x \in s : TRUE
           Small(n) == {s \in SUBSET D : Cardinality(s) <= n}
           Sums(n) ==
             \E g \in [Small(n) -> Int] :
               \A s \in Small(n) : g[s] = IF s = {} THEN 0 ELSE f[pick(s)] + g[s \ {pick(s)}]
           T == {n \in Nat : Sums(n)}
           Good(it) ==
             it = [s \in SUBSET D |-> IF s = {} THEN 0 ELSE f[pick(s)] + it[s \ {pick(s)}]]
<1>1. \A s \in SUBSET D : IsFiniteSet(s) /\ Cardinality(s) \in Nat
  BY FS_Subset, FS_CardinalityType
<1>2. \A s \in SUBSET D : s # {} => /\ pick(s) \in s /\ pick(s) \in D /\ s \ {pick(s)} \in SUBSET D
                                   /\ Cardinality(s \ {pick(s)}) = Cardinality(s) - 1
  BY <1>1, FS_RemoveElement
<1>3. \A s \in SUBSET D : Cardinality(s) = 0 <=> s = {}
  BY <1>1, FS_EmptySet
<1> HIDE DEF pick
<1>4. 0 \in T
  <2> DEFINE g == [s \in Small(0) |-> 0]
  <2>1. g \in [Small(0) -> Int] /\ \A s \in Small(0) : g[s] = 0 /\ s = {}
    BY <1>1, <1>3
  <2> HIDE DEF g
  <2> QED
    BY <2>1
<1>5. ASSUME NEW n \in T PROVE n + 1 \in T
  <2>1. PICK g \in [Small(n) -> Int] :
          \A s \in Small(n) : g[s] = IF s = {} THEN 0 ELSE f[pick(s)] + g[s \ {pick(s)}]
    OBVIOUS
  <2> DEFINE h == [s \in Small(n + 1) |-> IF s = {} THEN 0 ELSE f[pick(s)] + g[s \ {pick(s)}]]
  <2>2. ASSUME NEW s \in Small(n + 1), s # {}
        PROVE  s \ {pick(s)} \in Small(n) /\ s \ {pick(s)} \in Small(n + 1)
    <3>1. /\ s \in SUBSET D /\ Cardinality(s) \in Nat /\ Cardinality(s) <= n + 1 /\ n \in Nat
          /\ s \ {pick(s)} \in SUBSET D
          /\ Cardinality(s \ {pick(s)}) = Cardinality(s) - 1
      BY <1>1, <1>2, <2>2
    <3> QED
      BY <3>1
  <2>3. h \in [Small(n + 1) -> Int]
    <3>1. ASSUME NEW s \in Small(n + 1), s # {} PROVE f[pick(s)] + g[s \ {pick(s)}] \in Int
      BY <1>2, <2>2, <3>1
    <3> QED
      BY <3>1
  <2>4. Small(n) \subseteq Small(n + 1)
    BY <1>1
  <2>5. \A s \in Small(n) : h[s] = g[s]
    BY <2>1, <2>4
  <2>6. \A s \in Small(n + 1) : h[s] = IF s = {} THEN 0 ELSE f[pick(s)] + h[s \ {pick(s)}]
    BY <2>2, <2>5
  <2> HIDE DEF h, Small
  <2>7. Sums(n + 1)
    BY <2>3, <2>6
  <2>8. n + 1 \in Nat
    OBVIOUS
  <2> HIDE DEF Sums
  <2> QED
    BY <2>7, <2>8
<1>6. T = Nat
  <2>1. T \in SUBSET Nat
    OBVIOUS
  <2> HIDE DEF T
  <2> QED
    BY <1>4, <1>5, <2>1, Induct
<1>7. \E it : Good(it)
  <2>1. Sums(Cardinality(D)) /\ Cardinality(D) \in Nat
    BY <1>1, <1>6
  <2>2. PICK g \in [Small(Cardinality(D)) -> Int] :
          \A s \in Small(Cardinality(D)) :
            g[s] = IF s = {} THEN 0 ELSE f[pick(s)] + g[s \ {pick(s)}]
    BY <2>1
  <2>3. Small(Cardinality(D)) = SUBSET D
    BY FS_Subset
  <2> HIDE DEF Small
  <2>4. Good(g)
    BY <2>2, <2>3
  <2> QED
    BY <2>4
<1>8. ASSUME NEW it, Good(it) PROVE it[D] \in Int
  <2> DEFINE N == {n \in Nat : \A s \in SUBSET D : Cardinality(s) = n => it[s] \in Int}
  <2>1. 0 \in N
    BY <1>3, <1>8
  <2>2. ASSUME NEW n \in N PROVE n + 1 \in N
    <3>1. ASSUME NEW s \in SUBSET D, Cardinality(s) = n + 1 PROVE it[s] \in Int
      <4>1. s # {} /\ n \in Nat
        BY <1>3, <3>1
      <4>2. it[s] = f[pick(s)] + it[s \ {pick(s)}]
        BY <1>8, <4>1
      <4>3. Cardinality(s \ {pick(s)}) = n /\ s \ {pick(s)} \in SUBSET D
        BY <1>2, <3>1, <4>1
      <4>4. it[s \ {pick(s)}] \in Int
        BY <4>3
      <4> QED
        BY <1>2, <4>1, <4>2, <4>4
    <3> QED
      BY <3>1
  <2>3. N = Nat
    <3>1. N \in SUBSET Nat
      OBVIOUS
    <3> HIDE DEF N
    <3> QED
      BY <2>1, <2>2, <3>1, Induct
  <2> QED
    BY <1>1, <2>3
<1>9. SumFunction(f) = (CHOOSE it : Good(it))[D]
  BY DEF SumFunction, SumFunctionOnSet, FoldFunctionOnSet, MapThenFoldSet, pick
<1>10. ASSUME NEW it, Good(it), D = {} PROVE it[D] = 0
  <2>1. D \in SUBSET D
    OBVIOUS
  <2> QED
    BY <1>10, <2>1
<1> HIDE DEF Good
<1> QED
  BY <1>7, <1>8, <1>9, <1>10
----------------------------------------------------------------------------
(***************************************************************************)
(* Walks over the map.                                                     *)
(***************************************************************************)
LEMMA NoStep ==
    ASSUME NEW a \in Regions, NEW b
    PROVE  Walk(a, b, 0) <=> a = b
<1>1. ASSUME a = b PROVE Walk(a, b, 0)
  <2> DEFINE walk == [i \in 0..0 |-> a]
  <2>1. /\ walk \in [0..0 -> Regions] /\ walk[0] = a /\ walk[0] = b
        /\ \A i \in 1..0 : AreAdjacent(walk[i - 1], walk[i])
    BY <1>1
  <2> HIDE DEF walk
  <2> QED
    BY <2>1 DEF Walk
<1> QED
  BY <1>1 DEF Walk

LEMMA OneMoreStep ==
    ASSUME NEW a \in Regions, NEW b \in Regions, NEW s \in Nat
    PROVE  Walk(a, b, s + 1) <=> \E c \in Regions : Walk(a, c, s) /\ AreAdjacent(c, b)
<1>1. ASSUME Walk(a, b, s + 1)
      PROVE  \E c \in Regions : Walk(a, c, s) /\ AreAdjacent(c, b)
  <2>1. PICK walk \in [0..(s + 1) -> Regions] :
          /\ walk[0] = a /\ walk[s + 1] = b
          /\ \A i \in 1..(s + 1) : AreAdjacent(walk[i - 1], walk[i])
    BY <1>1 DEF Walk
  <2> DEFINE before == [i \in 0..s |-> walk[i]]
  <2>2. s \in 0..(s + 1) /\ s + 1 \in 1..(s + 1) /\ (s + 1) - 1 = s /\ walk[s] \in Regions
    OBVIOUS
  <2>3. AreAdjacent(walk[s], b)
    BY <2>1, <2>2
  <2>4. /\ before \in [0..s -> Regions] /\ before[0] = a /\ before[s] = walk[s]
        /\ \A i \in 1..s : before[i - 1] = walk[i - 1] /\ before[i] = walk[i]
    BY <2>1
  <2>5. \A i \in 1..s : AreAdjacent(before[i - 1], before[i])
    BY <2>1, <2>4
  <2> HIDE DEF before
  <2>6. Walk(a, walk[s], s)
    BY <2>4, <2>5 DEF Walk
  <2> QED
    BY <2>2, <2>3, <2>6
<1>2. ASSUME NEW c \in Regions, Walk(a, c, s), AreAdjacent(c, b) PROVE Walk(a, b, s + 1)
  <2>1. PICK walk \in [0..s -> Regions] :
          /\ walk[0] = a /\ walk[s] = c
          /\ \A i \in 1..s : AreAdjacent(walk[i - 1], walk[i])
    BY <1>2 DEF Walk
  <2> DEFINE longer == [i \in 0..(s + 1) |-> IF i = s + 1 THEN b ELSE walk[i]]
  <2>2. /\ longer \in [0..(s + 1) -> Regions] /\ longer[0] = a /\ longer[s + 1] = b
        /\ longer[s] = c
        /\ \A i \in 1..s : longer[i - 1] = walk[i - 1] /\ longer[i] = walk[i]
    BY <2>1
  <2> HIDE DEF longer
  <2>3. ASSUME NEW i \in 1..(s + 1) PROVE AreAdjacent(longer[i - 1], longer[i])
    <3>1. CASE i \in 1..s
      BY <2>1, <2>2, <3>1
    <3>2. CASE i = s + 1
      <4>1. i - 1 = s
        BY <3>2
      <4> QED
        BY <1>2, <2>2, <3>2, <4>1
    <3> QED
      BY <3>1, <3>2
  <2> QED
    BY <2>2, <2>3 DEF Walk
<1> QED
  BY <1>1, <1>2

\* the regions that a search from a has met after k rounds
LEMMA ReachedByWalking ==
    ASSUME NEW a \in Regions
    PROVE  \A k \in Nat : Reached(a)[k] = {b \in Regions : \E s \in 0..k : Walk(a, b, s)}
<1> DEFINE near(k) == {b \in Regions : \E s \in 0..k : Walk(a, b, s)}
           Good(after) ==
             after = [k \in Nat |->
                        IF k = 0 THEN {a}
                        ELSE LET before == after[k - 1]
                             IN  before \cup {b \in Regions : \E c \in before : AreAdjacent(c, b)}]
<1>1. near(0) = {a}
  BY NoStep
<1>2. ASSUME NEW k \in Nat \ {0}
      PROVE  near(k) = near(k - 1) \cup {b \in Regions : \E c \in near(k - 1) : AreAdjacent(c, b)}
  <2>1. ASSUME NEW b \in near(k), b \notin near(k - 1)
        PROVE  \E c \in near(k - 1) : AreAdjacent(c, b)
    <3>1. PICK s \in 0..k : Walk(a, b, s)
      OBVIOUS
    <3>2. s = (k - 1) + 1 /\ k - 1 \in Nat
      BY <2>1, <3>1
    <3>3. PICK c \in Regions : Walk(a, c, k - 1) /\ AreAdjacent(c, b)
      BY <3>1, <3>2, OneMoreStep
    <3>4. k - 1 \in 0..(k - 1)
      BY <3>2
    <3> QED
      BY <3>3, <3>4
  <2>2. near(k - 1) \subseteq near(k)
    OBVIOUS
  <2>3. ASSUME NEW b \in Regions, NEW c \in near(k - 1), AreAdjacent(c, b)
        PROVE  b \in near(k)
    <3>1. PICK s \in 0..(k - 1) : Walk(a, c, s)
      OBVIOUS
    <3>2. s \in Nat /\ s + 1 \in 0..k
      OBVIOUS
    <3>3. Walk(a, b, s + 1)
      BY <2>3, <3>1, <3>2, OneMoreStep
    <3> QED
      BY <3>2, <3>3
  <2> QED
    BY <2>1, <2>2, <2>3
<1> HIDE DEF near
<1>3. \E after : Good(after)
  <2> DEFINE w == [k \in Nat |-> near(k)]
  <2>1. \A k \in Nat \ {0} : k - 1 \in Nat /\ w[k - 1] = near(k - 1)
    OBVIOUS
  <2>2. Good(w)
    BY <1>1, <1>2, <2>1
  <2> QED
    BY <2>2
<1>4. ASSUME NEW after, Good(after) PROVE \A k \in Nat : after[k] = near(k)
  <2> DEFINE T == {k \in Nat : after[k] = near(k)}
  <2>1. 0 \in T
    BY <1>1, <1>4
  <2>2. ASSUME NEW k \in T PROVE k + 1 \in T
    <3>1. k + 1 \in Nat \ {0} /\ (k + 1) - 1 = k
      OBVIOUS
    <3>2. after[k + 1] = after[k] \cup {b \in Regions : \E c \in after[k] : AreAdjacent(c, b)}
      BY <1>4, <3>1
    <3>3. near(k + 1) = near(k) \cup {b \in Regions : \E c \in near(k) : AreAdjacent(c, b)}
      <4>1. near(k + 1) = near((k + 1) - 1)
                \cup {b \in Regions : \E c \in near((k + 1) - 1) : AreAdjacent(c, b)}
        BY <1>2, <3>1
      <4> QED
        BY <3>1, <4>1
    <3>4. after[k] = near(k)
      OBVIOUS
    <3> QED
      BY <3>1, <3>2, <3>3, <3>4
  <2>3. T = Nat
    <3>1. T \in SUBSET Nat
      OBVIOUS
    <3> HIDE DEF T
    <3> QED
      BY <2>1, <2>2, <3>1, Induct
  <2> QED
    BY <2>3
<1>5. Reached(a) = CHOOSE after : Good(after)
  BY DEF Reached
<1>6. Good(Reached(a))
  BY <1>3, <1>5
<1> QED
  BY <1>4, <1>6 DEF near

(***************************************************************************)
(* The breadth-first search finds what can be walked to, with no more      *)
(* paths than it makes rounds.                                             *)
(***************************************************************************)
THEOREM HopsAreWalks ==
    ASSUME NEW a \in Regions, NEW b \in Regions, NEW k \in Nat
    PROVE  WithinHops(a, b, k) <=> \E s \in 0..k : Walk(a, b, s)
<1>1. b \in Reached(a)[k] <=> \E s \in 0..k : Walk(a, b, s)
  BY ReachedByWalking
<1>2. a = b => \E s \in 0..k : Walk(a, b, s)
  BY NoStep
<1> QED
  BY <1>1, <1>2 DEF WithinHops

(***************************************************************************)
(* The search ends: a round that meets no region is followed by no round   *)
(* that does, so there are no more rounds than regions.                    *)
(***************************************************************************)
Met(a, k) == {b \in Regions : \E s \in 0..k : Walk(a, b, s)}

LEMMA MetIsFinite ==
    ASSUME NEW a, NEW k
    PROVE  /\ IsFiniteSet(Met(a, k)) /\ Cardinality(Met(a, k)) \in Nat
           /\ Cardinality(Met(a, k)) <= Cardinality(Regions)
<1>1. Met(a, k) \in SUBSET Regions
  BY DEF Met
<1> QED
  BY <1>1, MapAssumption, FS_Subset, FS_CardinalityType

LEMMA MetGrows ==
    ASSUME NEW a, NEW k \in Nat, NEW m \in Nat, k <= m
    PROVE  Met(a, k) \subseteq Met(a, m)
<1>1. 0..k \subseteq 0..m
  OBVIOUS
<1> QED
  BY <1>1 DEF Met

LEMMA Standstill ==
    ASSUME NEW a \in Regions, NEW k \in Nat, Met(a, k + 1) = Met(a, k)
    PROVE  \A s \in Nat : Met(a, s) \subseteq Met(a, k)
<1> DEFINE T == {s \in Nat : Met(a, s) \subseteq Met(a, k)}
<1>1. 0 \in T
  BY MetGrows
<1>2. ASSUME NEW s \in T PROVE s + 1 \in T
  <2>1. ASSUME NEW b \in Met(a, s + 1) PROVE b \in Met(a, k)
    <3>1. PICK t \in 0..(s + 1) : b \in Regions /\ Walk(a, b, t)
      BY DEF Met
    <3>2. CASE t <= s
      <4>1. b \in Met(a, s)
        BY <3>1, <3>2 DEF Met
      <4> QED
        BY <4>1
    <3>3. CASE t = s + 1
      <4>1. PICK c \in Regions : Walk(a, c, s) /\ AreAdjacent(c, b)
        BY <3>1, <3>3, OneMoreStep
      <4>2. s \in 0..s
        OBVIOUS
      <4>3. c \in Met(a, s)
        BY <4>1, <4>2 DEF Met
      <4>4. c \in Met(a, k)
        BY <4>3
      <4>5. PICK u \in 0..k : Walk(a, c, u)
        BY <4>4 DEF Met
      <4>6. Walk(a, b, u + 1) /\ u + 1 \in 0..(k + 1)
        BY <3>1, <4>1, <4>5, OneMoreStep
      <4>7. b \in Met(a, k + 1)
        BY <3>1, <4>6 DEF Met
      <4> QED
        BY <4>7
    <3> QED
      BY <3>1, <3>2, <3>3
  <2> QED
    BY <2>1
<1>3. T \in SUBSET Nat
  OBVIOUS
<1>4. T = Nat
  <2> HIDE DEF T
  <2> QED
    BY <1>1, <1>2, <1>3, Induct
<1> QED
  BY <1>4

LEMMA EachRoundAdds ==
    ASSUME NEW a \in Regions, NEW n \in Nat, \A k \in 0..(n - 1) : Met(a, k + 1) # Met(a, k)
    PROVE  Cardinality(Met(a, n)) > n
<1> DEFINE S == {k \in 0..n : Cardinality(Met(a, k)) > k}
<1>1. 0 \in S
  <2>1. a \in Met(a, 0)
    BY NoStep DEF Met
  <2>2. Cardinality(Met(a, 0)) # 0
    BY <2>1, MetIsFinite, FS_EmptySet
  <2>3. 0 \in 0..n
    OBVIOUS
  <2> QED
    BY <2>2, <2>3, MetIsFinite
<1>2. ASSUME NEW k \in 0..n, k \in S, k < n PROVE k + 1 \in S
  <2> DEFINE old == Met(a, k)
             new == Met(a, k + 1)
  <2>1. k \in Nat /\ k + 1 \in Nat /\ k <= k + 1 /\ k + 1 \in 0..n /\ k \in 0..(n - 1)
    BY <1>2
  <2>2. old \in SUBSET new /\ old # new
    BY <2>1, MetGrows
  <2>3. IsFiniteSet(new) /\ Cardinality(new) \in Nat /\ Cardinality(old) \in Nat
    BY MetIsFinite
  <2>4. Cardinality(old) > k
    BY <1>2
  <2> HIDE DEF old, new
  <2>5. Cardinality(old) < Cardinality(new)
    BY <2>2, <2>3, FS_Subset
  <2>6. Cardinality(new) > k + 1
    BY <2>1, <2>3, <2>4, <2>5
  <2> QED
    BY <2>1, <2>6 DEF new
<1>3. n \in S
  <2> HIDE DEF S
  <2>1. \A k \in 0..n : k \in S
    BY <1>1, <1>2, Climb
  <2> QED
    BY <2>1
<1> QED
  BY <1>3

LEMMA SearchEnds ==
    ASSUME NEW a \in Regions, NEW s \in Nat
    PROVE  Met(a, s) \subseteq Met(a, Cardinality(Regions))
<1> DEFINE n == Cardinality(Regions)
<1>1. n \in Nat
  BY MapAssumption, FS_CardinalityType
<1>2. \E k \in 0..(n - 1) : Met(a, k + 1) = Met(a, k)
  <2>1. ASSUME \A k \in 0..(n - 1) : Met(a, k + 1) # Met(a, k) PROVE FALSE
    <3>1. Cardinality(Met(a, n)) > n
      BY <1>1, <2>1, EachRoundAdds
    <3>2. Cardinality(Met(a, n)) \in Nat /\ Cardinality(Met(a, n)) <= n
      BY MetIsFinite
    <3> QED
      BY <1>1, <3>1, <3>2
  <2> QED
    BY <2>1
<1>3. PICK k \in 0..(n - 1) : Met(a, k + 1) = Met(a, k)
  BY <1>2
<1>4. k \in Nat /\ k <= n
  BY <1>1
<1>5. Met(a, s) \subseteq Met(a, k)
  BY <1>3, <1>4, Standstill
<1>6. Met(a, k) \subseteq Met(a, n)
  BY <1>1, <1>4, MetGrows
<1> QED
  BY <1>5, <1>6

(***************************************************************************)
(* bfsDistance is the number of paths of a shortest walk, and the 999 of a *)
(* region that cannot be reached when there is none.                       *)
(***************************************************************************)
THEOREM DistanceIsShortest ==
    ASSUME NEW a \in Regions, NEW b \in Regions
    PROVE  IF \E s \in Nat : Walk(a, b, s)
           THEN /\ Distance(a, b) \in Nat /\ Walk(a, b, Distance(a, b))
                /\ \A s \in 0..(Distance(a, b) - 1) : ~Walk(a, b, s)
           ELSE Distance(a, b) = 999
<1> DEFINE n == Cardinality(Regions)
           rounds == {k \in 0..n : WithinHops(a, b, k)}
<1>1. n \in Nat
  BY MapAssumption, FS_CardinalityType
<1>2. CASE rounds = {}
  <2>1. Distance(a, b) = 999
    BY <1>2 DEF Distance
  <2>2. ASSUME NEW s \in Nat, Walk(a, b, s) PROVE FALSE
    <3>1. s \in 0..s
      OBVIOUS
    <3>2. b \in Met(a, s)
      BY <2>2, <3>1 DEF Met
    <3>3. b \in Met(a, n)
      BY <3>2, SearchEnds
    <3>4. WithinHops(a, b, n)
      BY <1>1, <3>3, HopsAreWalks DEF Met
    <3>5. n \in 0..n
      BY <1>1
    <3> QED
      BY <1>2, <3>4, <3>5
  <2> QED
    BY <2>1, <2>2
<1>3. CASE rounds # {}
  <2>1. Distance(a, b) = Min(rounds)
    BY <1>3 DEF Distance
  <2>2. rounds \in SUBSET Nat
    BY <1>1
  <2>3. \E m \in rounds : \A k \in rounds : m <= k
    BY <1>3, <2>2, LeastNumber
  <2> DEFINE m == Min(rounds)
  <2>4. m \in rounds /\ \A k \in rounds : m <= k
    BY <2>3 DEF Min
  <2> HIDE DEF m
  <2>5. m \in 0..n /\ WithinHops(a, b, m)
    BY <2>4
  <2>6. \A s \in 0..(m - 1) : ~Walk(a, b, s)
    <3> SUFFICES ASSUME NEW s \in 0..(m - 1), Walk(a, b, s) PROVE FALSE
      OBVIOUS
    <3>1. s \in Nat /\ s \in 0..s /\ s \in 0..n /\ s < m
      BY <1>1, <2>5
    <3>2. WithinHops(a, b, s)
      BY <3>1, HopsAreWalks
    <3> QED
      BY <2>4, <3>1, <3>2
  <2>7. Walk(a, b, m)
    <3>1. PICK s \in 0..m : Walk(a, b, s)
      BY <1>1, <2>5, HopsAreWalks
    <3>2. s = m
      BY <1>1, <2>5, <2>6, <3>1
    <3> QED
      BY <3>1, <3>2
  <2> QED
    BY <1>1, <2>1, <2>5, <2>6, <2>7 DEF m
<1> QED
  BY <1>2, <1>3
----------------------------------------------------------------------------
(***************************************************************************)
(* The ranking of the routes.                                              *)
(***************************************************************************)
LEMMA RouteParts ==
    ASSUME NEW r \in DOMAIN CanonicalRoutes
    PROVE  LET route == CanonicalRoutes[r] IN
           /\ route.regions \in Seq(Regions) /\ route.paths \in Seq(Paths)
           /\ DOMAIN route.regions = 1..Len(route.regions)
           /\ DOMAIN route.paths = 1..Len(route.paths)
           /\ Len(route.paths) \in Nat /\ Len(route.regions) = Len(route.paths) + 1
           /\ Len(route.regions) < 999
           /\ \A i \in 1..Len(route.regions) : route.regions[i] \in Regions
           /\ \A i \in 1..Len(route.paths) : route.paths[i] \in Paths
<1>1. CanonicalRoutes[r] \in Routes
  BY RouteAssumption
<1>2. /\ CanonicalRoutes[r].regions \in Seq(Regions) /\ CanonicalRoutes[r].paths \in Seq(Paths)
      /\ Len(CanonicalRoutes[r].regions) = Len(CanonicalRoutes[r].paths) + 1
      /\ Len(CanonicalRoutes[r].regions) < 999
  BY <1>1, RouteAssumption DEF Routes
<1> DEFINE a == CanonicalRoutes[r].regions
           b == CanonicalRoutes[r].paths
<1>3. a \in Seq(Regions) /\ b \in Seq(Paths)
  BY <1>2
<1> HIDE DEF a, b
<1>4. /\ DOMAIN a = 1..Len(a) /\ DOMAIN b = 1..Len(b) /\ Len(b) \in Nat
      /\ \A i \in 1..Len(a) : a[i] \in Regions
      /\ \A i \in 1..Len(b) : b[i] \in Paths
  BY <1>3
<1> QED
  BY <1>2, <1>4 DEF a, b

LEMMA RiskIsInt ==
    ASSUME NEW w \in WorldState, NEW r \in DOMAIN CanonicalRoutes
    PROVE  RiskScore(CanonicalRoutes[r], w) \in Int
<1> DEFINE route == CanonicalRoutes[r]
           a == route.regions
           b == route.paths
<1>1. /\ Len(a) \in Nat /\ Len(b) \in Nat /\ DOMAIN a = 1..Len(a) /\ DOMAIN b = 1..Len(b)
      /\ \A i \in 1..Len(a) : a[i] \in Regions
      /\ \A i \in 1..Len(b) : b[i] \in Paths
  BY RouteParts
<1>2. /\ w.threat \in [Regions -> Int] /\ w.surveillance \in [Paths -> Int]
      /\ \E active \in SUBSET Detectors : w.detectors \in [active -> Regions]
  <2>1. /\ w.threat \in [Regions -> Int] /\ w.surveillance \in [Paths -> Int]
        /\ w.detectors \in UNION {[active -> Regions] : active \in SUBSET Detectors}
    BY Zenon DEF WorldState
  <2> QED
    BY <2>1
<1> HIDE DEF a, b
<1>3. IsFiniteSet(2..Len(a)) /\ IsFiniteSet(DOMAIN b) /\ IsFiniteSet(DOMAIN a)
  BY <1>1, FS_Interval
<1>4. Threat(route, w) \in Int
  <2>1. [i \in 2..Len(a) |-> w.threat[a[i]]] \in [2..Len(a) -> Int]
    BY <1>1, <1>2
  <2> QED
    BY <1>3, <2>1, SumIsInt DEF Threat, a
<1>5. SumFunction([i \in DOMAIN b |-> w.surveillance[b[i]]]) \in Int
  <2>1. [i \in DOMAIN b |-> w.surveillance[b[i]]] \in [DOMAIN b -> Int]
    BY <1>1, <1>2
  <2> QED
    BY <1>3, <2>1, SumIsInt
<1>6. \A status : Cardinality(On(route, w, status)) \in Nat
  <2>1. \A status : On(route, w, status) \subseteq DOMAIN b
    BY DEF On, b
  <2> QED
    BY <1>3, <2>1, FS_Subset, FS_CardinalityType
<1>7. Cardinality(Near(route, w)) \in Nat
  <2>1. Near(route, w) \subseteq Detectors
    BY <1>2 DEF Near
  <2> QED
    BY <2>1, RouteAssumption, FS_Subset, FS_CardinalityType
<1> QED
  BY <1>4, <1>5, <1>6, <1>7 DEF RiskScore, b

Entries(w) == {Ranked(r, w) : r \in DOMAIN CanonicalRoutes}

\* the lists of as many entries as there are routes
Lists(w) == [DOMAIN CanonicalRoutes -> Entries(w)]

RoutesOn(list) == {list[i].route : i \in DOMAIN CanonicalRoutes}

\* nothing behind one of the first n has less risk
Settled(list, n) ==
    \A a, b \in DOMAIN CanonicalRoutes : a <= n /\ a < b => list[a].riskScore <= list[b].riskScore

LEMMA EntryParts ==
    ASSUME NEW w \in WorldState, NEW e \in Entries(w)
    PROVE  /\ e.route \in DOMAIN CanonicalRoutes /\ e.riskScore \in Int
           /\ e.riskScore = RiskScore(CanonicalRoutes[e.route], w)
           /\ e.blocked = (On(CanonicalRoutes[e.route], w, "BLOCKED") # {})
  BY RiskIsInt DEF Entries, Ranked

LEMMA ExchangeFacts ==
    ASSUME NEW w \in WorldState, NEW list \in Lists(w),
           NEW i \in DOMAIN CanonicalRoutes, NEW j \in DOMAIN CanonicalRoutes, i < j
    PROVE  LET new == Exchange(list, i, j) IN
           /\ new \in Lists(w) /\ RoutesOn(new) = RoutesOn(list)
           /\ new[i].riskScore <= new[j].riskScore /\ new[i].riskScore <= list[i].riskScore
           /\ new[i] \in {list[i], list[j]} /\ new[j] \in {list[i], list[j]}
           /\ \A k \in DOMAIN CanonicalRoutes : k # i /\ k # j => new[k] = list[k]
<1> DEFINE new == Exchange(list, i, j)
<1>1. \A k \in DOMAIN CanonicalRoutes : list[k] \in Entries(w) /\ list[k].riskScore \in Int
  BY EntryParts DEF Lists
<1>2. CASE ~(list[j].riskScore < list[i].riskScore)
  BY <1>1, <1>2 DEF Exchange
<1>3. CASE list[j].riskScore < list[i].riskScore
  <2>1. new = [list EXCEPT ![i] = list[j], ![j] = list[i]]
    BY <1>3 DEF Exchange
  <2>2. i # j /\ DOMAIN CanonicalRoutes = 1..Len(CanonicalRoutes)
    BY RouteAssumption
  <2>3. /\ new \in Lists(w) /\ new[i] = list[j] /\ new[j] = list[i]
        /\ \A k \in DOMAIN CanonicalRoutes : k # i /\ k # j => new[k] = list[k]
    BY <1>1, <2>1, <2>2 DEF Lists
  <2> HIDE DEF new
  <2>4. RoutesOn(new) = RoutesOn(list)
    <3>1. ASSUME NEW k \in DOMAIN CanonicalRoutes
          PROVE  \E h \in DOMAIN CanonicalRoutes : new[k].route = list[h].route
      BY <2>3
    <3>2. ASSUME NEW k \in DOMAIN CanonicalRoutes
          PROVE  \E h \in DOMAIN CanonicalRoutes : list[k].route = new[h].route
      BY <2>3
    <3>3. RoutesOn(new) \subseteq RoutesOn(list)
      BY <3>1 DEF RoutesOn
    <3>4. RoutesOn(list) \subseteq RoutesOn(new)
      BY <3>2 DEF RoutesOn
    <3> QED
      BY <3>3, <3>4
  <2> QED
    BY <1>1, <1>3, <2>3, <2>4 DEF new
<1> QED
  BY <1>2, <1>3
\* a list of entries as a sequence
LEMMA ListLength ==
    ASSUME NEW w, NEW list \in Lists(w)
    PROVE  Len(list) = Len(CanonicalRoutes) /\ DOMAIN list = 1..Len(CanonicalRoutes)
<1>1. Len(CanonicalRoutes) \in Nat /\ DOMAIN CanonicalRoutes = 1..Len(CanonicalRoutes)
  BY RouteAssumption
<1>2. list \in [1..Len(CanonicalRoutes) -> Entries(w)]
  BY <1>1 DEF Lists
<1> QED
  BY <1>1, <1>2

LEMMA PassSettles ==
    ASSUME NEW w \in WorldState, NEW list \in Lists(w), NEW i \in DOMAIN CanonicalRoutes
    PROVE  /\ Pass(list, i) \in Lists(w) /\ RoutesOn(Pass(list, i)) = RoutesOn(list)
           /\ Settled(list, i - 1) => Settled(Pass(list, i), i)
<1> DEFINE m == Len(CanonicalRoutes)
           Good(upTo) ==
             upTo = [j \in i..m |-> IF j = i THEN list ELSE Exchange(upTo[j - 1], i, j)]
           Least(l, j) ==
             \A k \in DOMAIN CanonicalRoutes : i <= k /\ k <= j => l[i].riskScore <= l[k].riskScore
           P(l, j) == /\ l \in Lists(w) /\ RoutesOn(l) = RoutesOn(list)
                      /\ Settled(list, i - 1) => Settled(l, i - 1)
                      /\ Least(l, j)
<1>1. /\ m \in Nat /\ i \in Nat /\ i <= m /\ DOMAIN CanonicalRoutes = 1..m
      /\ i..m \subseteq DOMAIN CanonicalRoutes
  BY RouteAssumption
<1>2. \E upTo : Good(upTo)
  <2> DEFINE Op == [j \in i..m |-> [l \in Lists(w) |-> IF j = i THEN l ELSE Exchange(l, i, j)]]
  <2>1. \A j \in i..m : j # i => \A l \in Lists(w) : Exchange(l, i, j) \in Lists(w)
    BY <1>1, ExchangeFacts
  <2>2. Op \in [i..m -> [Lists(w) -> Lists(w)]]
    BY <2>1
  <2>3. \A j \in i..m : \A l \in Lists(w) : j # i => Op[j][l] = Exchange(l, i, j)
    OBVIOUS
  <2> HIDE DEF Op
  <2>4. PICK f : IsLoop(f, i, m, Lists(w), list, Op)
    <3> HIDE DEF m
    <3>1. i \in Nat /\ m \in Nat /\ i <= m /\ list \in Lists(w)
      BY <1>1
    <3> QED
      BY <2>2, <3>1, LoopExists
  <2>5. \A j \in i..m : j # i => j - 1 \in i..m /\ f[j - 1] \in Lists(w)
    BY <1>1, <2>4 DEF IsLoop
  <2>6. \A j \in i..m : f[j] = IF j = i THEN list ELSE Exchange(f[j - 1], i, j)
    BY <2>3, <2>4, <2>5 DEF IsLoop
  <2>7. Good(f)
    BY <2>4, <2>6 DEF IsLoop
  <2> QED
    BY <2>7
<1>3. ASSUME NEW l, NEW j \in i..m, j < m, P(l, j) PROVE P(Exchange(l, i, j + 1), j + 1)
  <2> DEFINE new == Exchange(l, i, j + 1)
             n == j + 1
  <2>1. n \in DOMAIN CanonicalRoutes /\ i < n /\ j \in Nat
    BY <1>1, <1>3
  <2>2. /\ new \in Lists(w) /\ RoutesOn(new) = RoutesOn(l)
        /\ new[i].riskScore <= new[n].riskScore /\ new[i].riskScore <= l[i].riskScore
        /\ new[i] \in {l[i], l[n]} /\ new[n] \in {l[i], l[n]}
        /\ \A k \in DOMAIN CanonicalRoutes : k # i /\ k # n => new[k] = l[k]
    BY <1>3, <2>1, ExchangeFacts
  <2> HIDE DEF new
  <2>3. /\ \A k \in DOMAIN CanonicalRoutes : l[k].riskScore \in Int /\ new[k].riskScore \in Int
        /\ \A k \in DOMAIN CanonicalRoutes : k \in Int
    <3>1. \A k \in DOMAIN CanonicalRoutes : l[k] \in Entries(w) /\ new[k] \in Entries(w)
      BY <1>3, <2>2 DEF Lists
    <3> QED
      BY <1>1, <3>1, EntryParts
  <2>4. Least(new, n)
    <3> SUFFICES ASSUME NEW k \in DOMAIN CanonicalRoutes, i <= k, k <= n
                 PROVE  new[i].riskScore <= new[k].riskScore
      OBVIOUS
    <3>1. CASE k = n
      BY <2>2, <3>1
    <3>2. CASE k = i
      BY <2>3, <3>2
    <3>3. CASE k # n /\ k # i
      <4>1. k <= j /\ new[k] = l[k]
        BY <2>1, <2>2, <2>3, <3>3
      <4>2. l[i].riskScore <= l[k].riskScore
        BY <1>3, <4>1
      <4> QED
        BY <2>2, <2>3, <4>1, <4>2
    <3> QED
      BY <3>1, <3>2, <3>3
  <2>5. ASSUME Settled(list, i - 1) PROVE Settled(new, i - 1)
    <3> SUFFICES ASSUME NEW a \in DOMAIN CanonicalRoutes, NEW b \in DOMAIN CanonicalRoutes,
                        a <= i - 1, a < b
                 PROVE  new[a].riskScore <= new[b].riskScore
      BY DEF Settled
    <3>1. a # i /\ a # n /\ a < i /\ a < n /\ a <= i - 1
      BY <2>1, <2>3
    <3>2. new[a] = l[a] /\ new[b] \in {l[b], l[i], l[n]}
      BY <2>2, <3>1
    <3>3. \A c \in DOMAIN CanonicalRoutes : a < c => l[a].riskScore <= l[c].riskScore
      BY <1>3, <2>5, <3>1 DEF Settled
    <3> QED
      BY <2>1, <3>1, <3>2, <3>3
  <2> QED
    BY <1>3, <2>2, <2>4, <2>5 DEF new
<1>4. P(list, i)
  <2>1. \A k \in DOMAIN CanonicalRoutes : i <= k /\ k <= i => k = i
    BY <1>1
  <2>2. list[i].riskScore \in Int
    BY EntryParts DEF Lists
  <2> QED
    BY <2>1, <2>2
<1>5. ASSUME NEW upTo, Good(upTo) PROVE P(upTo[m], m)
  <2> DEFINE S == {j \in i..m : P(upTo[j], j)}
  <2>1. i \in S
    BY <1>1, <1>4, <1>5
  <2>2. ASSUME NEW j \in i..m, j \in S, j < m PROVE j + 1 \in S
    <3>1. j + 1 \in i..m /\ j + 1 # i /\ (j + 1) - 1 = j
      BY <1>1, <2>2
    <3>2. upTo[j + 1] = Exchange(upTo[j], i, j + 1)
      BY <1>5, <3>1
    <3>3. P(Exchange(upTo[j], i, j + 1), j + 1)
      BY <1>3, <2>2
    <3> HIDE DEF P
    <3> QED
      BY <3>1, <3>2, <3>3
  <2> HIDE DEF S
  <2>3. \A j \in i..m : j \in S
    BY <1>1, <2>1, <2>2, Climb
  <2>4. m \in S
    BY <1>1, <2>3
  <2> QED
    BY <2>4 DEF S
<1>6. Pass(list, i) = (CHOOSE upTo : Good(upTo))[m]
  <2>1. Len(list) = m
    BY ListLength
  <2> QED
    BY <2>1 DEF Pass
<1>7. P(Pass(list, i), m)
  <2> HIDE DEF P, Good
  <2> QED
    BY <1>2, <1>5, <1>6
<1> DEFINE new == Pass(list, i)
<1> HIDE DEF new
<1>8. ASSUME Settled(list, i - 1) PROVE Settled(new, i)
  <2> SUFFICES ASSUME NEW a \in DOMAIN CanonicalRoutes, NEW b \in DOMAIN CanonicalRoutes,
                      a <= i, a < b
               PROVE  new[a].riskScore <= new[b].riskScore
    BY DEF Settled
  <2>1. CASE a = i
    <3>1. i <= b /\ b <= m
      BY <1>1, <2>1
    <3> QED
      BY <1>7, <2>1, <3>1 DEF new
  <2>2. CASE a # i
    <3>1. a <= i - 1
      BY <1>1, <2>2
    <3> QED
      BY <1>7, <1>8, <3>1 DEF Settled, new
  <2> QED
    BY <2>1, <2>2
<1> QED
  BY <1>7, <1>8 DEF new
LEMMA InOrderSettles ==
    ASSUME NEW w \in WorldState, NEW list \in Lists(w)
    PROVE  /\ InOrder(list) \in Lists(w) /\ RoutesOn(InOrder(list)) = RoutesOn(list)
           /\ Settled(InOrder(list), Len(CanonicalRoutes) - 1)
<1> DEFINE m == Len(CanonicalRoutes)
           last == m - 1
           Good(after) ==
             after = [i \in 0..last |-> IF i = 0 THEN list ELSE Pass(after[i - 1], i)]
           P(l, i) == l \in Lists(w) /\ RoutesOn(l) = RoutesOn(list) /\ Settled(l, i)
<1>1. /\ m \in Nat /\ last \in Nat /\ 0 <= last /\ DOMAIN CanonicalRoutes = 1..m
      /\ \A i \in 0..last : i # 0 => i \in DOMAIN CanonicalRoutes /\ i - 1 \in 0..last
  BY RouteAssumption
<1>2. \E after : Good(after)
  <2> DEFINE Op == [i \in 0..last |-> [l \in Lists(w) |-> IF i = 0 THEN l ELSE Pass(l, i)]]
  <2>1. \A i \in 0..last : i # 0 => \A l \in Lists(w) : Pass(l, i) \in Lists(w)
    BY <1>1, PassSettles
  <2>2. Op \in [0..last -> [Lists(w) -> Lists(w)]]
    BY <2>1
  <2>3. \A i \in 0..last : \A l \in Lists(w) : i # 0 => Op[i][l] = Pass(l, i)
    OBVIOUS
  <2> HIDE DEF Op
  <2>4. PICK f : IsLoop(f, 0, last, Lists(w), list, Op)
    <3> HIDE DEF last
    <3>1. 0 \in Nat /\ last \in Nat /\ 0 <= last /\ list \in Lists(w)
      BY <1>1
    <3> QED
      BY <2>2, <3>1, LoopExists
  <2>5. \A i \in 0..last : i # 0 => f[i - 1] \in Lists(w)
    BY <1>1, <2>4 DEF IsLoop
  <2>6. \A i \in 0..last : f[i] = IF i = 0 THEN list ELSE Pass(f[i - 1], i)
    BY <2>3, <2>4, <2>5 DEF IsLoop
  <2>7. Good(f)
    BY <2>4, <2>6 DEF IsLoop
  <2> QED
    BY <2>7
<1>3. ASSUME NEW l, NEW i \in 0..last, i < last, P(l, i) PROVE P(Pass(l, i + 1), i + 1)
  <2>1. i + 1 \in DOMAIN CanonicalRoutes /\ (i + 1) - 1 = i
    BY <1>1, <1>3
  <2> QED
    BY <1>3, <2>1, PassSettles
<1>4. P(list, 0)
  BY <1>1 DEF Settled
<1>5. ASSUME NEW after, Good(after) PROVE P(after[last], last)
  <2> DEFINE S == {i \in 0..last : P(after[i], i)}
  <2>1. 0 \in S
    BY <1>1, <1>4, <1>5
  <2>2. ASSUME NEW i \in 0..last, i \in S, i < last PROVE i + 1 \in S
    <3>1. i + 1 \in 0..last /\ i + 1 # 0 /\ (i + 1) - 1 = i
      BY <1>1, <2>2
    <3>2. after[i + 1] = Pass(after[i], i + 1)
      BY <1>5, <3>1
    <3>3. P(Pass(after[i], i + 1), i + 1)
      BY <1>3, <2>2
    <3> HIDE DEF P
    <3> QED
      BY <3>1, <3>2, <3>3
  <2> HIDE DEF S
  <2>3. \A i \in 0..last : i \in S
    BY <1>1, <2>1, <2>2, Climb
  <2>4. last \in S
    BY <1>1, <2>3
  <2> QED
    BY <2>4 DEF S
<1>6. InOrder(list) = (CHOOSE after : Good(after))[last]
  <2>1. Len(list) = m
    BY ListLength
  <2> QED
    BY <2>1 DEF InOrder
<1>7. P(InOrder(list), last)
  <2> HIDE DEF P, Good
  <2> QED
    BY <1>2, <1>5, <1>6
<1> QED
  BY <1>7

(***************************************************************************)
(* rankRoutes lists every route once, in the order of the risk that it has *)
(* in this state, recommends one of least risk and warns of the blocked.   *)
(***************************************************************************)
THEOREM RankingIsRight ==
    ASSUME NEW w \in WorldState
    PROVE  LET list == RankRoutes(w).routes
               place == [i \in DOMAIN list |-> list[i].route]
           IN  /\ {place[i] : i \in DOMAIN list} = DOMAIN CanonicalRoutes
               /\ Len(list) = Len(CanonicalRoutes)
               /\ \A i, j \in DOMAIN list : i < j =>
                    RiskScore(CanonicalRoutes[place[i]], w) <= RiskScore(CanonicalRoutes[place[j]], w)
               /\ \A i \in DOMAIN CanonicalRoutes :
                    RiskScore(CanonicalRoutes[RankRoutes(w).recommended], w)
                      <= RiskScore(CanonicalRoutes[i], w)
               /\ \A i \in DOMAIN CanonicalRoutes :
                    i \in RankRoutes(w).warnings
                      <=> \E p \in DOMAIN CanonicalRoutes[i].paths :
                            w.status[CanonicalRoutes[i].paths[p]] = "BLOCKED"
<1> DEFINE m == Len(CanonicalRoutes)
           first == [r \in DOMAIN CanonicalRoutes |-> Ranked(r, w)]
           list == RankRoutes(w).routes
           risk(i) == RiskScore(CanonicalRoutes[i], w)
<1>1. m \in Nat /\ m > 0 /\ DOMAIN CanonicalRoutes = 1..m
  BY RouteAssumption
<1>2. first \in Lists(w) /\ RoutesOn(first) = DOMAIN CanonicalRoutes
  <2>1. first \in Lists(w)
    BY DEF Lists, Entries
  <2>2. \A r \in DOMAIN CanonicalRoutes : first[r].route = r
    BY DEF Ranked
  <2> QED
    BY <2>1, <2>2 DEF RoutesOn
<1>3. /\ list = InOrder(first) /\ RankRoutes(w).recommended = list[1].route
      /\ RankRoutes(w).warnings = {list[i].route : i \in {k \in DOMAIN list : list[k].blocked}}
  BY DEF RankRoutes
<1> HIDE DEF list, first
<1>4. list \in Lists(w) /\ RoutesOn(list) = DOMAIN CanonicalRoutes /\ Settled(list, m - 1)
  BY <1>2, <1>3, InOrderSettles
<1>5. Len(list) = m /\ DOMAIN list = 1..m
  BY <1>4, ListLength
<1>6. \A i \in 1..m : /\ list[i].route \in 1..m /\ list[i].riskScore = risk(list[i].route)
                      /\ risk(list[i].route) \in Int
                       /\ list[i].blocked = (On(CanonicalRoutes[list[i].route], w, "BLOCKED") # {})
  BY <1>1, <1>4, EntryParts DEF Lists
<1>7. \A i \in 1..m : \E k \in 1..m : list[k].route = i
  BY <1>1, <1>4 DEF RoutesOn
<1>8. \A i, j \in 1..m : i < j => risk(list[i].route) <= risk(list[j].route)
  <2> SUFFICES ASSUME NEW i \in 1..m, NEW j \in 1..m, i < j
               PROVE  risk(list[i].route) <= risk(list[j].route)
    OBVIOUS
  <2>1. i <= m - 1
    BY <1>1
  <2>2. list[i].riskScore <= list[j].riskScore
    BY <1>1, <1>4, <2>1 DEF Settled
  <2> QED
    BY <1>6, <2>2
<1>9. \A i \in 1..m : risk(list[1].route) <= risk(i)
  <2> SUFFICES ASSUME NEW i \in 1..m PROVE risk(list[1].route) <= risk(i)
    OBVIOUS
  <2>1. PICK k \in 1..m : list[k].route = i
    BY <1>7
  <2>2. CASE k = 1
    BY <1>6, <2>1, <2>2
  <2>3. CASE k # 1
    <3>1. 1 \in 1..m /\ 1 < k
      BY <1>1, <2>3
    <3> QED
      BY <1>8, <2>1, <3>1
  <2> QED
    BY <2>2, <2>3
<1>10. ASSUME NEW i \in 1..m
       PROVE  i \in RankRoutes(w).warnings <=> On(CanonicalRoutes[i], w, "BLOCKED") # {}
  <2>1. PICK k \in 1..m : list[k].route = i
    BY <1>7
  <2>2. ASSUME On(CanonicalRoutes[i], w, "BLOCKED") # {} PROVE i \in RankRoutes(w).warnings
    BY <1>3, <1>5, <1>6, <2>1, <2>2
  <2>3. ASSUME i \in RankRoutes(w).warnings PROVE On(CanonicalRoutes[i], w, "BLOCKED") # {}
    <3>1. PICK h \in 1..m : list[h].blocked /\ list[h].route = i
      BY <1>3, <1>5, <2>3
    <3> QED
      BY <1>6, <3>1
  <2> QED
    BY <2>2, <2>3
<1>11. \A i \in 1..m : On(CanonicalRoutes[i], w, "BLOCKED") # {}
                        <=> \E p \in DOMAIN CanonicalRoutes[i].paths :
                              w.status[CanonicalRoutes[i].paths[p]] = "BLOCKED"
  BY DEF On
<1>12. {[k \in DOMAIN list |-> list[k].route][i] : i \in DOMAIN list} = DOMAIN CanonicalRoutes
  <2> DEFINE place == [i \in DOMAIN list |-> list[i].route]
  <2>1. \A i \in 1..m : place[i] = list[i].route
    BY <1>5
  <2> HIDE DEF place
  <2>2. ASSUME NEW x \in {place[i] : i \in 1..m} PROVE x \in 1..m
    BY <1>6, <2>1
  <2>3. ASSUME NEW x \in 1..m PROVE x \in {place[i] : i \in 1..m}
    BY <1>7, <2>1
  <2>4. {place[i] : i \in 1..m} = 1..m
    BY <2>2, <2>3
  <2> QED
    BY <1>1, <1>5, <2>4 DEF place
<1> QED
  BY <1>1, <1>3, <1>5, <1>8, <1>9, <1>10, <1>11, <1>12 DEF list

LEMMA RecommendsARoute ==
    ASSUME NEW w \in WorldState
    PROVE  RankRoutes(w).recommended \in DOMAIN CanonicalRoutes
<1> DEFINE list == RankRoutes(w).routes
           place == [i \in DOMAIN list |-> list[i].route]
<1>1. RankRoutes(w).recommended = list[1].route
  BY DEF RankRoutes
<1>2. /\ {place[i] : i \in DOMAIN list} = DOMAIN CanonicalRoutes
      /\ Len(list) = Len(CanonicalRoutes)
  BY RankingIsRight
<1>3. 1 \in DOMAIN list
  <2>1. list = InOrder([r \in DOMAIN CanonicalRoutes |-> Ranked(r, w)])
    BY DEF RankRoutes
  <2>2. [r \in DOMAIN CanonicalRoutes |-> Ranked(r, w)] \in Lists(w)
    BY DEF Lists, Entries
  <2>3. list \in Lists(w)
    BY <2>1, <2>2, InOrderSettles
  <2> QED
    BY <2>3, RouteAssumption DEF Lists
<1>4. place[1] = list[1].route
  BY <1>3
<1> HIDE DEF list, place
<1> QED
  BY <1>1, <1>2, <1>3, <1>4

----------------------------------------------------------------------------
(***************************************************************************)
(* The offers to the Nazgul.                                               *)
(***************************************************************************)
LEMMA PathCostIsInt ==
    ASSUME NEW start, NEW r \in DOMAIN CanonicalRoutes,
           NEW target \in DOMAIN CanonicalRoutes[r].regions
    PROVE  PathCost(start, CanonicalRoutes[r], target) \in Int
<1> DEFINE a == CanonicalRoutes[r].regions
           b == CanonicalRoutes[r].paths
           steps == {k \in 1..(target - 1) : \E j \in 1..k : a[j] = start}
<1>1. /\ DOMAIN a = 1..Len(a) /\ Len(a) = Len(b) + 1 /\ Len(b) \in Nat
      /\ \A k \in 1..Len(b) : b[k] \in Paths
  BY RouteParts
<1> HIDE DEF a, b
<1>2. target \in 1..(Len(b) + 1)
  BY <1>1 DEF a
<1>3. steps \subseteq 1..Len(b) /\ IsFiniteSet(steps)
  <2>1. steps \subseteq 1..Len(b)
    BY <1>1, <1>2
  <2>2. IsFiniteSet(1..Len(b))
    BY <1>1, FS_Interval
  <2> QED
    BY <2>1, <2>2, FS_Subset
<1>4. [k \in steps |-> Cost[b[k]]] \in [steps -> Int]
  <2>1. ASSUME NEW k \in steps PROVE Cost[b[k]] \in Int
    <3>1. b[k] \in Paths
      BY <1>1, <1>3, Zenon
    <3>2. \A p \in Paths : Cost[p] \in Int
      BY RouteAssumption
    <3> QED
      BY <3>1, <3>2, Zenon
  <2> QED
    BY <2>1, Zenon
<1> DEFINE sum == SumFunction([k \in steps |-> Cost[b[k]]])
<1>5. sum \in Int
  BY <1>3, <1>4, SumIsInt, Zenon
<1>6. PathCost(start, CanonicalRoutes[r], target) = sum
  BY Zenon DEF PathCost, a, b
<1> QED
  BY <1>5, <1>6, Zenon

\* pathCostToRegion is the way from a place of start on the route, or 0.
LEMMA PathCostIsAWay ==
    ASSUME NEW start, NEW r \in DOMAIN CanonicalRoutes,
           NEW target \in DOMAIN CanonicalRoutes[r].regions
    PROVE  LET cost == PathCost(start, CanonicalRoutes[r], target) IN
           \/ cost = 0
           \/ \E j \in 1..(target - 1) : /\ CanonicalRoutes[r].regions[j] = start
                                         /\ cost = Way(r, j, target)
<1> DEFINE a == CanonicalRoutes[r].regions
           b == CanonicalRoutes[r].paths
           steps == {k \in 1..(target - 1) : \E j \in 1..k : a[j] = start}
           places == {j \in 1..(target - 1) : a[j] = start}
           f == [k \in steps |-> Cost[b[k]]]
<1>1. /\ DOMAIN a = 1..Len(a) /\ Len(a) = Len(b) + 1 /\ Len(b) \in Nat
      /\ \A k \in 1..Len(b) : b[k] \in Paths
  BY RouteParts
<1> HIDE DEF a, b
<1>2. target \in 1..(Len(b) + 1)
  BY <1>1 DEF a
<1>3. PathCost(start, CanonicalRoutes[r], target) = SumFunction(f)
  BY DEF PathCost, a, b
<1>4. CASE places = {}
  <2>1. steps = {}
    BY <1>2, <1>4
  <2>2. IsFiniteSet(steps)
    BY <2>1, FS_EmptySet
  <2>3. f \in [steps -> Int]
    BY <2>1
  <2> HIDE DEF f, steps
  <2>4. SumFunction(f) = 0
    BY <2>1, <2>2, <2>3, SumIsInt
  <2> QED
    BY <1>3, <2>4
<1>5. CASE places # {}
  <2>1. PICK j \in places : \A k \in places : j <= k
    <3>1. places \in SUBSET Nat
      BY <1>2
    <3> HIDE DEF places
    <3> QED
      BY <1>5, <3>1, LeastNumber
  <2>2. steps = j..(target - 1)
    <3>1. ASSUME NEW k \in steps PROVE k \in j..(target - 1)
      <4>1. PICK i \in 1..k : a[i] = start
        OBVIOUS
      <4>2. i \in places
        BY <1>2, <4>1
      <4> QED
        BY <1>2, <2>1, <4>2
    <3>2. ASSUME NEW k \in j..(target - 1) PROVE k \in steps
      BY <1>2, <2>1
    <3> QED
      BY <3>1, <3>2
  <2>3. f = [m \in j..(target - 1) |-> Cost[b[m]]]
    BY <2>2
  <2>4. SumFunction(f) = Way(r, j, target)
    BY <2>3 DEF Way, b
  <2> QED
    BY <1>3, <2>1, <2>4 DEF a
<1> QED
  BY <1>4, <1>5

(***************************************************************************)
(* An offer is feasible when a Nazgul in the region from gets to its       *)
(* target in its turns and in no fewer, and either stands there or is      *)
(* there before a Ring Bearer that has the target ahead on some route.     *)
(***************************************************************************)
Feasible(from, bearer, plan) ==
    /\ Walk(from, plan.target, plan.turns)
    /\ \A s \in 0..(plan.turns - 1) : ~Walk(from, plan.target, s)
    /\ MeetsBearer(bearer, plan)

LEMMA OfferFacts ==
    ASSUME NEW from \in Regions, NEW bearer, NEW r \in DOMAIN CanonicalRoutes,
           NEW i \in DOMAIN CanonicalRoutes[r].regions
    PROVE  LET offer == Offer(from, bearer, r, i) IN
           /\ offer.target \in Regions
           /\ offer.score.num \in Int /\ offer.score.den \in Int /\ offer.score.den > 0
           /\ offer.score.num > 0 => Feasible(from, bearer, offer)
<1> DEFINE route == CanonicalRoutes[r]
           target == route.regions[i]
           turns == Distance(from, target)
           cost == PathCost(bearer, route, i)
           length == Len(route.regions) - 1
           offer == Offer(from, bearer, r, i)
<1>1. target \in Regions /\ length \in Nat /\ length < 999
  BY RouteParts
<1>2. /\ turns \in Nat
      /\ turns # 999 => /\ Walk(from, target, turns)
                        /\ \A s \in 0..(turns - 1) : ~Walk(from, target, s)
  BY <1>1, DistanceIsShortest
<1>3. cost \in Int
  BY PathCostIsInt
<1>4. /\ offer.target = target /\ offer.turns = turns
      /\ offer.score = Score(turns, cost - turns, length)
  BY DEF Offer
<1> HIDE DEF offer, target, turns, cost, length
<1>5. /\ offer.score.num \in Int /\ offer.score.den \in Int /\ offer.score.den > 0
      /\ offer.score.num > 0 => cost - turns >= 0 /\ length - turns > 0
  <2>1. CASE cost - turns >= 0 /\ length > 0
    <3>1. offer.score = [num |-> length - turns, den |-> length]
      BY <1>4, <2>1 DEF Score
    <3> QED
      BY <1>1, <1>2, <2>1, <3>1
  <2>2. CASE ~(cost - turns >= 0 /\ length > 0)
    <3>1. offer.score = [num |-> 0, den |-> 1]
      BY <1>4, <2>2 DEF Score
    <3> QED
      BY <3>1
  <2> QED
    BY <2>1, <2>2
<1>6. ASSUME offer.score.num > 0 PROVE Feasible(from, bearer, offer)
  <2>1. turns <= cost /\ turns # 999
    BY <1>1, <1>2, <1>3, <1>5, <1>6
  <2>2. Walk(from, target, turns) /\ \A s \in 0..(turns - 1) : ~Walk(from, target, s)
    BY <1>2, <2>1
  <2>3. \/ turns = 0
        \/ \E j \in 1..(i - 1) : route.regions[j] = bearer /\ turns <= Way(r, j, i)
    BY <1>2, <2>1, PathCostIsAWay DEF cost
  <2>4. MeetsBearer(bearer, offer)
    BY <1>4, <2>3 DEF MeetsBearer, target
  <2> QED
    BY <1>4, <2>2, <2>4 DEF Feasible
<1> QED
  BY <1>1, <1>4, <1>5, <1>6 DEF offer

Offers(from, bearer) ==
    UNION {{Offer(from, bearer, r, i) : i \in DOMAIN CanonicalRoutes[r].regions} :
             r \in DOMAIN CanonicalRoutes}

\* no offer, or one with a positive score
Candidates(from, bearer) == {NoOffer} \cup {o \in Offers(from, bearer) : o.score.num > 0}

LEMMA OfferIsOffer ==
    ASSUME NEW from \in Regions, NEW bearer, NEW r \in DOMAIN CanonicalRoutes,
           NEW i \in DOMAIN CanonicalRoutes[r].regions
    PROVE  Offer(from, bearer, r, i) \in Offers(from, bearer)
  BY DEF Offers

\* a fraction
IsScore(x) == x.num \in Int /\ x.den \in Int /\ x.den > 0

LEMMA CandidateScore ==
    ASSUME NEW from \in Regions, NEW bearer, NEW best \in Candidates(from, bearer)
    PROVE  IsScore(best.score) /\ best.score.num >= 0
<1>1. CASE best = NoOffer
  <2>1. NoOffer.score = [num |-> 0, den |-> 1]
    BY DEF NoOffer
  <2> QED
    BY <1>1, <2>1 DEF IsScore
<1>2. CASE best \in Offers(from, bearer) /\ best.score.num > 0
  <2>1. PICK q \in DOMAIN CanonicalRoutes : \E k \in DOMAIN CanonicalRoutes[q].regions :
          best = Offer(from, bearer, q, k)
    BY <1>2 DEF Offers
  <2>2. PICK k \in DOMAIN CanonicalRoutes[q].regions : best = Offer(from, bearer, q, k)
    BY <2>1
  <2>3. IsScore(best.score)
    BY <2>2, OfferFacts DEF IsScore
  <2>4. best.score.num >= 0
    <3>1. best.score.num \in Int
      BY <2>3 DEF IsScore
    <3> QED
      BY <1>2, <3>1
  <2> QED
    BY <2>3, <2>4
<1> QED
  BY <1>1, <1>2 DEF Candidates

\* only no offer has no target
LEMMA CandidateTarget ==
    ASSUME NEW from \in Regions, NEW bearer, NEW best \in Candidates(from, bearer),
           best.target \notin Regions
    PROVE  best = NoOffer
<1>1. CASE best \in Offers(from, bearer)
  <2>1. PICK q \in DOMAIN CanonicalRoutes : \E k \in DOMAIN CanonicalRoutes[q].regions :
          best = Offer(from, bearer, q, k)
    BY <1>1 DEF Offers
  <2>2. PICK k \in DOMAIN CanonicalRoutes[q].regions : best = Offer(from, bearer, q, k)
    BY <2>1
  <2> QED
    BY <2>2, OfferFacts
<1> QED
  BY <1>1 DEF Candidates

LEMMA BetterIsCandidate ==
    ASSUME NEW from \in Regions, NEW bearer, NEW best \in Candidates(from, bearer),
           NEW r \in DOMAIN CanonicalRoutes, NEW i \in DOMAIN CanonicalRoutes[r].regions
    PROVE  Better(best, Offer(from, bearer, r, i)) \in Candidates(from, bearer)
<1> DEFINE o == Offer(from, bearer, r, i)
<1>1. /\ o \in Offers(from, bearer)
      /\ o.score.num \in Int /\ o.score.den \in Int /\ o.score.den > 0
  BY OfferIsOffer, OfferFacts
<1>2. best.score.num \in Int /\ best.score.num >= 0 /\ best.score.den \in Int /\ best.score.den > 0
  BY CandidateScore DEF IsScore
<1> HIDE DEF o
<1>3. ASSUME Greater(o.score, best.score) PROVE o.score.num > 0
  <2> DEFINE n == o.score.num
             d == o.score.den
             x == best.score.num
             y == best.score.den
  <2>1. n \in Int /\ d \in Int /\ d > 0 /\ x \in Int /\ x >= 0 /\ y \in Int /\ y > 0
    BY <1>1, <1>2
  <2>2. n * y > x * d
    BY <1>3 DEF Greater
  <2> HIDE DEF n, d, x, y
  <2>3. x * d >= 0
    BY <2>1
  <2>4. n * y > 0
    BY <2>1, <2>2, <2>3
  <2>5. n > 0
    BY <2>1, <2>4
  <2> QED
    BY <2>5 DEF n
<1> QED
  BY <1>1, <1>3 DEF Better, Candidates, o

\* the rounds of the loop over the regions of a route
LEMMA BestOnRounds ==
    ASSUME NEW from \in Regions, NEW bearer, NEW best \in Candidates(from, bearer),
           NEW r \in DOMAIN CanonicalRoutes
    PROVE  LET n == Len(CanonicalRoutes[r].regions) IN
           \E upTo :
             /\ upTo[0] = best /\ upTo[n] = BestOn(best, from, bearer, r)
             /\ \A i \in 0..n : upTo[i] \in Candidates(from, bearer)
             /\ \A i \in 1..n : upTo[i] = Better(upTo[i - 1], Offer(from, bearer, r, i))
<1> DEFINE n == Len(CanonicalRoutes[r].regions)
           C == Candidates(from, bearer)
           Good(upTo) ==
             upTo = [i \in 0..n |->
                       IF i = 0 THEN best ELSE Better(upTo[i - 1], Offer(from, bearer, r, i))]
<1>1. n \in Nat /\ 0 <= n /\ DOMAIN CanonicalRoutes[r].regions = 1..n
  BY RouteParts
<1>2. \A i \in 0..n : i # 0 => i - 1 \in 0..n /\ i \in DOMAIN CanonicalRoutes[r].regions
  BY <1>1
<1>3. \A i \in 0..n : i # 0 => \A b \in C : Better(b, Offer(from, bearer, r, i)) \in C
  BY <1>2, BetterIsCandidate
<1> HIDE DEF n, C
<1>4. \E upTo : Good(upTo)
  <2> DEFINE Op == [i \in 0..n |->
                      [b \in C |-> IF i = 0 THEN b ELSE Better(b, Offer(from, bearer, r, i))]]
  <2>1. Op \in [0..n -> [C -> C]]
    BY <1>3
  <2>2. \A i \in 0..n : \A b \in C : i # 0 => Op[i][b] = Better(b, Offer(from, bearer, r, i))
    OBVIOUS
  <2> HIDE DEF Op
  <2>3. PICK f : IsLoop(f, 0, n, C, best, Op)
    <3>1. 0 \in Nat /\ n \in Nat /\ 0 <= n /\ best \in C
      BY <1>1 DEF C
    <3> QED
      BY <2>1, <3>1, LoopExists
  <2>4. \A i \in 0..n : i # 0 => f[i - 1] \in C
    BY <1>2, <2>3 DEF IsLoop
  <2>5. \A i \in 0..n : f[i] = IF i = 0 THEN best ELSE Better(f[i - 1], Offer(from, bearer, r, i))
    BY <2>2, <2>3, <2>4 DEF IsLoop
  <2>6. Good(f)
    BY <2>3, <2>5 DEF IsLoop
  <2> QED
    BY <2>6
<1>5. ASSUME NEW upTo, Good(upTo) PROVE \A i \in 0..n : upTo[i] \in C
  <2> DEFINE S == {i \in 0..n : upTo[i] \in C}
  <2>1. 0 \in S
    BY <1>1, <1>5 DEF C
  <2>2. ASSUME NEW i \in 0..n, i \in S, i < n PROVE i + 1 \in S
    <3>1. i + 1 \in 0..n /\ i + 1 # 0 /\ (i + 1) - 1 = i
      BY <1>1, <2>2
    <3>2. upTo[i + 1] = Better(upTo[i], Offer(from, bearer, r, i + 1))
      BY <1>5, <3>1
    <3> QED
      BY <1>3, <2>2, <3>1, <3>2
  <2> HIDE DEF S
  <2>3. \A i \in 0..n : i \in S
    BY <1>1, <2>1, <2>2, Climb
  <2> QED
    BY <2>3 DEF S
<1>6. BestOn(best, from, bearer, r) = (CHOOSE upTo : Good(upTo))[n]
  BY DEF BestOn, n
<1>7. Good(CHOOSE upTo : Good(upTo))
  <2> HIDE DEF Good
  <2> QED
    BY <1>4
<1> DEFINE loop == CHOOSE upTo : Good(upTo)
<1> HIDE DEF loop
<1>8. /\ Good(loop) /\ loop[n] = BestOn(best, from, bearer, r)
      /\ \A i \in 0..n : loop[i] \in C
  BY <1>5, <1>6, <1>7 DEF loop
<1>9. loop[0] = best /\ \A i \in 1..n : loop[i] = Better(loop[i - 1], Offer(from, bearer, r, i))
  <2>1. 0 \in 0..n /\ \A i \in 1..n : i \in 0..n /\ i # 0
    BY <1>1
  <2> QED
    BY <1>8, <2>1
<1> HIDE DEF Good
<1> QED
  BY <1>8, <1>9 DEF C, n

LEMMA BestOnIsCandidate ==
    ASSUME NEW from \in Regions, NEW bearer, NEW best \in Candidates(from, bearer),
           NEW r \in DOMAIN CanonicalRoutes
    PROVE  BestOn(best, from, bearer, r) \in Candidates(from, bearer)
<1>1. Len(CanonicalRoutes[r].regions) \in 0..Len(CanonicalRoutes[r].regions)
  BY RouteParts
<1> QED
  BY <1>1, BestOnRounds

\* the rounds of the loop over the routes
LEMMA BestOfferRounds ==
    ASSUME NEW from \in Regions, NEW bearer
    PROVE  LET n == Len(CanonicalRoutes) IN
           \E upTo :
             /\ upTo[0] = NoOffer /\ upTo[n] = BestOffer(from, bearer)
             /\ \A r \in 0..n : upTo[r] \in Candidates(from, bearer)
             /\ \A r \in 1..n : upTo[r] = BestOn(upTo[r - 1], from, bearer, r)
<1> DEFINE n == Len(CanonicalRoutes)
           C == Candidates(from, bearer)
           Good(upTo) ==
             upTo = [r \in 0..n |->
                       IF r = 0 THEN NoOffer ELSE BestOn(upTo[r - 1], from, bearer, r)]
<1>1. n \in Nat /\ 0 <= n /\ DOMAIN CanonicalRoutes = 1..n
  BY RouteAssumption
<1>2. \A r \in 0..n : r # 0 => r - 1 \in 0..n /\ r \in DOMAIN CanonicalRoutes
  BY <1>1
<1>3. \A r \in 0..n : r # 0 => \A b \in C : BestOn(b, from, bearer, r) \in C
  BY <1>2, BestOnIsCandidate
<1>4. NoOffer \in C
  BY DEF Candidates
<1> HIDE DEF n, C
<1>5. \E upTo : Good(upTo)
  <2> DEFINE Op == [r \in 0..n |-> [b \in C |-> IF r = 0 THEN b ELSE BestOn(b, from, bearer, r)]]
  <2>1. Op \in [0..n -> [C -> C]]
    BY <1>3
  <2>2. \A r \in 0..n : \A b \in C : r # 0 => Op[r][b] = BestOn(b, from, bearer, r)
    OBVIOUS
  <2> HIDE DEF Op
  <2>3. PICK f : IsLoop(f, 0, n, C, NoOffer, Op)
    <3>1. 0 \in Nat /\ n \in Nat /\ 0 <= n
      BY <1>1
    <3> QED
      BY <1>4, <2>1, <3>1, LoopExists
  <2>4. \A r \in 0..n : r # 0 => f[r - 1] \in C
    BY <1>2, <2>3 DEF IsLoop
  <2>5. \A r \in 0..n : f[r] = IF r = 0 THEN NoOffer ELSE BestOn(f[r - 1], from, bearer, r)
    BY <2>2, <2>3, <2>4 DEF IsLoop
  <2>6. Good(f)
    BY <2>3, <2>5 DEF IsLoop
  <2> QED
    BY <2>6
<1>6. ASSUME NEW upTo, Good(upTo) PROVE \A r \in 0..n : upTo[r] \in C
  <2> DEFINE S == {r \in 0..n : upTo[r] \in C}
  <2>1. 0 \in S
    BY <1>1, <1>4, <1>6
  <2>2. ASSUME NEW r \in 0..n, r \in S, r < n PROVE r + 1 \in S
    <3>1. r + 1 \in 0..n /\ r + 1 # 0 /\ (r + 1) - 1 = r
      BY <1>1, <2>2
    <3>2. upTo[r + 1] = BestOn(upTo[r], from, bearer, r + 1)
      BY <1>6, <3>1
    <3> QED
      BY <1>3, <2>2, <3>1, <3>2
  <2> HIDE DEF S
  <2>3. \A r \in 0..n : r \in S
    BY <1>1, <2>1, <2>2, Climb
  <2> QED
    BY <2>3 DEF S
<1>7. BestOffer(from, bearer) = (CHOOSE upTo : Good(upTo))[n]
  BY DEF BestOffer, n
<1>8. Good(CHOOSE upTo : Good(upTo))
  <2> HIDE DEF Good
  <2> QED
    BY <1>5
<1> DEFINE loop == CHOOSE upTo : Good(upTo)
<1> HIDE DEF loop
<1>9. /\ Good(loop) /\ loop[n] = BestOffer(from, bearer)
      /\ \A r \in 0..n : loop[r] \in C
  BY <1>6, <1>7, <1>8 DEF loop
<1>10. loop[0] = NoOffer /\ \A r \in 1..n : loop[r] = BestOn(loop[r - 1], from, bearer, r)
  <2>1. 0 \in 0..n /\ \A r \in 1..n : r \in 0..n /\ r # 0
    BY <1>1
  <2> QED
    BY <1>9, <2>1
<1> HIDE DEF Good
<1> QED
  BY <1>9, <1>10 DEF C, n

LEMMA BestOfferIsCandidate ==
    ASSUME NEW from \in Regions, NEW bearer
    PROVE  BestOffer(from, bearer) \in Candidates(from, bearer)
<1>1. Len(CanonicalRoutes) \in 0..Len(CanonicalRoutes)
  BY RouteAssumption
<1> QED
  BY <1>1, BestOfferRounds

(***************************************************************************)
(* Every plan of computeInterceptionPlans is for an active Nazgul, which   *)
(* walks to the target in the turns of the plan and in no fewer, and which *)
(* stands there already or is there before a Ring Bearer on its way there. *)
(***************************************************************************)
THEOREM PlansCanBeCarriedOut ==
    ASSUME NEW w \in WorldState, NEW bearer,
           NEW u \in DOMAIN ComputeInterceptionPlans(w, bearer)
    PROVE  /\ u \in DOMAIN w.detectors
           /\ Feasible(w.detectors[u], bearer, ComputeInterceptionPlans(w, bearer)[u])
<1> DEFINE best == [d \in DOMAIN w.detectors |-> BestOffer(w.detectors[d], bearer)]
<1>1. ComputeInterceptionPlans(w, bearer)
        = [d \in {e \in DOMAIN best : best[e].target # ""} |-> best[d]]
  BY DEF ComputeInterceptionPlans
<1>2. /\ u \in DOMAIN w.detectors /\ best[u].target # ""
      /\ ComputeInterceptionPlans(w, bearer)[u] = BestOffer(w.detectors[u], bearer)
  BY <1>1
<1>3. w.detectors[u] \in Regions
  <2>1. w.detectors \in UNION {[active -> Regions] : active \in SUBSET Detectors}
    BY Zenon DEF WorldState
  <2> QED
    BY <1>2, <2>1
<1> DEFINE from == w.detectors[u]
           plan == BestOffer(from, bearer)
<1>4. plan \in Candidates(from, bearer) /\ plan.target # ""
  BY <1>2, <1>3, BestOfferIsCandidate
<1> HIDE DEF from, plan
<1>5. plan # NoOffer
  <2>1. NoOffer.target = ""
    BY DEF NoOffer
  <2> QED
    BY <1>4, <2>1
<1>6. plan \in Offers(from, bearer) /\ plan.score.num > 0
  BY <1>4, <1>5 DEF Candidates
<1>7. PICK r \in DOMAIN CanonicalRoutes : \E i \in DOMAIN CanonicalRoutes[r].regions :
        plan = Offer(from, bearer, r, i)
  BY <1>6 DEF Offers
<1>8. Feasible(from, bearer, plan)
  BY <1>3, <1>6, <1>7, OfferFacts DEF from
<1> QED
  BY <1>2, <1>8 DEF from, plan

----------------------------------------------------------------------------
\* the fraction x is no more than y
NoMore(x, y) == x.num * y.den <= y.num * x.den

LEMMA NoMoreTransitive ==
    ASSUME NEW x, NEW y, NEW z, IsScore(x), IsScore(y), IsScore(z), NoMore(x, y), NoMore(y, z)
    PROVE  NoMore(x, z)
<1> DEFINE a == x.num
           b == x.den
           c == y.num
           d == y.den
           e == z.num
           g == z.den
<1>1. /\ a \in Int /\ b \in Int /\ c \in Int /\ d \in Int /\ e \in Int /\ g \in Int
      /\ b > 0 /\ d > 0 /\ g > 0 /\ a * d <= c * b /\ c * g <= e * d
  BY DEF IsScore, NoMore
<1> HIDE DEF a, b, c, d, e, g
<1>2. ASSUME NEW i \in Int, NEW j \in Int, NEW k \in Int, k > 0, i <= j  PROVE  i * k <= j * k
  BY <1>2
<1>3. (a * d) * g <= (c * b) * g /\ (c * g) * b <= (e * d) * b
  BY <1>1, <1>2
<1>4. (a * g) * d <= (e * b) * d
  BY <1>1, <1>3
<1>5. ASSUME NEW i \in Int, NEW j \in Int, NEW k \in Int, k > 0, i * k <= j * k  PROVE  i <= j
  <2>1. j < i => j * k < i * k
    BY <1>5
  <2> QED
    BY <1>5, <2>1
<1>6. a * g <= e * b
  <2>1. a * g \in Int /\ e * b \in Int
    BY <1>1
  <2> QED
    BY <1>1, <1>4, <1>5, <2>1
<1> QED
  BY <1>6 DEF NoMore, a, b, e, g

LEMMA BetterIsNoLess ==
    ASSUME NEW best, NEW offer, IsScore(best.score), IsScore(offer.score)
    PROVE  /\ NoMore(best.score, Better(best, offer).score)
           /\ NoMore(offer.score, Better(best, offer).score)
<1> DEFINE a == best.score.num
           b == best.score.den
           c == offer.score.num
           d == offer.score.den
<1>1. a \in Int /\ b \in Int /\ c \in Int /\ d \in Int
  BY DEF IsScore
<1>2. a * b \in Int /\ a * d \in Int /\ c * b \in Int /\ c * d \in Int
  BY <1>1
<1>3. Greater(offer.score, best.score) <=> c * b > a * d
  BY DEF Greater
<1>4. /\ NoMore(best.score, offer.score) <=> a * d <= c * b
      /\ NoMore(offer.score, best.score) <=> c * b <= a * d
      /\ NoMore(best.score, best.score) <=> a * b <= a * b
      /\ NoMore(offer.score, offer.score) <=> c * d <= c * d
  BY DEF NoMore
<1> HIDE DEF a, b, c, d
<1> QED
  BY <1>2, <1>3, <1>4 DEF Better

\* of the regions of a route and what was best before, none has more
LEMMA BestOnIsBest ==
    ASSUME NEW from \in Regions, NEW bearer, NEW best \in Candidates(from, bearer),
           NEW r \in DOMAIN CanonicalRoutes
    PROVE  /\ NoMore(best.score, BestOn(best, from, bearer, r).score)
           /\ \A i \in DOMAIN CanonicalRoutes[r].regions :
                NoMore(Offer(from, bearer, r, i).score, BestOn(best, from, bearer, r).score)
<1> DEFINE n == Len(CanonicalRoutes[r].regions)
           offer(i) == Offer(from, bearer, r, i)
<1>1. n \in Nat /\ DOMAIN CanonicalRoutes[r].regions = 1..n
  BY RouteParts
<1>2. PICK upTo :
        /\ upTo[0] = best /\ upTo[n] = BestOn(best, from, bearer, r)
        /\ \A i \in 0..n : upTo[i] \in Candidates(from, bearer)
        /\ \A i \in 1..n : upTo[i] = Better(upTo[i - 1], offer(i))
  BY BestOnRounds
<1>3. \A i \in 0..n : IsScore(upTo[i].score)
  BY <1>2, CandidateScore
<1>4. \A i \in 1..n : IsScore(offer(i).score)
  BY <1>1, OfferFacts DEF IsScore
<1> HIDE DEF n, offer
<1> DEFINE S == {i \in 0..n : /\ NoMore(best.score, upTo[i].score)
                              /\ \A k \in 1..i : NoMore(offer(k).score, upTo[i].score)}
<1>5. 0 \in S
  <2>1. IsScore(best.score)
    BY CandidateScore
  <2>0. 0 \in 0..n
    BY <1>1
  <2>2. best.score.num * best.score.den \in Int
    BY <2>1 DEF IsScore
  <2>3. NoMore(best.score, best.score)
    BY <2>2 DEF NoMore
  <2>4. \A k : k \notin 1..0
    OBVIOUS
  <2> QED
    BY <1>2, <2>0, <2>3, <2>4
<1>6. ASSUME NEW i \in 0..n, i \in S, i < n  PROVE  i + 1 \in S
  <2>1. i + 1 \in 0..n /\ i + 1 \in 1..n /\ (i + 1) - 1 = i /\ 1..(i + 1) = (1..i) \cup {i + 1}
    BY <1>1, <1>6
  <2>2. upTo[i + 1] = Better(upTo[i], offer(i + 1))
    BY <1>2, <2>1
  <2>3. /\ NoMore(upTo[i].score, upTo[i + 1].score)
        /\ NoMore(offer(i + 1).score, upTo[i + 1].score)
    BY <1>3, <1>4, <2>1, <2>2, BetterIsNoLess
  <2>4. NoMore(best.score, upTo[i + 1].score)
    BY <1>3, <1>6, <2>1, <2>3, NoMoreTransitive, CandidateScore
  <2>5. ASSUME NEW k \in 1..i  PROVE  NoMore(offer(k).score, upTo[i + 1].score)
    <3>1. k \in 1..n
      BY <1>1, <2>1
    <3> QED
      BY <1>3, <1>4, <1>6, <2>1, <2>3, <3>1, NoMoreTransitive
  <2> QED
    BY <2>1, <2>3, <2>4, <2>5
<1> HIDE DEF S
<1>7. n \in S
  <2>1. \A i \in 0..n : i \in S
    BY <1>1, <1>5, <1>6, Climb
  <2> QED
    BY <1>1, <2>1
<1> QED
  BY <1>1, <1>2, <1>7 DEF S, offer

\* of all routes
LEMMA BestOfferIsBest ==
    ASSUME NEW from \in Regions, NEW bearer, NEW q \in DOMAIN CanonicalRoutes,
           NEW i \in DOMAIN CanonicalRoutes[q].regions
    PROVE  NoMore(Offer(from, bearer, q, i).score, BestOffer(from, bearer).score)
<1> DEFINE n == Len(CanonicalRoutes)
           offer == Offer(from, bearer, q, i)
<1>1. n \in Nat /\ DOMAIN CanonicalRoutes = 1..n
  BY RouteAssumption
<1>2. PICK upTo :
        /\ upTo[0] = NoOffer /\ upTo[n] = BestOffer(from, bearer)
        /\ \A r \in 0..n : upTo[r] \in Candidates(from, bearer)
        /\ \A r \in 1..n : upTo[r] = BestOn(upTo[r - 1], from, bearer, r)
  BY BestOfferRounds
<1>3. \A r \in 0..n : IsScore(upTo[r].score)
  BY <1>2, CandidateScore
<1>4. IsScore(offer.score)
  BY OfferFacts DEF IsScore
<1>5. \A r \in 1..n : /\ NoMore(upTo[r - 1].score, upTo[r].score)
                      /\ r = q => NoMore(offer.score, upTo[r].score)
  <2>1. ASSUME NEW r \in 1..n
        PROVE  /\ NoMore(upTo[r - 1].score, upTo[r].score)
               /\ r = q => NoMore(offer.score, upTo[r].score)
    <3>1. r - 1 \in 0..n /\ r \in DOMAIN CanonicalRoutes
      BY <1>1
    <3>2. upTo[r - 1] \in Candidates(from, bearer) /\ upTo[r] = BestOn(upTo[r - 1], from, bearer, r)
      BY <1>2, <3>1
    <3> QED
      BY <3>1, <3>2, BestOnIsBest
  <2> QED
    BY <2>1
<1> HIDE DEF n, offer
<1> DEFINE S == {r \in q..n : NoMore(offer.score, upTo[r].score)}
<1>6. q \in 1..n /\ q \in Nat /\ q \in S
  BY <1>1, <1>5
<1>7. ASSUME NEW r \in q..n, r \in S, r < n  PROVE  r + 1 \in S
  <2>1. r + 1 \in q..n /\ r + 1 \in 1..n /\ (r + 1) - 1 = r /\ r \in 0..n /\ r + 1 \in 0..n
    BY <1>1, <1>6, <1>7
  <2>2. NoMore(upTo[r].score, upTo[r + 1].score)
    BY <1>5, <2>1
  <2>3. NoMore(offer.score, upTo[r + 1].score)
    BY <1>3, <1>4, <1>7, <2>1, <2>2, NoMoreTransitive
  <2> QED
    BY <2>1, <2>3
<1> HIDE DEF S
<1>8. n \in S
  <2>1. \A r \in q..n : r \in S
    BY <1>1, <1>6, <1>7, Climb
  <2>2. n \in q..n
    BY <1>1, <1>6
  <2> QED
    BY <2>1, <2>2
<1> QED
  BY <1>2, <1>8 DEF S, offer

(***************************************************************************)
(* computeInterceptionPlans finds the best: no region of any route offers  *)
(* an active Nazgul more than its plan, and one that gets no plan is       *)
(* offered nothing.                                                        *)
(***************************************************************************)
THEOREM PlansAreBest ==
    ASSUME NEW w \in WorldState, NEW bearer, NEW u \in DOMAIN w.detectors,
           NEW r \in DOMAIN CanonicalRoutes, NEW i \in DOMAIN CanonicalRoutes[r].regions
    PROVE  LET plans == ComputeInterceptionPlans(w, bearer)
               offer == Offer(w.detectors[u], bearer, r, i)
           IN  IF u \in DOMAIN plans THEN ~Greater(offer.score, plans[u].score)
                                     ELSE offer.score.num <= 0
<1> DEFINE from == w.detectors[u]
           offer == Offer(from, bearer, r, i)
           plan == BestOffer(from, bearer)
           plans == ComputeInterceptionPlans(w, bearer)
           best == [d \in DOMAIN w.detectors |-> BestOffer(w.detectors[d], bearer)]
<1>1. from \in Regions
  <2>1. w.detectors \in UNION {[active -> Regions] : active \in SUBSET Detectors}
    BY Zenon DEF WorldState
  <2> QED
    BY <2>1
<1>2. plans = [d \in {e \in DOMAIN best : best[e].target # ""} |-> best[d]]
  BY DEF ComputeInterceptionPlans
<1>3. (u \in DOMAIN plans <=> plan.target # "") /\ (u \in DOMAIN plans => plans[u] = plan)
  BY <1>2
<1> HIDE DEF plans, best
<1>4. NoMore(offer.score, plan.score)
  BY <1>1, BestOfferIsBest
<1>5. IsScore(plan.score) /\ (plan.target = "" => plan = NoOffer)
  <2>1. plan \in Candidates(from, bearer)
    BY <1>1, BestOfferIsCandidate
  <2> HIDE DEF from, plan
  <2>2. IsScore(plan.score)
    BY <1>1, <2>1, CandidateScore
  <2>3. ASSUME plan.target = "" PROVE plan = NoOffer
    BY <1>1, <2>1, <2>3, CandidateTarget, MapAssumption
  <2> QED
    BY <2>2, <2>3
<1>6. IsScore(offer.score)
  BY <1>1, OfferFacts DEF IsScore
<1> HIDE DEF from, offer, plan
<1>7. CASE u \in DOMAIN plans
  <2> DEFINE a == offer.score.num * plan.score.den
             b == plan.score.num * offer.score.den
  <2>1. a \in Int /\ b \in Int
    <3>1. /\ offer.score.num \in Int /\ plan.score.den \in Int
          /\ plan.score.num \in Int /\ offer.score.den \in Int
      BY <1>5, <1>6 DEF IsScore
    <3>2. \A x, y \in Int : x * y \in Int
      OBVIOUS
    <3> QED
      BY <3>1, <3>2
  <2>2. a <= b
    BY <1>4 DEF NoMore
  <2>3. Greater(offer.score, plan.score) <=> a > b
    BY DEF Greater
  <2> HIDE DEF a, b
  <2>4. ~Greater(offer.score, plan.score)
    BY <2>1, <2>2, <2>3
  <2> QED
    BY <1>3, <1>7, <2>4 DEF plans, offer, from
<1>8. CASE u \notin DOMAIN plans
  <2>1. plan.score = [num |-> 0, den |-> 1]
    <3>1. plan = NoOffer
      BY <1>3, <1>5, <1>8
    <3>2. NoOffer.score = [num |-> 0, den |-> 1]
      BY DEF NoOffer
    <3> QED
      BY <3>1, <3>2
  <2>2. offer.score.num * 1 <= 0 * offer.score.den
    BY <1>4, <2>1 DEF NoMore
  <2>3. offer.score.num <= 0
    BY <1>6, <2>2 DEF IsScore
  <2> QED
    BY <1>8, <2>3 DEF plans, offer, from
<1> QED
  BY <1>7, <1>8
=============================================================================
